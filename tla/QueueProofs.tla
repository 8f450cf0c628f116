----------------------------- MODULE QueueProofs -----------------------------
(***************************************************************************)
(* Theorems about AsyncJobQueue for any number of processes, rows, keys and *)
(* attempts, and about ReviewIndexing for any number of requests, reviews   *)
(* and versions beside them.  The queue's own invariant is reused in the    *)
(* second part: every step of the composition is a step of the queue or     *)
(* leaves the queue alone.                                                  *)
(***************************************************************************)
EXTENDS ReviewIndexing, TLAPS

------------------------------------------------------------------------------

(* What a step can be, with the disjunctions of Next opened.                *)
LEMMA StepCases ==
  ASSUME Next
  PROVE  \/ \E j \in Job, k \in Key, now \in BOOLEAN : Enqueue(j, k, now)
         \/ \E j \in Job : FallDue(j)
         \/ \E k \in Key : Cascade(k)
         \/ \E w \in Worker, j \in Job : Claim(w, j)
         \/ \E w \in Worker :
              \/ Fetch(w) \/ FetchNone(w) \/ FetchRaises(w)
              \/ MarkDone(w) \/ MarkDoneRaises(w)
              \/ Requeue(w) \/ Park(w) \/ RequeueConflict(w)
              \/ FailNone(w) \/ BookkeepingRaises(w)
              \/ Boot(w) \/ Stop(w) \/ Kill(w)
BY DEF Next, CalmNext, Environment, CalmStep, Accident, HandlerRaises

------------------------------------------------------------------------------
(* The inductive invariant.  Exclusion of the loops rests on the status of  *)
(* the rows (a row a loop holds is not pending, so nobody can claim it),    *)
(* and what a loop writes at the end rests on exclusion.                    *)
RowsHaveKeys ==
  \A j \in Job : IF status[j] = "absent" THEN key[j] = NoKey ELSE key[j] \in Key

IInv ==
  /\ TypeOK
  /\ RowsHaveKeys
  /\ OnePendingPerKey
  /\ HeldIsRunning
  /\ ExclusiveClaim
  /\ AttemptBudget

LEMMA InitIInv == Init => IInv
BY QueueAssumption
DEF Init, IInv, TypeOK, RowsHaveKeys, OnePendingPerKey, HeldIsRunning,
    ExclusiveClaim, AttemptBudget, Status, Mode, Phase

(* A row inserted by a request.                                             *)
LEMMA EnqueueIInv ==
  ASSUME IInv, NEW j \in Job, NEW k \in Key, NEW now \in BOOLEAN, Enqueue(j, k, now)
  PROVE  IInv'
<1> USE QueueAssumption DEF IInv, Enqueue, workerVars
<1>1. TypeOK'
  BY DEF TypeOK, Status
<1>2. RowsHaveKeys'
  BY DEF TypeOK, RowsHaveKeys
<1>3. OnePendingPerKey'
  BY DEF TypeOK, OnePendingPerKey, IndexAdmits, Indexed
<1>4. HeldIsRunning'
  BY DEF TypeOK, HeldIsRunning, Fresh
<1>5. ExclusiveClaim'
  BY DEF ExclusiveClaim
<1>6. AttemptBudget'
  BY DEF TypeOK, AttemptBudget
<1> QED BY <1>1, <1>2, <1>3, <1>4, <1>5, <1>6

(* A row taken by a loop.                                                   *)
LEMMA ClaimIInv ==
  ASSUME IInv, NEW w \in Worker, NEW j \in Job, Claim(w, j)
  PROVE  IInv'
<1> USE QueueAssumption DEF IInv, Claim
<1>1. attempts[j] \in 0 .. MaxAttempts /\ attempts[j] < MaxAttempts
  BY DEF TypeOK, AttemptBudget
<1>2. TypeOK'
  BY <1>1 DEF TypeOK, Status, Phase
<1>3. RowsHaveKeys'
  BY DEF TypeOK, RowsHaveKeys
<1>4. OnePendingPerKey'
  BY DEF TypeOK, OnePendingPerKey
<1>5. \A v \in Worker : held[v] # j
  BY DEF HeldIsRunning
<1>6. HeldIsRunning'
  BY <1>5 DEF TypeOK, HeldIsRunning
<1>7. ExclusiveClaim'
  BY <1>5 DEF TypeOK, ExclusiveClaim
<1>8. AttemptBudget'
  BY <1>1 DEF TypeOK, AttemptBudget
<1> QED BY <1>2, <1>3, <1>4, <1>6, <1>7, <1>8

(* A row settled or put back by the loop that holds it.                     *)
LEMMA SettleIInv ==
  ASSUME IInv, NEW w \in Worker, MarkDone(w) \/ Requeue(w) \/ Park(w)
  PROVE  IInv'
<1> USE QueueAssumption DEF IInv, LetGo
<1> DEFINE j == held[w]
<1>1. /\ phase[w] = "handling" /\ j \in Job /\ status[j] = "running"
      /\ \A v \in Worker \ {w} : held[v] # j
  BY DEF TypeOK, HeldIsRunning, ExclusiveClaim, MarkDone, Requeue, Park
<1>2. TypeOK'
  BY <1>1 DEF TypeOK, Status, Mode, Phase, MarkDone, Requeue, Park
<1>3. RowsHaveKeys'
  BY <1>1 DEF TypeOK, RowsHaveKeys, MarkDone, Requeue, Park
<1>4. OnePendingPerKey'
  BY <1>1 DEF TypeOK, OnePendingPerKey, MarkDone, Requeue, Park, IndexAdmits, Indexed
<1>5. HeldIsRunning'
  BY <1>1 DEF TypeOK, HeldIsRunning, MarkDone, Requeue, Park
<1>6. ExclusiveClaim'
  BY DEF TypeOK, ExclusiveClaim, MarkDone, Requeue, Park
<1>7. AttemptBudget'
  BY <1>1 DEF TypeOK, AttemptBudget, MarkDone, Requeue, Park
<1> QED BY <1>2, <1>3, <1>4, <1>5, <1>6, <1>7

(* A loop lets its row go without touching it.                              *)
LEMMA AbandonIInv ==
  ASSUME IInv, NEW w \in Worker,
         \/ FetchNone(w) \/ FetchRaises(w) \/ MarkDoneRaises(w)
         \/ RequeueConflict(w) \/ FailNone(w) \/ BookkeepingRaises(w) \/ Kill(w)
  PROVE  IInv'
<1>1. /\ UNCHANGED rowVars
      /\ held' = [held EXCEPT ![w] = NoJob]
      /\ phase' = [phase EXCEPT ![w] = "idle"]
      /\ mode' \in [Worker -> Mode]
  BY DEF IInv, TypeOK, Mode, LetGo, FetchNone, FetchRaises, MarkDoneRaises,
         RequeueConflict, FailNone, BookkeepingRaises, Kill
<1> QED
  BY <1>1, QueueAssumption
  DEF IInv, TypeOK, Phase, rowVars, RowsHaveKeys, OnePendingPerKey, HeldIsRunning,
      ExclusiveClaim, AttemptBudget

(* Steps that move neither a status nor a claim.                            *)
LEMMA QuietIInv ==
  ASSUME IInv,
         \/ \E j \in Job : FallDue(j)
         \/ \E w \in Worker : Fetch(w) \/ Boot(w) \/ Stop(w)
         \/ UNCHANGED vars
  PROVE  IInv'
<1>1. /\ UNCHANGED <<status, key, attempts, held>>
      /\ due' \in [Job -> BOOLEAN] /\ mode' \in [Worker -> Mode]
      /\ phase' \in [Worker -> Phase]
      /\ \A w \in Worker : phase'[w] = "idle" <=> phase[w] = "idle"
  BY DEF IInv, TypeOK, Mode, Phase, FallDue, Fetch, Boot, Stop, vars, rowVars, workerVars
<1> QED
  BY <1>1
  DEF IInv, TypeOK, RowsHaveKeys, OnePendingPerKey, HeldIsRunning, ExclusiveClaim,
      AttemptBudget

(* The rows of a key deleted, whoever holds them.                           *)
LEMMA CascadeIInv ==
  ASSUME IInv, NEW k \in Key, Cascade(k)
  PROVE  IInv'
<1> USE QueueAssumption DEF IInv, Cascade, workerVars
<1>1. TypeOK'
  <2>1. status' \in [Job -> Status] /\ key' \in [Job -> Key \cup {NoKey}]
    BY DEF TypeOK, Status
  <2>2. attempts' \in [Job -> 0 .. MaxAttempts]
    BY DEF TypeOK
  <2>3. due' \in [Job -> BOOLEAN]
    BY DEF TypeOK
  <2> QED BY <2>1, <2>2, <2>3 DEF TypeOK
<1>2. RowsHaveKeys' /\ OnePendingPerKey'
  BY DEF TypeOK, RowsHaveKeys, OnePendingPerKey
<1>3. HeldIsRunning' /\ ExclusiveClaim'
  BY DEF TypeOK, HeldIsRunning, ExclusiveClaim
<1>4. AttemptBudget'
  BY DEF TypeOK, AttemptBudget
<1> QED BY <1>1, <1>2, <1>3, <1>4

LEMMA StepIInv == IInv /\ [Next]_vars => IInv'
<1> SUFFICES ASSUME IInv, [Next]_vars PROVE IInv'
  OBVIOUS
<1>1. CASE UNCHANGED vars
  BY <1>1, QuietIInv
<1>2. CASE Next
  BY <1>2, StepCases, EnqueueIInv, ClaimIInv, SettleIInv, AbandonIInv, QuietIInv, CascadeIInv
<1> QED BY <1>1, <1>2

LEMMA InvariantHolds == Spec => []IInv
BY InitIInv, StepIInv, PTL DEF Spec

------------------------------------------------------------------------------
(* Every variable keeps its type; in particular no row is charged more than *)
(* MaxAttempts executions.                                                  *)
THEOREM TypeCorrect == Spec => []TypeOK
BY InvariantHolds, PTL DEF IInv

(* No two pending rows share a key, though requests insert rows and workers *)
(* put rows back concurrently.                                              *)
THEOREM OnePending == Spec => []OnePendingPerKey
BY InvariantHolds, PTL DEF IInv

(* What a loop writes at the end lands on a row that is still running, or   *)
(* on no row: nobody settled or requeued it in the meantime.                *)
THEOREM Holding == Spec => []HeldIsRunning
BY InvariantHolds, PTL DEF IInv

(* No row is in the hands of two loops.                                     *)
THEOREM Exclusion == Spec => []ExclusiveClaim
BY InvariantHolds, PTL DEF IInv

(* The attempts column is the budget of executions of its row.              *)
THEOREM Budget == Spec => []AttemptBudget
BY InvariantHolds, PTL DEF IInv

------------------------------------------------------------------------------
SettleStep ==
  \A j \in Job :
    /\ status[j] \in {"done", "failed"} => status'[j] \in {status[j], "absent"}
    /\ status'[j] # "absent" /\ status[j] # "absent" => attempts'[j] >= attempts[j]

LEMMA StepSettles == IInv /\ [Next]_vars => SettleStep
<1> SUFFICES ASSUME IInv, [Next]_vars PROVE SettleStep
  OBVIOUS
<1>0. \A j \in Job : attempts[j] \in Nat
  BY QueueAssumption DEF IInv, TypeOK
<1>1. CASE \E j \in Job, k \in Key, now \in BOOLEAN : Enqueue(j, k, now)
  BY <1>0, <1>1 DEF IInv, TypeOK, SettleStep, Enqueue, Fresh
<1>2. CASE \E k \in Key : Cascade(k)
  BY <1>0, <1>2 DEF IInv, TypeOK, SettleStep, Cascade
<1>3. CASE \E w \in Worker, j \in Job : Claim(w, j)
  BY <1>0, <1>3 DEF IInv, TypeOK, SettleStep, Claim
<1>4. CASE \E w \in Worker : MarkDone(w) \/ Requeue(w) \/ Park(w)
  <2> PICK w \in Worker : MarkDone(w) \/ Requeue(w) \/ Park(w)
    BY <1>4
  <2>1. held[w] \in Job /\ status[held[w]] = "running"
    BY DEF IInv, TypeOK, HeldIsRunning, MarkDone, Requeue, Park
  <2> QED
    BY <1>0, <2>1 DEF IInv, TypeOK, SettleStep, MarkDone, Requeue, Park
<1>5. CASE UNCHANGED <<status, attempts>>
  BY <1>0, <1>5 DEF SettleStep
<1> QED
  BY <1>1, <1>2, <1>3, <1>4, <1>5, StepCases
  DEF vars, rowVars, FallDue, Fetch, FetchNone, FetchRaises, MarkDoneRaises,
      RequeueConflict, FailNone, BookkeepingRaises, Boot, Stop, Kill

(* A settled row is never run again, and no attempt is given back.          *)
THEOREM Settled == Spec => SettledForGood
<1>1. IInv /\ [Next]_vars => [SettleStep]_vars
  BY StepSettles
<1>2. Spec => [][SettleStep]_vars
  BY <1>1, InvariantHolds, PTL DEF Spec
<1> QED BY <1>2 DEF SettledForGood, SettleStep

------------------------------------------------------------------------------
(* The refinement: what the ledger sees of the rows and of the loops.       *)
Requested == {key[j] : j \in {i \in Job : status[i] = "pending"}}
Executing == [w \in Worker |-> IF held[w] = NoJob THEN NoKey ELSE key[held[w]]]

LEMMA InitRefines == Init => Ledger!Init
BY DEF Init, Ledger!Init

(* A request.                                                               *)
LEMMA EnqueueRefines ==
  ASSUME IInv, NEW j \in Job, NEW k \in Key, NEW now \in BOOLEAN, Enqueue(j, k, now)
  PROVE  Ledger!Request(k)
<1> USE DEF Enqueue, workerVars
<1>1. k \notin Requested
  BY DEF IInv, TypeOK, Enqueue, Fresh, IndexAdmits, Indexed, Requested
<1>2. Requested' = Requested \cup {k}
  BY DEF IInv, TypeOK, Fresh, Requested
<1>3. Executing' = Executing
  BY DEF IInv, TypeOK, Fresh, Executing
<1> QED BY <1>1, <1>2, <1>3 DEF Ledger!Request, Requested, Executing

(* An execution starts, from the request of its own row.                    *)
LEMMA ClaimRefines ==
  ASSUME IInv, NEW w \in Worker, NEW j \in Job, Claim(w, j),
         NEW k \in Key, key[j] = k
  PROVE  Ledger!Take(w, k)
<1> USE DEF Claim
<1>1. held[w] = NoJob /\ Executing[w] = NoKey
  BY DEF IInv, HeldIsRunning, Executing
<1>2. k \in Requested
  BY DEF Requested
<1>3. Requested' = Requested \ {k}
  BY DEF IInv, TypeOK, OnePendingPerKey, Requested
<1>4. Executing' = [Executing EXCEPT ![w] = k]
  BY QueueAssumption DEF IInv, TypeOK, Executing
<1> QED BY <1>1, <1>2, <1>3, <1>4 DEF Ledger!Take, Requested, Executing

(* A failed execution is a request again.                                   *)
LEMMA RequeueRefines ==
  ASSUME IInv, NEW w \in Worker, Requeue(w)
  PROVE  Ledger!Retry(w)
<1> USE DEF Requeue, LetGo
<1>1. held[w] \in Job /\ status[held[w]] = "running"
  BY DEF IInv, TypeOK, HeldIsRunning
<1>2. held[w] # NoJob /\ Executing[w] = key[held[w]] /\ key[held[w]] \in Key
  BY <1>1, QueueAssumption DEF IInv, RowsHaveKeys, Executing
<1>3. key[held[w]] # NoKey
  BY <1>2, QueueAssumption
<1>4. key[held[w]] \notin Requested
  BY <1>1 DEF IndexAdmits, Indexed, Requested
<1>5. Requested' = Requested \cup {key[held[w]]}
  BY <1>1 DEF IInv, TypeOK, Requested
<1>6. Executing' = [Executing EXCEPT ![w] = NoKey]
  BY DEF IInv, TypeOK, Executing
<1> QED BY <1>2, <1>3, <1>4, <1>5, <1>6 DEF Ledger!Retry, Requested, Executing

(* An execution ends, or its row was already withdrawn.                     *)
LEMMA EndRefines ==
  ASSUME IInv, NEW w \in Worker,
         /\ held' = [held EXCEPT ![w] = NoJob]
         /\ key' = key
         /\ {i \in Job : status'[i] = "pending"} = {i \in Job : status[i] = "pending"}
  PROVE  Ledger!End(w) \/ UNCHANGED <<Requested, Executing>>
<1>1. Requested' = Requested
  BY DEF Requested
<1>2. Executing' = [Executing EXCEPT ![w] = NoKey]
  BY DEF IInv, TypeOK, Executing
<1>3. CASE Executing[w] = NoKey
  <2>1. Executing' = Executing
    BY <1>2, <1>3 DEF Executing
  <2> QED BY <1>1, <2>1
<1>4. CASE Executing[w] # NoKey
  BY <1>1, <1>2, <1>4 DEF Ledger!End, Requested, Executing
<1> QED BY <1>3, <1>4

(* The work of a deleted key is withdrawn, queued or being executed.        *)
LEMMA CascadeRefines ==
  ASSUME IInv, NEW k \in Key, Cascade(k)
  PROVE  Ledger!Withdraw(k)
<1> USE DEF Cascade, workerVars
<1>1. Requested' = Requested \ {k}
  BY DEF IInv, TypeOK, Requested
<1>2. Executing' = [w \in Worker |-> IF Executing[w] = k THEN NoKey ELSE Executing[w]]
  <2> SUFFICES ASSUME NEW w \in Worker
               PROVE  Executing'[w] = IF Executing[w] = k THEN NoKey ELSE Executing[w]
    BY DEF Executing
  <2>1. CASE held[w] = NoJob
    BY <2>1, QueueAssumption DEF Executing
  <2>2. CASE held[w] \in Job
    BY <2>2, QueueAssumption DEF IInv, RowsHaveKeys, Executing
  <2> QED BY <2>1, <2>2 DEF IInv, TypeOK
<1> QED BY <1>1, <1>2 DEF Ledger!Withdraw, Requested, Executing

LEMMA StepRefines == IInv /\ [Next]_vars => [Ledger!Next]_<<Requested, Executing>>
<1> SUFFICES ASSUME IInv, [Next]_vars PROVE Ledger!Next \/ UNCHANGED <<Requested, Executing>>
  OBVIOUS
<1>1. CASE \E j \in Job, k \in Key, now \in BOOLEAN : Enqueue(j, k, now)
  BY <1>1, EnqueueRefines DEF Ledger!Next
<1>2. CASE \E k \in Key : Cascade(k)
  BY <1>2, CascadeRefines DEF Ledger!Next
<1>3. CASE \E w \in Worker, j \in Job : Claim(w, j)
  <2> PICK w \in Worker, j \in Job : Claim(w, j)
    BY <1>3
  <2>1. key[j] \in Key
    BY DEF IInv, RowsHaveKeys, Claim
  <2>2. PICK k \in Key : key[j] = k
    BY <2>1
  <2>3. Ledger!Take(w, k)
    BY <2>2, ClaimRefines
  <2> QED BY <2>3 DEF Ledger!Next
<1>4. CASE \E w \in Worker : Requeue(w)
  BY <1>4, RequeueRefines DEF Ledger!Next
<1>5. CASE \E w \in Worker :
             \/ FetchNone(w) \/ FetchRaises(w) \/ MarkDone(w) \/ MarkDoneRaises(w)
             \/ Park(w) \/ RequeueConflict(w) \/ FailNone(w)
             \/ BookkeepingRaises(w) \/ Kill(w)
  <2> PICK w \in Worker :
             \/ FetchNone(w) \/ FetchRaises(w) \/ MarkDone(w) \/ MarkDoneRaises(w)
             \/ Park(w) \/ RequeueConflict(w) \/ FailNone(w)
             \/ BookkeepingRaises(w) \/ Kill(w)
    BY <1>5
  <2>1. held' = [held EXCEPT ![w] = NoJob] /\ key' = key
    BY DEF LetGo, rowVars, FetchNone, FetchRaises, MarkDone, MarkDoneRaises, Park,
           RequeueConflict, FailNone, BookkeepingRaises, Kill
  <2>2. {i \in Job : status'[i] = "pending"} = {i \in Job : status[i] = "pending"}
    <3>1. CASE UNCHANGED status
      BY <3>1
    <3>2. CASE MarkDone(w) \/ Park(w)
      <4>1. held[w] \in Job /\ status[held[w]] = "running"
        BY <3>2 DEF IInv, TypeOK, HeldIsRunning, MarkDone, Park
      <4> QED BY <3>2, <4>1 DEF IInv, TypeOK, MarkDone, Park
    <3> QED
      BY <3>1, <3>2
      DEF rowVars, FetchNone, FetchRaises, MarkDoneRaises, RequeueConflict, FailNone,
          BookkeepingRaises, Kill
  <2> QED BY <2>1, <2>2, EndRefines DEF Ledger!Next
<1>6. CASE UNCHANGED <<status, key, held>>
  BY <1>6 DEF Requested, Executing
<1> QED
  BY <1>1, <1>2, <1>3, <1>4, <1>5, <1>6, StepCases
  DEF vars, rowVars, workerVars, FallDue, Fetch, Boot, Stop

(* The queue implements the ledger of requests and executions.              *)
THEOREM Refinement == Spec => ImplementsLedger
<1>1. Init => Ledger!Init
  BY InitRefines
<1>2. IInv /\ [Next]_vars => [Ledger!Next]_Ledger!vars
  BY StepRefines DEF Ledger!vars, Requested, Executing
<1>3. Spec => Ledger!Init /\ [][Ledger!Next]_Ledger!vars
  BY <1>1, <1>2, InvariantHolds, PTL DEF Spec
<1> QED BY <1>3 DEF ImplementsLedger, Ledger!Spec

------------------------------------------------------------------------------

(* The row a write folded into is there as long as the write is open, since *)
(* a deletion of the review waits for the write.                            *)
FoldIsOpen ==
  \A c \in Client :
    fold[c] # NoJob =>
      /\ open[c] # NoReview
      /\ status[fold[c]] # "absent"
      /\ key[fold[c]] = open[c]

(* A handler has read a committed version of the review of its row.         *)
SeenCommitted ==
  \A w \in Worker :
    phase[w] = "handling" /\ status[held[w]] # "absent" =>
      seen[w] <= version[key[held[w]]]

IndexIInv ==
  /\ IInv
  /\ IndexTypeOK
  /\ FoldIsOpen
  /\ SeenCommitted
  /\ NoOrphanRow
  /\ StaleHasCause

LEMMA InitIndexIInv == IndexInit => IndexIInv
<1> SUFFICES ASSUME IndexInit PROVE IndexIInv
  OBVIOUS
<1> USE QueueAssumption, IndexingAssumption DEF IndexInit, Review, Version
<1>1. IInv
  BY InitIInv
<1>2. IndexTypeOK
  BY <1>1 DEF IInv, IndexTypeOK
<1>3. FoldIsOpen
  BY DEF FoldIsOpen
<1>4. SeenCommitted /\ NoOrphanRow /\ StaleHasCause
  BY DEF Init, SeenCommitted, NoOrphanRow, StaleHasCause
<1> QED BY <1>1, <1>2, <1>3, <1>4 DEF IndexIInv

(* The queue sees its own steps only.                                       *)
LEMMA IndexStepIsQueueStep == IndexTypeOK /\ [IndexNext]_allVars => [Next]_vars
<1> SUFFICES ASSUME IndexTypeOK, [IndexNext]_allVars PROVE [Next]_vars
  OBVIOUS
<1> USE DEF Review
<1>1. CASE UNCHANGED vars
  BY <1>1
<1>2. CASE \E c \in Client, j \in Job : CommitQueued(c, j)
  BY <1>2 DEF IndexTypeOK, CommitQueued, Next, CalmNext, Environment
<1>3. CASE \E r \in Key : Cascade(r)
  BY <1>3 DEF Next, CalmNext, Environment
<1>4. CASE \E j \in Job : FallDue(j)
  BY <1>4 DEF Next, CalmNext, Environment
<1>5. CASE \E w \in Worker :
             \/ Read(w) \/ Index(w) \/ Skip(w) \/ Retry(w) \/ GiveUp(w) \/ OtherLoopStep(w)
  BY <1>5
  DEF Read, Index, Skip, Retry, GiveUp, OtherLoopStep, Next, CalmNext, CalmStep, Accident,
      HandlerRaises
<1> QED
  BY <1>1, <1>2, <1>3, <1>4, <1>5
  DEF IndexNext, allVars, Stage, CommitFolded, Abort, Delete

LEMMA QueueKept ==
  ASSUME IndexIInv, [IndexNext]_allVars
  PROVE  IInv'
BY IndexStepIsQueueStep, StepIInv DEF IndexIInv

(* What a step leaves alone stays covered.                                  *)
LEMMA CoveredStays ==
  ASSUME NEW r \in Review, Covered(r), version'[r] = version[r],
         \A j \in Job : key[j] = r =>
           /\ key'[j] = r
           /\ status[j] = "pending" => status'[j] = "pending"
           /\ \A w \in Worker :
                held[w] = j =>
                  held'[w] = j /\ phase'[w] = phase[w] /\ seen'[w] = seen[w]
  PROVE  Covered(r)'
BY DEF Covered

(* A request opens a transaction.                                           *)
LEMMA StageKeeps ==
  ASSUME IndexIInv, NEW c \in Client, NEW r \in Review, Stage(c, r)
  PROVE  IndexIInv'
<1> USE QueueAssumption, IndexingAssumption DEF IndexIInv, Stage, Review
<1>1. IInv'
  BY QueueKept DEF IndexNext
<1>2. IndexTypeOK'
  BY <1>1 DEF IInv, IndexTypeOK, vars, Indexed
<1>3. FoldIsOpen'
  BY DEF IndexTypeOK, FoldIsOpen, Indexed, vars
<1>4. SeenCommitted' /\ NoOrphanRow' /\ StaleHasCause'
  BY DEF vars, SeenCommitted, NoOrphanRow, StaleHasCause, Covered
<1> QED BY <1>1, <1>2, <1>3, <1>4

(* A write commits together with the row it inserted.                       *)
LEMMA CommitQueuedKeeps ==
  ASSUME IndexIInv, NEW c \in Client, NEW j \in Job, CommitQueued(c, j)
  PROVE  IndexIInv'
<1> USE QueueAssumption, IndexingAssumption DEF IndexIInv, Review
<1> DEFINE r == open[c]
<1>0. /\ r \in Key /\ version[r] \in Nat
      /\ Enqueue(j, r, TRUE) /\ status[j] = "absent" /\ key[j] = NoKey
      /\ \A w \in Worker : held[w] # j
      /\ version' = [version EXCEPT ![r] = version[r] + 1]
  BY DEF CommitQueued, IndexTypeOK, Enqueue, Fresh, IInv, RowsHaveKeys, Version
<1>1. IInv'
  BY QueueKept DEF IndexNext
<1>2. IndexTypeOK'
  BY <1>0, <1>1 DEF IInv, IndexTypeOK, CommitQueued, Version
<1>3. FoldIsOpen'
  BY <1>0 DEF IInv, TypeOK, IndexTypeOK, FoldIsOpen, CommitQueued, Enqueue
<1>4. SeenCommitted'
  BY <1>0 DEF IInv, TypeOK, HeldIsRunning, IndexTypeOK, RowsHaveKeys, Version,
     SeenCommitted, CommitQueued, Enqueue, workerVars
<1>5. NoOrphanRow'
  BY <1>0 DEF IInv, TypeOK, RowsHaveKeys, IndexTypeOK, Version, NoOrphanRow, CommitQueued, Enqueue
<1>6. StaleHasCause'
  <2> SUFFICES ASSUME NEW q \in Review, version'[q] > 0, indexed'[q] # version'[q], ~excused'[q]
               PROVE  Covered(q)'
    BY DEF StaleHasCause
  <2>1. CASE q = r
    BY <1>0, <2>1 DEF IInv, TypeOK, Enqueue, Covered
  <2>2. CASE q # r
    <3>1. version'[q] = version[q] /\ Covered(q)
      BY <1>0, <2>2 DEF IndexTypeOK, CommitQueued, StaleHasCause
    <3> QED
      BY <1>0, <2>2, <3>1, CoveredStays
      DEF IInv, TypeOK, Enqueue, workerVars, CommitQueued
  <2> QED BY <2>1, <2>2
<1> QED BY <1>1, <1>2, <1>3, <1>4, <1>5, <1>6

(* A write commits that relies on a row it ran into.                        *)
LEMMA CommitFoldedKeeps ==
  ASSUME IndexIInv, NEW c \in Client, CommitFolded(c)
  PROVE  IndexIInv'
<1> USE QueueAssumption, IndexingAssumption DEF IndexIInv, Review
<1> DEFINE r == open[c]
<1>0. /\ r \in Key /\ version[r] \in Nat
      /\ fold[c] \in Job /\ key[fold[c]] = r
      /\ version' = [version EXCEPT ![r] = version[r] + 1]
      /\ UNCHANGED vars
  BY DEF CommitFolded, IndexTypeOK, FoldIsOpen, Version
<1>1. IInv'
  BY QueueKept DEF IndexNext
<1>2. IndexTypeOK'
  BY <1>0, <1>1 DEF IInv, IndexTypeOK, CommitFolded, Version
<1>3. FoldIsOpen'
  BY <1>0 DEF IndexTypeOK, FoldIsOpen, CommitFolded, vars
<1>4. SeenCommitted'
  BY <1>0 DEF IInv, TypeOK, HeldIsRunning, IndexTypeOK, RowsHaveKeys, Version,
     SeenCommitted, CommitFolded, vars
<1>5. NoOrphanRow'
  BY <1>0 DEF IInv, TypeOK, RowsHaveKeys, IndexTypeOK, Version, NoOrphanRow, CommitFolded, vars
<1>6. StaleHasCause'
  <2> SUFFICES ASSUME NEW q \in Review, version'[q] > 0, indexed'[q] # version'[q], ~excused'[q]
               PROVE  Covered(q)'
    BY DEF StaleHasCause
  <2>1. CASE q = r
    BY <1>0, <2>1 DEF IndexTypeOK, CommitFolded, vars, Covered
  <2>2. CASE q # r
    <3>1. version'[q] = version[q] /\ Covered(q)
      BY <1>0, <2>2 DEF IndexTypeOK, CommitFolded, StaleHasCause
    <3> QED
      BY <1>0, <3>1, CoveredStays DEF vars, CommitFolded
  <2> QED BY <2>1, <2>2
<1> QED BY <1>1, <1>2, <1>3, <1>4, <1>5, <1>6

(* A write rolls back.                                                      *)
LEMMA AbortKeeps ==
  ASSUME IndexIInv, NEW c \in Client, Abort(c)
  PROVE  IndexIInv'
<1> USE QueueAssumption, IndexingAssumption DEF IndexIInv, Abort, Review
<1>1. IInv'
  BY QueueKept DEF IndexNext
<1>2. IndexTypeOK'
  BY <1>1 DEF IInv, IndexTypeOK
<1>3. FoldIsOpen'
  BY DEF IndexTypeOK, FoldIsOpen, vars
<1>4. SeenCommitted' /\ NoOrphanRow' /\ StaleHasCause'
  BY DEF vars, SeenCommitted, NoOrphanRow, StaleHasCause, Covered
<1> QED BY <1>1, <1>2, <1>3, <1>4

(* A review is deleted, and its rows and its embedding with it.             *)
LEMMA DeleteKeeps ==
  ASSUME IndexIInv, NEW r \in Review, Delete(r)
  PROVE  IndexIInv'
<1> USE QueueAssumption, IndexingAssumption DEF IndexIInv, Review
<1>1. IInv'
  BY QueueKept DEF IndexNext
<1>2. IndexTypeOK'
  BY <1>1 DEF IInv, IndexTypeOK, Delete, Version
<1>3. /\ \A j \in Job : key[j] = r => status'[j] = "absent" /\ key'[j] = NoKey
      /\ \A j \in Job : key[j] # r => status'[j] = status[j] /\ key'[j] = key[j]
      /\ UNCHANGED <<held, phase, seen, open, fold>>
      /\ version' = [version EXCEPT ![r] = 0]
      /\ \A c \in Client : open[c] # r
  BY DEF Delete, Cascade, vars, workerVars, IInv, TypeOK, RowsHaveKeys
<1>4. FoldIsOpen'
  BY <1>3 DEF IndexTypeOK, FoldIsOpen
<1>5. SeenCommitted'
  BY <1>3 DEF IInv, TypeOK, HeldIsRunning, IndexTypeOK, RowsHaveKeys, Version, SeenCommitted
<1>6. NoOrphanRow'
  BY <1>3 DEF IInv, RowsHaveKeys, IndexTypeOK, Version, NoOrphanRow, Delete
<1>7. StaleHasCause'
  <2> SUFFICES ASSUME NEW q \in Review, version'[q] > 0, indexed'[q] # version'[q], ~excused'[q]
               PROVE  Covered(q)'
    BY DEF StaleHasCause
  <2>1. q # r
    BY <1>3 DEF IndexTypeOK
  <2>2. version'[q] = version[q] /\ Covered(q)
    BY <1>3, <2>1 DEF IndexTypeOK, Delete, StaleHasCause
  <2> QED BY <1>3, <2>1, <2>2, CoveredStays
<1> QED BY <1>1, <1>2, <1>4, <1>5, <1>6, <1>7

------------------------------------------------------------------------------
(* What every step of a loop leaves alone: the reviews, and the rows that   *)
(* it does not hold.                                                        *)
LEMMA LoopTypeOK ==
  ASSUME IndexIInv, IInv',
         UNCHANGED <<version, open, fold>>,
         indexed' \in [Review -> Version], seen' \in [Worker -> Version],
         excused' \in [Review -> BOOLEAN]
  PROVE  IndexTypeOK'
BY DEF IndexIInv, IInv, IndexTypeOK

(* The handler starts and reads the review.                                 *)
LEMMA ReadKeeps ==
  ASSUME IndexIInv, NEW w \in Worker, Read(w)
  PROVE  IndexIInv'
<1> USE QueueAssumption, IndexingAssumption DEF IndexIInv, Review
<1>1. IInv'
  BY QueueKept DEF IndexNext
<1>0. /\ held[w] \in Job /\ status[held[w]] # "absent" /\ key[held[w]] \in Key
      /\ UNCHANGED <<status, key, held, version, indexed, open, fold, excused>>
      /\ seen' = [seen EXCEPT ![w] = version[key[held[w]]]]
      /\ phase' = [phase EXCEPT ![w] = "handling"]
      /\ \A v \in Worker \ {w} : held[v] # held[w]
  BY DEF Read, Fetch, ReviewOf, rowVars, IInv, TypeOK, HeldIsRunning, ExclusiveClaim, RowsHaveKeys
<1>2. IndexTypeOK'
  BY <1>0, <1>1, LoopTypeOK DEF IndexTypeOK
<1>3. FoldIsOpen' /\ NoOrphanRow'
  BY <1>0 DEF FoldIsOpen, NoOrphanRow
<1>4. SeenCommitted'
  BY <1>0 DEF IndexTypeOK, Version, IInv, TypeOK, SeenCommitted
<1>5. StaleHasCause'
  BY <1>0 DEF IndexTypeOK, IInv, TypeOK, StaleHasCause, Covered
<1> QED BY <1>1, <1>2, <1>3, <1>4, <1>5

(* A handler's embedding is committed, or the handler gives up quietly.     *)
LEMMA DoneKeeps ==
  ASSUME IndexIInv, NEW w \in Worker, Index(w) \/ Skip(w)
  PROVE  IndexIInv'
<1> USE QueueAssumption, IndexingAssumption DEF IndexIInv, Review
<1> DEFINE r == key[held[w]]
<1>1. IInv'
  BY QueueKept DEF IndexNext
<1>0. /\ held[w] \in Job /\ status[held[w]] # "absent" /\ r \in Key
      /\ phase[w] = "handling" /\ seen[w] <= version[r]
      /\ version[r] \in Nat /\ seen[w] \in Nat /\ indexed[r] \in Nat
      /\ status' = [status EXCEPT ![held[w]] = "done"]
      /\ held' = [held EXCEPT ![w] = NoJob]
      /\ phase' = [phase EXCEPT ![w] = "idle"]
      /\ UNCHANGED <<key, version, open, fold, seen>>
      /\ \A v \in Worker \ {w} : held[v] # held[w]
  BY DEF Index, Skip, MarkDone, LetGo, IInv, TypeOK, HeldIsRunning, ExclusiveClaim,
         RowsHaveKeys, SeenCommitted, IndexTypeOK, Version
<1>a. \/ /\ indexed' = [indexed EXCEPT ![r] = seen[w]]
         /\ excused' = [excused EXCEPT ![r] = excused[r] \/ seen[w] < indexed[r]]
      \/ /\ indexed' = indexed
         /\ excused' = [q \in Review |-> excused[q] \/ q = r]
  BY DEF Index, Skip, Lose, ReviewOf
<1>2. IndexTypeOK'
  <2>1. indexed' \in [Review -> Version] /\ seen' \in [Worker -> Version]
    BY <1>0, <1>a DEF IndexTypeOK
  <2>2. excused' \in [Review -> BOOLEAN]
    BY <1>0, <1>a DEF IndexTypeOK
  <2> QED BY <1>0, <1>1, <2>1, <2>2, LoopTypeOK
<1>3. FoldIsOpen'
  BY <1>0 DEF IndexTypeOK, IInv, TypeOK, FoldIsOpen
<1>4. NoOrphanRow'
  BY <1>0, <1>a DEF IndexTypeOK, IInv, TypeOK, NoOrphanRow
<1>5. SeenCommitted'
  BY <1>0 DEF IInv, TypeOK, SeenCommitted
<1>6. StaleHasCause'
  <2> SUFFICES ASSUME NEW q \in Review, version'[q] > 0, indexed'[q] # version'[q], ~excused'[q]
               PROVE  Covered(q)'
    BY DEF StaleHasCause
  <2>1. ~excused[q]
    BY <1>a DEF IndexTypeOK
  <2>2. Covered(q) /\ (q = r => seen[w] # version[q])
    <3>1. version[q] > 0
      BY <1>0
    <3>2. CASE q # r
      <4>1. indexed[q] # version[q]
        BY <1>0, <1>a, <3>2 DEF IndexTypeOK
      <4> QED BY <2>1, <3>1, <3>2, <4>1 DEF StaleHasCause
    <3>3. CASE q = r
      <4>1. indexed' = [indexed EXCEPT ![r] = seen[w]] /\ seen[w] >= indexed[r]
        <5>1. excused' # [p \in Review |-> excused[p] \/ p = r]
          BY <3>3
        <5>2. /\ indexed' = [indexed EXCEPT ![r] = seen[w]]
              /\ excused' = [excused EXCEPT ![r] = excused[r] \/ seen[w] < indexed[r]]
          BY <1>a, <5>1
        <5>3. ~(seen[w] < indexed[r])
          BY <3>3, <5>2 DEF IndexTypeOK
        <5> QED BY <1>0, <5>2, <5>3
      <4>2. seen[w] # version[r]
        BY <1>0, <3>3, <4>1 DEF IndexTypeOK
      <4>3. indexed[q] # version[q]
        BY <1>0, <3>3, <4>1, <4>2
      <4> QED BY <2>1, <3>1, <3>3, <4>2, <4>3 DEF StaleHasCause
    <3> QED BY <3>2, <3>3
  <2>3. PICK i \in Job :
          /\ key[i] = q
          /\ \/ status[i] = "pending"
             \/ \E v \in Worker :
                  held[v] = i /\ (phase[v] = "claimed" \/ seen[v] = version[q])
    BY <2>2 DEF Covered
  <2>4. CASE status[i] = "pending"
    BY <1>0, <2>3, <2>4 DEF IInv, TypeOK, HeldIsRunning, Covered
  <2>5. CASE \E v \in Worker :
               held[v] = i /\ (phase[v] = "claimed" \/ seen[v] = version[q])
    <3> PICK v \in Worker :
               held[v] = i /\ (phase[v] = "claimed" \/ seen[v] = version[q])
      BY <2>5
    <3>1. v # w
      BY <1>0, <2>2, <2>3
    <3> QED BY <1>0, <2>3, <3>1 DEF IInv, TypeOK, Covered
  <2> QED BY <2>3, <2>4, <2>5
<1> QED BY <1>1, <1>2, <1>3, <1>4, <1>5, <1>6

(* A failed handler's row goes back to pending, or finds another pending    *)
(* row of its review.                                                       *)
LEMMA RetryKeeps ==
  ASSUME IndexIInv, NEW w \in Worker, Retry(w)
  PROVE  IndexIInv'
<1> USE QueueAssumption, IndexingAssumption DEF IndexIInv, Review
<1> DEFINE r == key[held[w]]
<1>1. IInv'
  BY QueueKept DEF IndexNext
<1>0. /\ held[w] \in Job /\ status[held[w]] # "absent" /\ r \in Key
      /\ \/ status' = [status EXCEPT ![held[w]] = "pending"]
         \/ status' = status /\ \E i \in Job : status[i] = "pending" /\ key[i] = r
      /\ held' = [held EXCEPT ![w] = NoJob]
      /\ phase' = [phase EXCEPT ![w] = "idle"]
      /\ UNCHANGED <<key, version, indexed, open, fold, seen, excused>>
      /\ \A v \in Worker \ {w} : held[v] # held[w]
  BY DEF Retry, Requeue, RequeueConflict, LetGo, IndexAdmits, Indexed, textVars, rowVars,
         IInv, TypeOK, HeldIsRunning, ExclusiveClaim, RowsHaveKeys
<1>2. IndexTypeOK'
  BY <1>0, <1>1, LoopTypeOK DEF IndexTypeOK
<1>3. FoldIsOpen' /\ NoOrphanRow'
  BY <1>0 DEF IndexTypeOK, IInv, TypeOK, FoldIsOpen, NoOrphanRow
<1>4. SeenCommitted'
  BY <1>0 DEF IInv, TypeOK, HeldIsRunning, SeenCommitted
<1>5. StaleHasCause'
  <2> SUFFICES ASSUME NEW q \in Review, Covered(q) PROVE Covered(q)'
    BY <1>0 DEF StaleHasCause
  <2>1. CASE q = r
    BY <1>0, <2>1 DEF IInv, TypeOK, Covered
  <2>2. CASE q # r
    BY <1>0, <2>2, CoveredStays DEF IInv, TypeOK
  <2> QED BY <2>1, <2>2
<1> QED BY <1>1, <1>2, <1>3, <1>4, <1>5

(* A job is over for good: parked, killed, or lost to an error of the       *)
(* bookkeeping.                                                             *)
LEMMA GiveUpKeeps ==
  ASSUME IndexIInv, NEW w \in Worker, GiveUp(w)
  PROVE  IndexIInv'
<1> USE QueueAssumption, IndexingAssumption DEF IndexIInv, Review
<1>1. IInv'
  BY QueueKept DEF IndexNext
<1>0. /\ held[w] \in Job
      /\ \/ status' = status
         \/ status[held[w]] # "absent" /\ status' = [status EXCEPT ![held[w]] = "failed"]
      /\ status[held[w]] # "pending"
      /\ held' = [held EXCEPT ![w] = NoJob]
      /\ phase' = [phase EXCEPT ![w] = "idle"]
      /\ UNCHANGED <<key, version, indexed, open, fold, seen>>
      /\ excused' = [q \in Review |-> excused[q] \/ q = key[held[w]]]
      /\ \A v \in Worker \ {w} : held[v] # held[w]
  BY DEF GiveUp, Park, FetchRaises, MarkDoneRaises, BookkeepingRaises, Kill, Lose, ReviewOf,
         LetGo, rowVars, IInv, TypeOK, HeldIsRunning, ExclusiveClaim
<1>2. IndexTypeOK'
  BY <1>0, <1>1, LoopTypeOK DEF IndexTypeOK
<1>3. FoldIsOpen' /\ NoOrphanRow'
  BY <1>0 DEF IndexTypeOK, IInv, TypeOK, FoldIsOpen, NoOrphanRow
<1>4. SeenCommitted'
  BY <1>0 DEF IInv, TypeOK, HeldIsRunning, SeenCommitted
<1>5. StaleHasCause'
  <2> SUFFICES ASSUME NEW q \in Review, Covered(q), q # key[held[w]] PROVE Covered(q)'
    BY <1>0 DEF StaleHasCause
  <2> QED BY <1>0, CoveredStays DEF IInv, TypeOK
<1> QED BY <1>1, <1>2, <1>3, <1>4, <1>5

(* What a step of the queue that no review notices can be.                  *)
LEMMA OtherCases ==
  ASSUME \/ \E w \in Worker : OtherLoopStep(w)
         \/ \E j \in Job : FallDue(j) /\ UNCHANGED textVars
         \/ UNCHANGED allVars
  PROVE  \/ \E w \in Worker : FetchNone(w) \/ FailNone(w)
         \/ \E w \in Worker, j \in Job : Claim(w, j)
         \/ \E w \in Worker : Boot(w) \/ Stop(w) \/ (Kill(w) /\ held[w] = NoJob)
         \/ UNCHANGED allVars \/ \E j \in Job : FallDue(j)
BY DEF OtherLoopStep

(* A loop takes a row, or does something that is of no concern to reviews.  *)
LEMMA OtherKeeps ==
  ASSUME IndexIInv,
         \/ \E w \in Worker : OtherLoopStep(w)
         \/ \E j \in Job : FallDue(j) /\ UNCHANGED textVars
         \/ UNCHANGED allVars
  PROVE  IndexIInv'
<1> USE QueueAssumption, IndexingAssumption DEF IndexIInv, Review
<1>1. IInv'
  BY QueueKept DEF IndexNext
<1>0. UNCHANGED textVars /\ key' = key
  BY DEF OtherLoopStep, textVars, allVars, vars, rowVars, workerVars, Claim, FetchNone, FailNone,
         Boot, Stop, Kill, FallDue
<1>2. IndexTypeOK'
  BY <1>0, <1>1, LoopTypeOK DEF IndexTypeOK, textVars
<1>3. CASE UNCHANGED <<status, held, phase>>
  BY <1>0, <1>1, <1>2, <1>3
  DEF textVars, FoldIsOpen, NoOrphanRow, SeenCommitted, StaleHasCause, Covered
<1>4. CASE \E w \in Worker : FetchNone(w) \/ FailNone(w)
  <2> PICK w \in Worker : FetchNone(w) \/ FailNone(w)
    BY <1>4
  <2>0. /\ UNCHANGED status
        /\ held[w] \in Job /\ key[held[w]] = NoKey
        /\ held' = [held EXCEPT ![w] = NoJob]
        /\ phase' = [phase EXCEPT ![w] = "idle"]
    BY DEF FetchNone, FailNone, LetGo, rowVars, IInv, TypeOK, HeldIsRunning, RowsHaveKeys
  <2>1. FoldIsOpen' /\ NoOrphanRow'
    BY <1>0, <2>0 DEF textVars, FoldIsOpen, NoOrphanRow
  <2>2. SeenCommitted'
    BY <1>0, <2>0 DEF textVars, IInv, TypeOK, SeenCommitted
  <2>3. StaleHasCause'
    <3> SUFFICES ASSUME NEW q \in Review, Covered(q) PROVE Covered(q)'
      BY <1>0 DEF textVars, StaleHasCause
    <3> QED BY <1>0, <2>0, CoveredStays DEF textVars, IInv, TypeOK
  <2> QED BY <1>1, <1>2, <2>1, <2>2, <2>3
<1>5. CASE \E w \in Worker, j \in Job : Claim(w, j)
  <2> PICK w \in Worker, j \in Job : Claim(w, j)
    BY <1>5
  <2>0. /\ status' = [status EXCEPT ![j] = "running"] /\ status[j] = "pending"
        /\ held' = [held EXCEPT ![w] = j] /\ held[w] = NoJob
        /\ phase' = [phase EXCEPT ![w] = "claimed"]
    BY DEF Claim, IInv, HeldIsRunning
  <2>1. FoldIsOpen' /\ NoOrphanRow'
    BY <1>0, <2>0 DEF textVars, FoldIsOpen, NoOrphanRow, IndexTypeOK, IInv, TypeOK
  <2>2. SeenCommitted'
    BY <1>0, <2>0 DEF textVars, IInv, TypeOK, HeldIsRunning, SeenCommitted
  <2>3. StaleHasCause'
    <3> SUFFICES ASSUME NEW q \in Review, Covered(q) PROVE Covered(q)'
      BY <1>0 DEF textVars, StaleHasCause
    <3>1. CASE key[j] = q
      BY <1>0, <2>0, <3>1 DEF IInv, TypeOK, Covered
    <3>2. CASE key[j] # q
      BY <1>0, <2>0, <3>2, CoveredStays DEF textVars, IInv, TypeOK
    <3> QED BY <3>1, <3>2
  <2> QED BY <1>1, <1>2, <2>1, <2>2, <2>3
<1> QED
  <2>1. CASE \E w \in Worker : Boot(w) \/ Stop(w) \/ (Kill(w) /\ held[w] = NoJob)
    BY <1>3, <2>1 DEF Boot, Stop, Kill, rowVars, IInv, TypeOK, HeldIsRunning
  <2>2. CASE UNCHANGED allVars \/ \E j \in Job : FallDue(j)
    BY <1>3, <2>2 DEF allVars, vars, FallDue, workerVars
  <2> QED BY <1>4, <1>5, <2>1, <2>2, OtherCases

LEMMA StepIndexIInv == IndexIInv /\ [IndexNext]_allVars => IndexIInv'
BY StageKeeps, CommitQueuedKeeps, CommitFoldedKeeps, AbortKeeps, DeleteKeeps, ReadKeeps,
   DoneKeeps, RetryKeeps, GiveUpKeeps, OtherKeeps
DEF IndexNext

LEMMA IndexInvariantHolds == IndexSpec => []IndexIInv
BY InitIndexIInv, StepIndexIInv, PTL DEF IndexSpec

------------------------------------------------------------------------------
(* Every variable keeps its type, whichever writes of a review overlap; the *)
(* attempts of its jobs stay within the budget.                             *)
THEOREM IndexTypeCorrect == IndexSpec => []IndexTypeOK
BY IndexInvariantHolds, PTL DEF IndexIInv

(* Neither a write that was rolled back nor a deleted review leaves rows or *)
(* embeddings behind, whatever the loops are doing at the time.             *)
THEOREM NoOrphan == IndexSpec => []NoOrphanRow
BY IndexInvariantHolds, PTL DEF IndexIInv

(* An embedding that is not of the current text is being replaced, unless   *)
(* one of the listed failures or races happened since that text was         *)
(* committed.                                                               *)
THEOREM StaleCause == IndexSpec => []StaleHasCause
BY IndexInvariantHolds, PTL DEF IndexIInv

(* The queue inside the composition behaves as the queue on its own: hence  *)
(* every theorem about AsyncJobQueue holds of it.                           *)
THEOREM QueueInside == IndexSpec => Spec
<1>1. IndexInit => Init
  BY DEF IndexInit
<1>2. IndexSpec => []IndexTypeOK
  BY IndexTypeCorrect
<1> QED BY <1>1, <1>2, IndexStepIsQueueStep, PTL DEF IndexSpec, Spec

==============================================================================
