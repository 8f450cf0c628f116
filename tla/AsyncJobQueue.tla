---------------------------- MODULE AsyncJobQueue ----------------------------
(***************************************************************************)
(* The persistent write-behind queue: the rows of async_job, the            *)
(* transactions that insert them and the worker loop of every server        *)
(* process that drains them (app/services/async_job_worker.py).             *)
(*                                                                          *)
(* A row is identified by its uuid; what two rows have in common is their   *)
(* dedup key: (kind, payload_review_id) for embed_review and                *)
(* sentiment_review, (kind, payload_user_id, payload_dish_id) for           *)
(* sommelier_review_recall.  A partial unique index per payload shape       *)
(* allows one 'pending' row per key.                                        *)
(*                                                                          *)
(* scheduled_at is abstracted to the bit `due' (scheduled_at <= now): the   *)
(* claim may take any due row, of which the code's ORDER BY takes the       *)
(* oldest, so that every property below holds for either choice.            *)
(***************************************************************************)
EXTENDS Naturals

CONSTANTS
  Worker,       \* one worker loop per server process
  Job,          \* ids of async_job rows
  Key,          \* dedup keys: a kind with its payload columns
  MaxAttempts,  \* _MAX_ATTEMPTS
  NoJob,        \* a worker that holds no row
  NoKey         \* the key of an id that no row has

ASSUME QueueAssumption ==
  /\ MaxAttempts \in Nat \ {0}
  /\ NoJob \notin Job
  /\ NoKey \notin Key

VARIABLES
  status,    \* status of every row, "absent" when there is no such row
  key,       \* dedup key of every row
  attempts,  \* attempts column
  due,       \* scheduled_at <= now
  mode,      \* "up", "stopping" (stop_event set) or "down", per process
  phase,     \* where the loop of a process is inside _drain_one
  held       \* the row a loop has claimed and not yet let go

rowVars == <<status, key, attempts, due>>
workerVars == <<mode, phase, held>>
vars == <<status, key, attempts, due, mode, phase, held>>

Status == {"absent", "pending", "running", "done", "failed"}
Mode == {"up", "stopping", "down"}
Phase == {"idle", "claimed", "handling"}

TypeOK ==
  /\ status \in [Job -> Status]
  /\ key \in [Job -> Key \cup {NoKey}]
  /\ attempts \in [Job -> 0 .. MaxAttempts]
  /\ due \in [Job -> BOOLEAN]
  /\ mode \in [Worker -> Mode]
  /\ phase \in [Worker -> Phase]
  /\ held \in [Worker -> Job \cup {NoJob}]

Init ==
  /\ status = [j \in Job |-> "absent"]
  /\ key = [j \in Job |-> NoKey]
  /\ attempts = [j \in Job |-> 0]
  /\ due = [j \in Job |-> FALSE]
  /\ mode = [w \in Worker |-> "down"]
  /\ phase = [w \in Worker |-> "idle"]
  /\ held = [w \in Worker |-> NoJob]

------------------------------------------------------------------------------
(* The rows of key k in the partial unique indexes                          *)
(* ix_async_job_pending_dedup and ix_async_job_pending_recall_dedup.        *)
Indexed(k) == {i \in Job : status[i] = "pending" /\ key[i] = k}

(* Mutant of IndexAdmits: the index is not unique.                          *)
IndexAdmitsAlways(j, k) == TRUE

(* The index lets row j be pending with key k.                              *)
IndexAdmits(j, k) == Indexed(k) \subseteq {j}

(* An id that no row has and no loop still remembers: gen_random_uuid()     *)
(* never returns an id twice, so a slot is used again only then.            *)
Fresh(j) ==
  /\ status[j] = "absent"
  /\ \A w \in Worker : held[w] # j

(* The insert of a caller's transaction, when it commits.  On a conflict    *)
(* the statement does nothing, which is a step that changes nothing here.   *)
(* Review jobs are due at once, recalls after their delay.                  *)
Enqueue(j, k, now) ==
  /\ Fresh(j)
  /\ IndexAdmits(j, k)
  /\ status' = [status EXCEPT ![j] = "pending"]
  /\ key' = [key EXCEPT ![j] = k]
  /\ attempts' = [attempts EXCEPT ![j] = 0]
  /\ due' = [due EXCEPT ![j] = now]
  /\ UNCHANGED workerVars

(* Mutant of FallDue: the backoff of a retried row never ends.              *)
FallDueFirstOnly(j) ==
  /\ status[j] = "pending"
  /\ ~due[j]
  /\ attempts[j] = 0
  /\ due' = [due EXCEPT ![j] = TRUE]
  /\ UNCHANGED <<status, key, attempts, workerVars>>

(* Time passes scheduled_at of a pending row.                               *)
FallDue(j) ==
  /\ status[j] = "pending"
  /\ ~due[j]
  /\ due' = [due EXCEPT ![j] = TRUE]
  /\ UNCHANGED <<status, key, attempts, workerVars>>

(* The review, the user or the dish of key k is deleted: the foreign keys   *)
(* of the payload columns cascade, whatever the status of the row.          *)
Cascade(k) ==
  LET gone == {j \in Job : status[j] # "absent" /\ key[j] = k} IN
  /\ gone # {}
  /\ status' = [j \in Job |-> IF j \in gone THEN "absent" ELSE status[j]]
  /\ key' = [j \in Job |-> IF j \in gone THEN NoKey ELSE key[j]]
  /\ attempts' = [j \in Job |-> IF j \in gone THEN 0 ELSE attempts[j]]
  /\ due' = [j \in Job |-> IF j \in gone THEN FALSE ELSE due[j]]
  /\ UNCHANGED workerVars

------------------------------------------------------------------------------
(* The loop of worker w lets its row go and goes back to polling; a loop    *)
(* whose stop_event is set leaves instead.                                  *)
LetGo(w) ==
  /\ phase' = [phase EXCEPT ![w] = "idle"]
  /\ held' = [held EXCEPT ![w] = NoJob]
  /\ mode' = [mode EXCEPT ![w] = IF @ = "stopping" THEN "down" ELSE @]

(* Mutant of Claim: the subquery does not ask for status = 'pending'.       *)
ClaimAnyStatus(w, j) ==
  /\ mode[w] = "up" /\ phase[w] = "idle"
  /\ status[j] \in {"pending", "running"} /\ due[j]
  /\ attempts[j] < MaxAttempts
  /\ status' = [status EXCEPT ![j] = "running"]
  /\ attempts' = [attempts EXCEPT ![j] = @ + 1]
  /\ phase' = [phase EXCEPT ![w] = "claimed"]
  /\ held' = [held EXCEPT ![w] = j]
  /\ UNCHANGED <<key, due, mode>>

(* _claim_one: UPDATE ... FOR UPDATE SKIP LOCKED ... RETURNING, committed.  *)
(* An empty poll is a step that changes nothing.                            *)
Claim(w, j) ==
  /\ mode[w] = "up" /\ phase[w] = "idle"
  /\ status[j] = "pending" /\ due[j]
  /\ status' = [status EXCEPT ![j] = "running"]
  /\ attempts' = [attempts EXCEPT ![j] = @ + 1]
  /\ phase' = [phase EXCEPT ![w] = "claimed"]
  /\ held' = [held EXCEPT ![w] = j]
  /\ UNCHANGED <<key, due, mode>>

(* _claim_one re-reads the claimed row, and _run_job starts on it.          *)
Fetch(w) ==
  /\ phase[w] = "claimed"
  /\ status[held[w]] # "absent"
  /\ phase' = [phase EXCEPT ![w] = "handling"]
  /\ UNCHANGED <<rowVars, mode, held>>

(* The re-read finds the row deleted and returns None.                      *)
FetchNone(w) ==
  /\ phase[w] = "claimed"
  /\ status[held[w]] = "absent"
  /\ LetGo(w)
  /\ UNCHANGED rowVars

(* The re-read raises: "async_job claim failed; backing off".  The claim    *)
(* is already committed.                                                    *)
FetchRaises(w) ==
  /\ phase[w] = "claimed"
  /\ LetGo(w)
  /\ UNCHANGED rowVars

(* The handler returned and _mark_done commits what it staged together      *)
(* with the new status.                                                     *)
MarkDone(w) ==
  /\ phase[w] = "handling"
  /\ status[held[w]] # "absent"
  /\ status' = [status EXCEPT ![held[w]] = "done"]
  /\ LetGo(w)
  /\ UNCHANGED <<key, attempts, due>>

(* _mark_done finds the row deleted (its UPDATE matches no row and raises)  *)
(* or its commit fails; nothing the handler staged is kept, and the loop    *)
(* logs "iteration crashed" and goes on.                                    *)
MarkDoneRaises(w) ==
  /\ phase[w] = "handling"
  /\ LetGo(w)
  /\ UNCHANGED rowVars

(* Mutant of Requeue: the budget is not looked at.                          *)
RequeueForever(w) ==
  LET j == held[w] IN
  /\ phase[w] = "handling"
  /\ status[j] # "absent"
  /\ IndexAdmits(j, key[j])
  /\ status' = [status EXCEPT ![j] = "pending"]
  /\ due' = [due EXCEPT ![j] = FALSE]
  /\ LetGo(w)
  /\ UNCHANGED <<key, attempts>>

(* Mutant of Requeue: the row starts over with a full budget.               *)
RequeueAfresh(w) ==
  LET j == held[w] IN
  /\ phase[w] = "handling"
  /\ status[j] # "absent"
  /\ IndexAdmits(j, key[j])
  /\ status' = [status EXCEPT ![j] = "pending"]
  /\ attempts' = [attempts EXCEPT ![j] = 0]
  /\ due' = [due EXCEPT ![j] = FALSE]
  /\ LetGo(w)
  /\ UNCHANGED key

(* The handler raised and attempts are left: _mark_retry_or_fail puts the   *)
(* row back with a backoff.  The unique index has to admit it.              *)
Requeue(w) ==
  LET j == held[w] IN
  /\ phase[w] = "handling"
  /\ status[j] # "absent"
  /\ attempts[j] < MaxAttempts
  /\ IndexAdmits(j, key[j])
  /\ status' = [status EXCEPT ![j] = "pending"]
  /\ due' = [due EXCEPT ![j] = FALSE]
  /\ LetGo(w)
  /\ UNCHANGED <<key, attempts>>

(* Mutant of Park: one attempt too early.                                   *)
ParkEarly(w) ==
  LET j == held[w] IN
  /\ phase[w] = "handling"
  /\ status[j] # "absent"
  /\ attempts[j] >= MaxAttempts - 1
  /\ status' = [status EXCEPT ![j] = "failed"]
  /\ LetGo(w)
  /\ UNCHANGED <<key, attempts, due>>

(* The handler raised on the last attempt: the row is parked.               *)
Park(w) ==
  LET j == held[w] IN
  /\ phase[w] = "handling"
  /\ status[j] # "absent"
  /\ attempts[j] >= MaxAttempts
  /\ status' = [status EXCEPT ![j] = "failed"]
  /\ LetGo(w)
  /\ UNCHANGED <<key, attempts, due>>

(* The handler raised and the UPDATE back to pending violates the unique    *)
(* index, since a later write queued the same key while this row ran:       *)
(* "async_job retry-bookkeeping failed", and the row stays as it is.        *)
RequeueConflict(w) ==
  LET j == held[w] IN
  /\ phase[w] = "handling"
  /\ status[j] # "absent"
  /\ attempts[j] < MaxAttempts
  /\ ~IndexAdmits(j, key[j])
  /\ LetGo(w)
  /\ UNCHANGED rowVars

(* The handler raised and the row is gone: there is nothing to record.      *)
FailNone(w) ==
  /\ phase[w] = "handling"
  /\ status[held[w]] = "absent"
  /\ LetGo(w)
  /\ UNCHANGED rowVars

(* The handler raised and so does the bookkeeping, for a reason of its own: *)
(* the read of job.id on an instance the rollback has expired, the refetch, *)
(* or the commit.  Caught and logged; the row stays as it is.               *)
BookkeepingRaises(w) ==
  /\ phase[w] = "handling"
  /\ LetGo(w)
  /\ UNCHANGED rowVars

------------------------------------------------------------------------------
(* Mutant of Boot: the process first puts every running row back, also the  *)
(* ones another process is handling.                                        *)
BootSweeping(w) ==
  /\ mode[w] = "down"
  /\ mode' = [mode EXCEPT ![w] = "up"]
  /\ status' = [j \in Job |->
                  IF status[j] = "running" /\ attempts[j] < MaxAttempts
                     THEN "pending" ELSE status[j]]
  /\ UNCHANGED <<key, attempts, due, phase, held>>

(* The process starts its loop.                                             *)
Boot(w) ==
  /\ mode[w] = "down"
  /\ mode' = [mode EXCEPT ![w] = "up"]
  /\ UNCHANGED <<rowVars, phase, held>>

(* Graceful shutdown sets stop_event: an idle loop leaves, a busy one       *)
(* finishes the row it has.                                                 *)
Stop(w) ==
  /\ mode[w] = "up"
  /\ mode' = [mode EXCEPT ![w] = IF phase[w] = "idle" THEN "down" ELSE "stopping"]
  /\ UNCHANGED <<rowVars, phase, held>>

(* The process is killed, or the loop is cancelled five seconds after       *)
(* stop_event: the CancelledError is no Exception, so nothing is recorded   *)
(* and the open transaction is rolled back.                                 *)
Kill(w) ==
  /\ mode[w] # "down"
  /\ mode' = [mode EXCEPT ![w] = "down"]
  /\ phase' = [phase EXCEPT ![w] = "idle"]
  /\ held' = [held EXCEPT ![w] = NoJob]
  /\ UNCHANGED rowVars

------------------------------------------------------------------------------
HandlerRaises(w) ==
  Requeue(w) \/ Park(w) \/ RequeueConflict(w) \/ FailNone(w)

(* The database answers every call of the loop and the process survives.    *)
CalmStep(w) ==
  \/ \E j \in Job : Claim(w, j)
  \/ Fetch(w)
  \/ FetchNone(w)
  \/ MarkDone(w)
  \/ MarkDoneRaises(w) /\ status[held[w]] = "absent"
  \/ HandlerRaises(w)
  \/ Boot(w)
  \/ Stop(w)

(* A call of the loop fails, or the process does.                           *)
Accident(w) ==
  \/ FetchRaises(w)
  \/ MarkDoneRaises(w)
  \/ BookkeepingRaises(w)
  \/ Kill(w)

Environment ==
  \/ \E j \in Job, k \in Key, now \in BOOLEAN : Enqueue(j, k, now)
  \/ \E j \in Job : FallDue(j)
  \/ \E k \in Key : Cascade(k)

CalmNext == Environment \/ \E w \in Worker : CalmStep(w)
Next == CalmNext \/ \E w \in Worker : Accident(w)

Spec == Init /\ [][Next]_vars

------------------------------------------------------------------------------
(* Fairness.  Time passes; the platform restarts a process that is down;    *)
(* a row that is due again and again is served (ORDER BY scheduled_at: only *)
(* finitely many rows are older), although a process may be killed before   *)
(* its first poll, hence strong fairness of the claim of a row.  That a     *)
(* loop ever comes to the end of the row it holds is not assumed: the       *)
(* clients of the providers are made without a timeout, and the worker has  *)
(* none of its own.                                                         *)
Served ==
  /\ \A j \in Job : WF_vars(FallDue(j))
  /\ \A j \in Job : SF_vars(\E w \in Worker : Claim(w, j))
  /\ \A w \in Worker : WF_vars(Boot(w))

FairSpec == Spec /\ Served

(* What a loop does with the row it holds comes to an end.                  *)
Progress(w) ==
  \/ Fetch(w) \/ FetchNone(w) \/ FetchRaises(w)
  \/ MarkDone(w) \/ MarkDoneRaises(w)
  \/ HandlerRaises(w) \/ BookkeepingRaises(w)

(* The kindest of environments: every handler comes to an end, and the only *)
(* thing that goes wrong is that processes are killed and started again.    *)
RestartSpec ==
  /\ Init /\ [][CalmNext \/ \E w \in Worker : Kill(w)]_vars
  /\ Served
  /\ \A w \in Worker : WF_vars(Progress(w))

------------------------------------------------------------------------------
(* At most one pending row per key, although rows become pending in two     *)
(* ways: inserted by a request and put back by a worker.                    *)
OnePendingPerKey ==
  \A i, j \in Job :
    status[i] = "pending" /\ status[j] = "pending" /\ key[i] = key[j] => i = j

(* A row is in the hands of at most one loop: "two workers never grab the   *)
(* same row".                                                               *)
ExclusiveClaim ==
  \A v, w \in Worker : held[v] = held[w] /\ held[v] # NoJob => v = w

(* The row a loop holds is running, unless it was deleted under it; hence   *)
(* what a loop writes at the end never lands on a row that another outcome  *)
(* has settled.                                                             *)
HeldIsRunning ==
  \A w \in Worker :
    /\ held[w] = NoJob <=> phase[w] = "idle"
    /\ held[w] # NoJob => status[held[w]] \in {"running", "absent"}

(* The attempts column is the budget: a pending row can still be run, a     *)
(* running row has been charged for, and only a spent row is parked.        *)
AttemptBudget ==
  \A j \in Job :
    /\ status[j] = "pending" => attempts[j] < MaxAttempts
    /\ status[j] = "running" => attempts[j] >= 1
    /\ status[j] = "failed" => attempts[j] = MaxAttempts

(* A settled row is never run again: done and failed are left only by the   *)
(* deletion of the row, and an attempt is never given back.                 *)
SettledForGood ==
  [][\A j \in Job :
       /\ status[j] \in {"done", "failed"} => status'[j] \in {status[j], "absent"}
       /\ status'[j] # "absent" /\ status[j] # "absent" => attempts'[j] >= attempts[j]]_vars

(* A queued row is picked up or deleted, whatever fails: kills, restarts,   *)
(* failing handlers and failing bookkeeping of other rows.  It waits for    *)
(* ever only if in the end no loop is ever idle again, that is, if every    *)
(* loop is for ever in the middle of one row, in a call that never ends.    *)
PendingIsPickedUp ==
  \A j \in Job :
    <>[](status[j] = "pending") => <>[](\A w \in Worker : phase[w] # "idle")

(* The queue implements the ledger: pending rows are requests, held rows    *)
(* are executions.  No step of the rows, the schedules or the loops makes   *)
(* an execution that nobody requested, or two out of one request.           *)
Ledger == INSTANCE WorkLedger WITH
  requested <- {key[j] : j \in {i \in Job : status[i] = "pending"}},
  executing <- [w \in Worker |-> IF held[w] = NoJob THEN NoKey ELSE key[held[w]]]

ImplementsLedger == Ledger!Spec

(* "a restart resumes work instead of dropping it" (async_job_worker.py:8), *)
(* "the retry logic mean a hard kill is recoverable" (main.py): a row that  *)
(* was being run leaves the status running.  It does not: nothing but the   *)
(* loop that claimed a row ever looks at it again.                          *)
RunningIsResumed ==
  \A j \in Job : status[j] = "running" ~> status[j] # "running"

==============================================================================
