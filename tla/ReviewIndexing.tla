---------------------------- MODULE ReviewIndexing ----------------------------
(***************************************************************************)
(* The review writes of app/routers/reviews.py and app/routers/posts.py on  *)
(* one side, the embed_review jobs on the other, and between them the       *)
(* queue of AsyncJobQueue, whose keys are here the reviews.                 *)
(*                                                                          *)
(* A review is known by the version of its text, and an embedding by the    *)
(* version it was computed from.  A write is a transaction of its own: the  *)
(* statements run first (Stage), what they wrote becomes visible at the     *)
(* commit of get_db, after the response was built.  The handler of a job    *)
(* reads the review, calls the provider, and commits with _mark_done.       *)
(* sentiment_review jobs have the same life, with the columns of the review *)
(* in the place of the embedding row.                                       *)
(***************************************************************************)
EXTENDS AsyncJobQueue

CONSTANTS
  Client,      \* requests that write reviews
  NoReview,    \* a request with no transaction open
  MaxVersion   \* bound of TLC's runs: no write begins on a later version

ASSUME IndexingAssumption ==
  /\ MaxVersion \in Nat \ {0}
  /\ NoReview \notin Key

Review == Key
Version == Nat

VARIABLES
  version,   \* committed version of each review, 0 when it does not exist
  indexed,   \* version its DishReviewEmbedding was computed from, 0 for none
  open,      \* the review each request is writing
  fold,      \* the pending row its enqueue ran into, NoJob if it inserted one
  seen,      \* the version the handler of each loop has read
  excused    \* history: the last chance to index the current version was lost

textVars == <<version, indexed, open, fold, seen, excused>>
allVars == <<vars, version, indexed, open, fold, seen, excused>>

IndexTypeOK ==
  /\ TypeOK
  /\ version \in [Review -> Version]
  /\ indexed \in [Review -> Version]
  /\ open \in [Client -> Review \cup {NoReview}]
  /\ fold \in [Client -> Job \cup {NoJob}]
  /\ seen \in [Worker -> Version]
  /\ excused \in [Review -> BOOLEAN]

IndexInit ==
  /\ Init
  /\ version = [r \in Review |-> 0]
  /\ indexed = [r \in Review |-> 0]
  /\ open = [c \in Client |-> NoReview]
  /\ fold = [c \in Client |-> NoJob]
  /\ seen = [w \in Worker |-> 0]
  /\ excused = [r \in Review |-> FALSE]

------------------------------------------------------------------------------
(* The requests.                                                            *)

(* An insert of this key that is not committed yet holds the index entry:   *)
(* whoever would make another row of it pending waits for that request.     *)
NotBeingQueued(r) ==
  \A c \in Client : ~(open[c] = r /\ fold[c] = NoJob)

(* create_review, update_review and create_post up to the commit: what the  *)
(* text is made of is written, and schedule_reembed_review inserts a        *)
(* pending row, or does nothing when it finds one.  Two writes of a review  *)
(* may be open at once: an edit of its pros, cons, tags or images does not  *)
(* UPDATE dish_reviews, and so waits for no other edit.  What they wait for *)
(* is the insert of the other; and nobody knows a review that is still      *)
(* being created, whose insert that is too.                                 *)
Stage(c, r) ==
  /\ open[c] = NoReview
  /\ NotBeingQueued(r)
  /\ version[r] < MaxVersion
  /\ open' = [open EXCEPT ![c] = r]
  /\ \/ Indexed(r) = {} /\ fold' = [fold EXCEPT ![c] = NoJob]
     \/ \E j \in Indexed(r) : fold' = [fold EXCEPT ![c] = j]
  /\ UNCHANGED <<vars, version, indexed, seen, excused>>

(* Mutant of CommitQueued: dedup against every unfinished row, also one     *)
(* whose handler has read the text already.                                 *)
CommitQueuedUnlessRunning(c, j) ==
  LET r == open[c]
      Unfinished == {i \in Job : status[i] = "running" /\ key[i] = r} IN
  /\ r # NoReview /\ fold[c] = NoJob
  /\ \/ Unfinished = {} /\ Enqueue(j, r, TRUE)
     \/ Unfinished # {} /\ UNCHANGED vars
  /\ version' = [version EXCEPT ![r] = @ + 1]
  /\ excused' = [excused EXCEPT ![r] = FALSE]
  /\ open' = [open EXCEPT ![c] = NoReview]
  /\ UNCHANGED <<indexed, fold, seen>>

(* The commit of a write that inserted its row: review and row together.    *)
CommitQueued(c, j) ==
  LET r == open[c] IN
  /\ r # NoReview /\ fold[c] = NoJob
  /\ Enqueue(j, r, TRUE)
  /\ version' = [version EXCEPT ![r] = @ + 1]
  /\ excused' = [excused EXCEPT ![r] = FALSE]
  /\ open' = [open EXCEPT ![c] = NoReview]
  /\ UNCHANGED <<indexed, fold, seen>>

(* The commit of a write that relies on the pending row it ran into, which  *)
(* ON CONFLICT DO NOTHING did not lock: if a loop took that row since then, *)
(* it may have read the text before this commit.                            *)
CommitFolded(c) ==
  LET r == open[c] IN
  /\ r # NoReview /\ fold[c] # NoJob
  /\ version' = [version EXCEPT ![r] = @ + 1]
  /\ excused' = [excused EXCEPT ![r] = @ \/ status[fold[c]] # "pending"]
  /\ open' = [open EXCEPT ![c] = NoReview]
  /\ fold' = [fold EXCEPT ![c] = NoJob]
  /\ UNCHANGED <<vars, indexed, seen>>

(* The request raises after the enqueue: get_db rolls everything back.      *)
Abort(c) ==
  /\ open[c] # NoReview
  /\ open' = [open EXCEPT ![c] = NoReview]
  /\ fold' = [fold EXCEPT ![c] = NoJob]
  /\ UNCHANGED <<vars, version, indexed, seen, excused>>

(* Mutant of Delete: a foreign key that does not cascade.                   *)
DeleteKeepingRows(r) ==
  /\ version[r] > 0
  /\ \A c \in Client : open[c] # r
  /\ version' = [version EXCEPT ![r] = 0]
  /\ indexed' = [indexed EXCEPT ![r] = 0]
  /\ excused' = [excused EXCEPT ![r] = FALSE]
  /\ UNCHANGED <<vars, open, fold, seen>>

(* delete_review: the rows of the queue and the embedding cascade.  It      *)
(* waits for every write of the text, which has inserted or deleted rows    *)
(* that refer to the review, or has updated it.                             *)
Delete(r) ==
  /\ version[r] > 0
  /\ \A c \in Client : open[c] # r
  /\ version' = [version EXCEPT ![r] = 0]
  /\ indexed' = [indexed EXCEPT ![r] = 0]
  /\ excused' = [excused EXCEPT ![r] = FALSE]
  /\ \/ Cascade(r)
     \/ /\ \A j \in Job : status[j] # "absent" => key[j] # r
        /\ UNCHANGED vars
  /\ UNCHANGED <<open, fold, seen>>

------------------------------------------------------------------------------
(* The loops.                                                               *)

ReviewOf(w) == key[held[w]]

(* A job that is over without having indexed the current version: nothing   *)
(* but a later write will.                                                  *)
Lose(w) == excused' = [r \in Review |-> excused[r] \/ r = ReviewOf(w)]

(* reembed_review reads the review when it starts.                          *)
Read(w) ==
  /\ Fetch(w)
  /\ seen' = [seen EXCEPT ![w] = version[ReviewOf(w)]]
  /\ UNCHANGED <<version, indexed, open, fold, excused>>

(* The provider answered: the upsert commits with _mark_done, over whatever *)
(* another loop wrote in the meantime.                                      *)
Index(w) ==
  LET r == ReviewOf(w) IN
  /\ MarkDone(w)
  /\ indexed' = [indexed EXCEPT ![r] = seen[w]]
  /\ excused' = [excused EXCEPT ![r] = @ \/ seen[w] < indexed[r]]
  /\ UNCHANGED <<version, open, fold, seen>>

(* The provider failed or the text is empty: the handler returns, and the   *)
(* job is done with no embedding written.                                   *)
Skip(w) ==
  /\ MarkDone(w)
  /\ Lose(w)
  /\ UNCHANGED <<version, indexed, open, fold, seen>>

Retry(w) ==
  /\ Requeue(w) \/ RequeueConflict(w)
  /\ NotBeingQueued(ReviewOf(w))
  /\ UNCHANGED textVars

GiveUp(w) ==
  /\ \/ Park(w)
     \/ FetchRaises(w)
     \/ MarkDoneRaises(w)
     \/ BookkeepingRaises(w)
     \/ Kill(w) /\ held[w] # NoJob
  /\ Lose(w)
  /\ UNCHANGED <<version, indexed, open, fold, seen>>

OtherLoopStep(w) ==
  /\ \/ \E j \in Job : Claim(w, j)
     \/ FetchNone(w) \/ FailNone(w)
     \/ Boot(w) \/ Stop(w)
     \/ Kill(w) /\ held[w] = NoJob
  /\ UNCHANGED textVars

IndexNext ==
  \/ \E c \in Client :
       \/ \E r \in Review : Stage(c, r)
       \/ \E j \in Job : CommitQueued(c, j)
       \/ CommitFolded(c)
       \/ Abort(c)
  \/ \E r \in Review : Delete(r)
  \/ \E j \in Job : FallDue(j) /\ UNCHANGED textVars
  \/ \E w \in Worker :
       Read(w) \/ Index(w) \/ Skip(w) \/ Retry(w) \/ GiveUp(w) \/ OtherLoopStep(w)

IndexSpec == IndexInit /\ [][IndexNext]_allVars

(* Nothing fails: every provider call answers and no process is killed.     *)
SmoothNext ==
  \/ \E c \in Client :
       \/ \E r \in Review : Stage(c, r)
       \/ \E j \in Job : CommitQueued(c, j)
       \/ CommitFolded(c)
  \/ \E w \in Worker :
       \/ Read(w) \/ Index(w)
       \/ (Boot(w) \/ \E j \in Job : Claim(w, j)) /\ UNCHANGED textVars

SmoothSpec == IndexInit /\ [][SmoothNext]_allVars

------------------------------------------------------------------------------
(* A row of the queue is about a review that is committed: neither a write  *)
(* that was rolled back nor a deleted review leaves work behind; and an     *)
(* embedding is never of a text that was not committed, or is gone.         *)
NoOrphanRow ==
  /\ \A j \in Job : status[j] # "absent" => version[key[j]] > 0
  /\ \A r \in Review : indexed[r] <= version[r]

(* Some job has read the current version of r, or will read it.             *)
Covered(r) ==
  \E j \in Job :
    /\ key[j] = r
    /\ \/ status[j] = "pending"
       \/ \E w \in Worker :
            held[w] = j /\ (phase[w] = "claimed" \/ seen[w] = version[r])

(* An embedding that is not of the current text is on its way to it, or one *)
(* of these happened after the text changed: the provider failed, the job   *)
(* was lost or parked, a write folded into a row that a loop took before    *)
(* its commit, or a slower job overwrote a newer result.  In particular     *)
(* dedup against pending rows alone never swallows a write made while an    *)
(* older job is running.                                                    *)
StaleHasCause ==
  \A r \in Review :
    version[r] > 0 /\ indexed[r] # version[r] => excused[r] \/ Covered(r)

(* "a quick second edit folds into the already-pending one" (alembic 053),  *)
(* "Recomputed on review create/update" (models/chat.py): when nothing      *)
(* fails, an embedding is of the current text or some job will make it so.  *)
NoEditIsDropped ==
  \A r \in Review :
    version[r] > 0 /\ indexed[r] # version[r] => Covered(r)

==============================================================================
