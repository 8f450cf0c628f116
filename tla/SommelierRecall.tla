---------------------------- MODULE SommelierRecall ----------------------------
(***************************************************************************)
(* "Did you try it?": a dish that the sommelier recommended to a diner is   *)
(* brought up again a day later, once (sommelier_recall_service.py,         *)
(* chat/tools/recommend.py, async_job_worker.py, chat.py, alembic 063, 064).*)
(*                                                                          *)
(* The rows of one diner.  Attempts and backoff are those of AsyncJobQueue; *)
(* here a run that fails is queued again, parked, or left as it is.         *)
(***************************************************************************)
EXTENDS Naturals, FiniteSets, Functions

CONSTANTS
  Dish,      \* dishes the sommelier knows
  Recall,    \* ids of async_job rows
  Runner,    \* worker loops
  Tip,       \* turns of the diner that run at the same time
  NoDish     \* a row, turn or loop that has none

ASSUME RecallAssumption == NoDish \notin Dish

(* As many rows as there ever are.                                          *)
ASSUME RecallFinite == IsFiniteSet(Recall)

VARIABLES
  served,      \* dishes that are not deleted
  reviewed,    \* dishes the diner has reviewed
  dismissed,   \* rows of sommelier_recall_dismissals
  silenced,    \* the diner blocks or mutes the bot
  recall,      \* rows of async_job
  notified,        \* how many notifications there are of every dish
  tip,         \* the dishes a turn has queued and not yet committed
  runner,      \* where a loop is
  overlapped   \* history: dishes that two loops were on at the same time

recallVars == <<served, reviewed, dismissed, silenced, recall, notified, tip, runner, overlapped>>

NoRecall == [status |-> "none", dish |-> NoDish, due |-> FALSE, recent |-> FALSE]
Resting == [pc |-> "rest", job |-> NoDish, dish |-> NoDish, changed |-> FALSE]

RecallTypeOK ==
  /\ served \subseteq Dish /\ reviewed \subseteq served /\ dismissed \subseteq served
  /\ silenced \in BOOLEAN /\ overlapped \subseteq Dish
  /\ recall \in [Recall -> [status : {"none", "pending", "running", "done", "failed"},
                            dish : Dish \cup {NoDish}, due : BOOLEAN, recent : BOOLEAN]]
  /\ notified \in [Dish -> 0..Cardinality(Recall)]
  /\ tip \in [Tip -> SUBSET Dish]
  /\ runner \in [Runner -> [pc : {"rest", "review", "notice", "guard", "dish", "insert", "done"},
                            job : Recall \cup {NoDish}, dish : Dish \cup {NoDish},
                            changed : BOOLEAN]]

RecallInit ==
  /\ served = Dish /\ reviewed = {} /\ dismissed = {} /\ silenced = FALSE
  /\ recall = [j \in Recall |-> NoRecall]
  /\ notified = [d \in Dish |-> 0]
  /\ tip = [t \in Tip |-> {}]
  /\ runner = [w \in Runner |-> Resting]
  /\ overlapped = {}

------------------------------------------------------------------------------
PendingRecall(d) == {j \in Recall : recall[j].status = "pending" /\ recall[j].dish = d}
Queued(d) == {t \in Tip : d \in tip[t]}
RunnerAt(w, pc) == runner[w].pc = pc

(* What a run has read of dish d may have changed.                          *)
Changed(d) == [w \in Runner |-> IF runner[w].dish = d THEN [runner[w] EXCEPT !.changed = TRUE]
                                ELSE runner[w]]

(* recommend_dishes, one dish after the other: it is there and the diner    *)
(* has not reviewed it; on a row that is pending the insert does nothing,   *)
(* and it waits for one of another turn that is not committed.              *)
Recommend(t, d) ==
  /\ d \in served \ reviewed /\ PendingRecall(d) = {} /\ Queued(d) = {}
  /\ tip' = [tip EXCEPT ![t] = @ \cup {d}]
  /\ UNCHANGED <<served, reviewed, dismissed, silenced, recall, notified, runner, overlapped>>

(* The turn commits, each dish in a row of its own, or is cut off.          *)
CommitTip(t, row) ==
  /\ tip[t] # {} /\ IsInjective(row)
  /\ \A d \in tip[t] : recall[row[d]] = NoRecall /\ \A w \in Runner : runner[w].job # row[d]
  /\ recall' = [j \in Recall |->
                  IF \E d \in tip[t] : row[d] = j
                  THEN [status |-> "pending", dish |-> CHOOSE d \in tip[t] : row[d] = j,
                        due |-> FALSE, recent |-> TRUE]
                  ELSE recall[j]]
  /\ tip' = [tip EXCEPT ![t] = {}]
  /\ UNCHANGED <<served, reviewed, dismissed, silenced, notified, runner, overlapped>>

CutTip(t) ==
  /\ tip[t] # {}
  /\ tip' = [tip EXCEPT ![t] = {}]
  /\ UNCHANGED <<served, reviewed, dismissed, silenced, recall, notified, runner, overlapped>>

(* A day passes, or the fortnight the preview looks back.                   *)
RecallFallsDue(j) ==
  /\ recall[j].status = "pending" /\ ~recall[j].due
  /\ recall' = [recall EXCEPT ![j].due = TRUE]
  /\ UNCHANGED <<served, reviewed, dismissed, silenced, notified, tip, runner, overlapped>>

RecallAges(j) ==
  /\ recall[j].recent /\ recall[j].due
  /\ recall' = [recall EXCEPT ![j].recent = FALSE]
  /\ UNCHANGED <<served, reviewed, dismissed, silenced, notified, tip, runner, overlapped>>

------------------------------------------------------------------------------
(* What others do.  The X of a card needs no row of the queue, and is for   *)
(* good.                                                                    *)
DismissRecall(d) ==
  /\ d \in served \ dismissed
  /\ dismissed' = dismissed \cup {d}
  /\ UNCHANGED <<served, reviewed, silenced, recall, notified, tip, runner, overlapped>>

ReviewDish(d, now) ==
  /\ d \in served /\ now = (d \notin reviewed)
  /\ reviewed' = IF now THEN reviewed \cup {d} ELSE reviewed \ {d}
  /\ runner' = Changed(d)
  /\ UNCHANGED <<served, dismissed, silenced, recall, notified, tip, overlapped>>

SilenceBot ==
  /\ silenced' = ~silenced
  /\ runner' = [w \in Runner |-> IF RunnerAt(w, "rest") THEN runner[w]
                                 ELSE [runner[w] EXCEPT !.changed = TRUE]]
  /\ UNCHANGED <<served, reviewed, dismissed, recall, notified, tip, overlapped>>

(* A dish goes with everything that has a key to it; it waits for a turn    *)
(* that has queued one.                                                     *)
DeleteDish(d) ==
  /\ d \in served /\ Queued(d) = {}
  /\ served' = served \ {d} /\ reviewed' = reviewed \ {d} /\ dismissed' = dismissed \ {d}
  /\ recall' = [j \in Recall |-> IF recall[j].dish = d THEN NoRecall ELSE recall[j]]
  /\ notified' = [notified EXCEPT ![d] = 0]
  /\ UNCHANGED <<silenced, tip, runner, overlapped>>

------------------------------------------------------------------------------
(* The worker.  _claim_one.                                                 *)
TakeRecall(w, j) ==
  LET d == recall[j].dish IN
  /\ RunnerAt(w, "rest") /\ recall[j].status = "pending" /\ recall[j].due
  /\ recall' = [recall EXCEPT ![j].status = "running"]
  /\ runner' = [runner EXCEPT ![w] = [pc |-> "review", job |-> j, dish |-> d, changed |-> FALSE]]
  /\ overlapped' = IF \E u \in Runner : runner[u].dish = d THEN overlapped \cup {d}
                   ELSE overlapped
  /\ UNCHANGED <<served, reviewed, dismissed, silenced, notified, tip>>

RunnerGoes(w, from, stop, on) ==
  /\ RunnerAt(w, from)
  /\ runner' = [runner EXCEPT ![w].pc = IF stop THEN "done" ELSE on]
  /\ UNCHANGED <<served, reviewed, dismissed, silenced, recall, notified, tip, overlapped>>

(* process_sommelier_review_recall, one query after the other.              *)
LookForReview(w) == RunnerGoes(w, "review", runner[w].dish \in reviewed, "notice")

(* Mutant of AlreadyTold: it looks for a notification of the row, not of    *)
(* the dish.                                                                *)
AlreadyToldByRow(w) == recall[runner[w].job].status = "done"

(* _recall_notification_already_exists.                                     *)
AlreadyTold(w) == notified[runner[w].dish] > 0

LookForNotice(w) == RunnerGoes(w, "notice", AlreadyTold(w), "guard")

MayTell(w) == RunnerGoes(w, "guard", silenced, "dish")

ReadDish(w) == RunnerGoes(w, "dish", runner[w].dish \notin served, "insert")

(* _mark_done commits the notification with the row.  When both are gone    *)
(* with their dish the loop logs an exception and goes on.                  *)
FinishRecall(w) ==
  LET q == runner[w] IN
  /\ q.pc \in {"insert", "done"}
  /\ IF q.dish \in served
     THEN /\ notified' = [notified EXCEPT ![q.dish] = IF q.pc = "insert" THEN @ + 1 ELSE @]
          /\ recall' = [recall EXCEPT ![q.job].status = "done"]
     ELSE UNCHANGED <<notified, recall>>
  /\ runner' = [runner EXCEPT ![w] = Resting]
  /\ UNCHANGED <<served, reviewed, dismissed, silenced, tip, overlapped>>

(* A query raises: after a rollback the row is queued again, unless the     *)
(* index has another one by now, or parked; or that fails too, or the       *)
(* process dies, and the row stays as it is.                                *)
FailRecall(w, s) ==
  LET q == runner[w] IN
  /\ q.pc # "rest"
  /\ s # "running" => q.dish \in served
  /\ s = "pending" => PendingRecall(q.dish) = {} /\ Queued(q.dish) = {}
  /\ recall' = IF q.dish \in served
               THEN [recall EXCEPT ![q.job].status = s, ![q.job].due = s # "pending"]
               ELSE recall
  /\ runner' = [runner EXCEPT ![w] = Resting]
  /\ UNCHANGED <<served, reviewed, dismissed, silenced, notified, tip, overlapped>>

RecallNext ==
  \/ \E t \in Tip :
       \/ \E d \in Dish : Recommend(t, d)
       \/ \E row \in [tip[t] -> Recall] : CommitTip(t, row)
       \/ CutTip(t)
  \/ \E j \in Recall : RecallFallsDue(j) \/ RecallAges(j)
  \/ \E d \in Dish : DismissRecall(d) \/ DeleteDish(d) \/ \E now \in BOOLEAN : ReviewDish(d, now)
  \/ SilenceBot
  \/ \E w \in Runner :
       \/ \E j \in Recall : TakeRecall(w, j)
       \/ LookForReview(w) \/ LookForNotice(w) \/ MayTell(w) \/ ReadDish(w)
       \/ FinishRecall(w)
       \/ \E s \in {"pending", "failed", "running"} : FailRecall(w, s)

RecallSpec == RecallInit /\ [][RecallNext]_recallVars

------------------------------------------------------------------------------
(* get_pending_recalls: a card for every dish recommended lately, whatever  *)
(* became of its row, but for those reviewed or dismissed (the three latest *)
(* of them).                                                                *)
Cards == {recall[j].dish : j \in {i \in Recall : recall[i].recent}} \ (reviewed \cup dismissed)

(* A diner is told of a dish once, however often it is recommended, retried *)
(* or lost by a worker that died: a second notification needs two runs at   *)
(* the same time (sommelier_recall_service.py:400).  A run tells nobody who *)
(* had reviewed the dish or silenced the bot before it began.  One row is   *)
(* pending at most, and a card shows no dish that went.                     *)
RecalledOnce ==
  [][/\ \A d \in Dish :
          /\ notified'[d] > 1 => d \in overlapped
          /\ notified'[d] > notified[d] =>
               \E w \in Runner :
                 /\ runner[w].dish = d /\ runner'[w] = Resting
                 /\ (d \in reviewed \/ silenced) => runner[w].changed
          /\ Cardinality(PendingRecall(d))' <= 1
     /\ Cards' \subseteq served'
    ]_recallVars

=============================================================================
