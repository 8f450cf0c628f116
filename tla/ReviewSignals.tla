---------------------------- MODULE ReviewSignals ----------------------------
(***************************************************************************)
(* What is derived from reviews beside their embeddings: the sentiment of a *)
(* review (app/services/sentiment_service.py, scripts/backfill_sentiment.   *)
(* py) and the embedding of a dish, whose text holds the notes of its       *)
(* reviews (app/services/embeddings_service.py, scripts/backfill_           *)
(* embeddings.py).                                                          *)
(*                                                                          *)
(* The queue is AsyncJobQueue's.  Here a pending row is an element of       *)
(* queued, and one kind of rows is looked at in a behaviour, since rows of  *)
(* different kinds do not meet.                                             *)
(***************************************************************************)
EXTENDS Integers, SequencesExt, Positions

CONSTANTS
  Opinion,   \* ids of reviews of one dish, by created_at
  Words,     \* notes that say something
  Blank,     \* a note that is empty once it is stripped
  Dubbing,   \* what else is in the text of the dish: name, description, story
  Label,     \* bound: labels that the model answers
  Score,     \* bound: its scores: below -0.15, above 0.15, between
  TheDish,   \* the dish, in missed
  Unset,    \* no review, no value in a column
  Loop     \* loops of the queue and runs of the script on dishes

ASSUME SignalsAssumption ==
  /\ Opinion \subseteq Nat /\ TheDish \notin Opinion
  /\ {Blank, Unset} \cap Words = {} /\ Blank # Unset
  /\ Label \subseteq {"positive", "neutral", "negative"} /\ Score \subseteq {"low", "middle", "high"}

VARIABLES
  rows,     \* the kind of the rows of this behaviour: sentiment or embed
  note,     \* the note of every review, Unset before its creation
  erased,   \* reviews that were deleted
  heard,    \* sentiment_label, sentiment_score; history: what they are of
  dubbed,   \* name, description and story of the dish
  vector,   \* the text that the embedding of the dish was computed from
  queued,   \* reviews with a pending row
  write,    \* the open transaction that writes a review
  run,      \* the loops
  script,   \* backfill_sentiment
  missed,   \* history: the last chance to follow a text was lost
  torn,     \* history: columns changed since they were loaded
  shifted   \* history: written by a batch that was resumed

signalVars == <<rows, note, erased, heard, dubbed, vector, queued, write, run, script,
                missed, torn, shifted>>
reviewRows == <<rows, note, erased, dubbed, queued, write>>
derived == <<heard, vector, missed, torn, shifted>>

Note == Words \cup {Blank}
Snapshot == Opinion \X Words
DishText == Dubbing \X [Opinion -> Words \cup {Unset}]

Unheard == [label |-> Unset, score |-> Unset, of |-> Unset]
NoWrite == [note |-> Unset, row |-> "none"]
IdleRun == [pc |-> "idle", review |-> Unset, note |-> Blank, was |-> Unheard, text |-> Unset]
NoScript == [pc |-> "none", list |-> <<>>, sent |-> <<>>, left |-> {}, at |-> 0,
             was |-> Unheard, again |-> FALSE, resumed |-> FALSE]

Columns == [label : {"positive", "neutral", "negative", Unset}, score : Score \cup {Unset}, of : Snapshot \cup {Unset}]

SignalsTypeOK ==
  /\ rows \in {"sentiment", "embed"} /\ erased \subseteq Opinion
  /\ note \in [Opinion -> Note \cup {Unset}] /\ heard \in [Opinion -> Columns]
  /\ dubbed \in Dubbing /\ vector \in DishText \cup {Unset} /\ queued \subseteq Opinion
  /\ write \in [Opinion -> [note : Note \cup {Unset}, row : {"none", "insert", "fold"}]]
  /\ run \in [Loop -> [pc : {"idle", "load", "ask", "dish", "hash", "embed"},
       review : Opinion \cup {Unset}, note : Note, was : Columns, text : DishText \cup {Unset}]]
  /\ script.pc \in {"none", "wait", "walk", "write"}
  /\ missed \subseteq Opinion \cup {TheDish}
  /\ torn \subseteq Opinion /\ shifted \subseteq Opinion

SignalsInit ==
  /\ rows \in {"sentiment", "embed"}
  /\ note = [o \in Opinion |-> Unset] /\ erased = {}
  /\ heard = [o \in Opinion |-> Unheard]
  /\ dubbed \in Dubbing /\ vector = Unset /\ queued = {}
  /\ write = [o \in Opinion |-> NoWrite]
  /\ run = [r \in Loop |-> IdleRun] /\ script = NoScript
  /\ missed = {TheDish} /\ torn = {} /\ shifted = {}

------------------------------------------------------------------------------
(* The text of the dish has the notes of its best three reviews: of all, as *)
(* there are no more.                                                       *)
AggregateText(notes) ==
  <<dubbed, [o \in Opinion |-> IF notes[o] \in Words THEN notes[o] ELSE Unset]>>

DishAggregateText == AggregateText(note)

(* What a run would read: its session holds the review of its job as it was *)
(* loaded, and loads the others with the dish.                              *)
SeenText(q) ==
  AggregateText(IF q.review = Unset THEN note ELSE [note EXCEPT ![q.review] = q.note])

Subject(o) == IF rows = "embed" THEN TheDish ELSE o
Miss(o) == missed' = missed \cup {Subject(o)}

(* Every write of a review queues its embedding; its sentiment is queued by *)
(* create_review, and by an edit that changes the note, not by create_post. *)
Queues(o, n, how) == rows = "embed" \/ how = "create" \/ (how = "edit" /\ n # note[o])

(* A write up to its commit: the row of the review is locked, and a row of  *)
(* the queue inserted unless a pending one is seen.                         *)
StageReview(o, n, how) ==
  /\ write[o] = NoWrite /\ o \notin erased
  /\ how = "edit" <=> note[o] # Unset
  /\ \A p \in Opinion : p < o => note[p] # Unset \/ p \in erased
  /\ write' = [write EXCEPT ![o] = [note |-> n, row |->
       IF ~Queues(o, n, how) THEN "none" ELSE IF o \in queued THEN "fold" ELSE "insert"]]
  /\ UNCHANGED <<rows, note, erased, dubbed, queued, run, script, derived>>

(* A row that was seen pending may be with a loop by now.                   *)
CommitReview(o) ==
  LET w == write[o] IN
  /\ w # NoWrite
  /\ note' = [note EXCEPT ![o] = w.note]
  /\ queued' = IF w.row = "insert" THEN queued \cup {o} ELSE queued
  /\ missed' = IF o \in queued' /\ w.row # "none" THEN missed \ {Subject(o)}
               ELSE IF w.row = "none" /\ w.note = note[o] THEN missed
               ELSE missed \cup {Subject(o)}
  /\ write' = [write EXCEPT ![o] = NoWrite]
  /\ UNCHANGED <<rows, erased, dubbed, run, script, heard, vector, torn, shifted>>

AbortReview(o) ==
  /\ write[o] # NoWrite
  /\ write' = [write EXCEPT ![o] = NoWrite]
  /\ UNCHANGED <<rows, note, erased, dubbed, queued, run, script, derived>>

(* The row of a review's embedding is locked from its upsert to the commit, *)
(* while the dish is embedded.                                              *)
HoldsEmbedding(o) ==
  \E r \in Loop : run[r].review = o /\ run[r].pc \in {"dish", "hash", "embed"}

(* The row of the review cascades; nothing is queued for its dish.          *)
DeleteOpinion(o) ==
  /\ note[o] # Unset /\ write[o] = NoWrite /\ ~HoldsEmbedding(o)
  /\ note' = [note EXCEPT ![o] = Unset] /\ erased' = erased \cup {o}
  /\ heard' = [heard EXCEPT ![o] = Unheard] /\ queued' = queued \ {o}
  /\ missed' = (missed \ {o}) \cup {TheDish}
  /\ torn' = torn \ {o} /\ shifted' = shifted \ {o}
  /\ UNCHANGED <<rows, dubbed, vector, write, run, script>>

(* A dish is renamed, described or given a story: nothing is queued.        *)
DubDish(d) ==
  /\ rows = "embed" /\ d # dubbed
  /\ dubbed' = d /\ missed' = missed \cup {TheDish}
  /\ UNCHANGED <<rows, note, erased, queued, write, run, script, heard, vector, torn, shifted>>

------------------------------------------------------------------------------
(* The loops.                                                               *)
RunAt(pc, o) == [IdleRun EXCEPT !.pc = pc, !.review = o]
RunIs(r, q) == run' = [run EXCEPT ![r] = q]
RunEnds(r) == RunIs(r, IdleRun)

TakeRow(r, o) ==
  /\ run[r].pc = "idle" /\ o \in queued
  /\ queued' = queued \ {o}
  /\ RunIs(r, RunAt("load", o))
  /\ UNCHANGED <<rows, note, erased, dubbed, write, script, derived>>

(* The review is loaded with its columns; one that is gone or says nothing  *)
(* is done, with whatever was derived from its last note.  Pros, cons and   *)
(* tags may give a review with an empty note an embedding all the same.     *)
LoadReview(r) ==
  LET o == run[r].review IN
  /\ run[r].pc = "load"
  /\ \/ /\ note[o] \in Words \/ (rows = "embed" /\ note[o] = Blank)
        /\ UNCHANGED missed
        /\ RunIs(r, [RunAt("ask", o) EXCEPT
                       !.note = note[o],
                       !.was = IF rows = "sentiment" THEN [heard[o] EXCEPT !.of = Unset] ELSE Unheard])
     \/ note[o] \notin Words /\ RunEnds(r) /\ Miss(o)
  /\ UNCHANGED <<reviewRows, script, heard, vector, torn, shifted>>

(* The provider answers nothing: the job is done.  It was killed, or its    *)
(* attempts are used up.                                                    *)
LoseRun(r) ==
  /\ run[r].pc # "idle"
  /\ RunEnds(r) /\ Miss(run[r].review)
  /\ UNCHANGED <<reviewRows, script, heard, vector, torn, shifted>>

(* The handler raises, and the row goes back unless another is pending; an  *)
(* insert that is not committed is waited for.                              *)
RetryRun(r) ==
  LET o == run[r].review IN
  /\ run[r].pc # "idle" /\ o # Unset /\ note[o] # Unset
  /\ write[o].row # "insert" /\ o \notin queued
  /\ queued' = queued \cup {o} /\ RunEnds(r)
  /\ UNCHANGED <<rows, note, erased, dubbed, write, script, derived>>

(* A label that the score contradicts gives way to it.                      *)
CoerceLabel(label, score) ==
  CASE label = "positive" /\ score = "low" -> "negative"
    [] label = "negative" /\ score = "high" -> "positive"
    [] OTHER -> label

Analyses == {[label |-> CoerceLabel(l, s), score |-> s] : l \in Label, s \in Score}

(* An UPDATE leaves out the columns that are as they were loaded, whatever  *)
(* they are by now; it waits for a write of the review.                     *)
PersistSentiment(o, was, now, of) ==
  LET Column(new, old, here) == IF new = old THEN here ELSE new
      Current == <<o, note[o]>> IN
  /\ write[o] = NoWrite /\ note[o] # Unset
  /\ heard' = [heard EXCEPT ![o] =
       [label |-> Column(now.label, was.label, heard[o].label),
        score |-> Column(now.score, was.score, heard[o].score), of |-> of]]
  /\ torn' = IF heard[o].label = was.label /\ heard[o].score = was.score
             THEN torn \ {o} ELSE torn \cup {o}
  /\ missed' = IF of = Current THEN missed \ {o}
               ELSE IF heard[o].of = Current THEN missed \cup {o} ELSE missed

(* analyze_and_persist_review is answered, and committed with _mark_done.   *)
AnalyzeReview(r) ==
  LET q == run[r] IN
  /\ rows = "sentiment" /\ q.pc = "ask"
  /\ \E now \in Analyses : PersistSentiment(q.review, q.was, now, <<q.review, q.note>>)
  /\ shifted' = shifted \ {q.review}
  /\ RunEnds(r) /\ UNCHANGED <<reviewRows, script, vector>>

(* reembed_review is answered, and writes the row of the review's embedding *)
(* (ReviewIndexing) in the transaction that goes on with the dish.          *)
EmbedReview(r) ==
  /\ rows = "embed" /\ run[r].pc = "ask"
  /\ note[run[r].review] # Unset /\ ~HoldsEmbedding(run[r].review)
  /\ RunIs(r, [RunAt("dish", run[r].review) EXCEPT !.note = run[r].note])
  /\ UNCHANGED <<reviewRows, script, derived>>

(* The script on dishes has no review in its transaction.                   *)
BeginDishScript(r) ==
  /\ rows = "embed" /\ run[r].pc = "idle"
  /\ RunIs(r, RunAt("dish", Unset))
  /\ UNCHANGED <<reviewRows, script, derived>>

ReadDishText(r) ==
  /\ run[r].pc = "dish"
  /\ RunIs(r, [RunAt("hash", run[r].review) EXCEPT !.text = SeenText(run[r])])
  /\ UNCHANGED <<reviewRows, script, derived>>

(* A row with the hash of this text is left as it is.                       *)
CompareHash(r) ==
  /\ run[r].pc = "hash"
  /\ \/ vector = run[r].text /\ RunEnds(r)
     \/ vector # run[r].text /\ RunIs(r, [RunAt("embed", run[r].review) EXCEPT !.text = run[r].text])
  /\ UNCHANGED <<reviewRows, script, derived>>

(* The upsert does not look at the hash again.                              *)
EmbedDish(r) ==
  LET text == run[r].text IN
  /\ run[r].pc = "embed"
  /\ vector' = text
  /\ missed' = IF text = DishAggregateText THEN missed \ {TheDish}
               ELSE IF vector = DishAggregateText THEN missed \cup {TheDish} ELSE missed
  /\ RunEnds(r) /\ UNCHANGED <<reviewRows, script, heard, torn, shifted>>

------------------------------------------------------------------------------
(* backfill_sentiment.                                                      *)

(* Reviews by created_at that say something and, unless all are analyzed    *)
(* again, have no sentiment, with their notes.                              *)
LoadTargets(again) ==
  Picked([o \in Opinion |-> <<o, note[o]>>],
         {o \in Opinion : note[o] \in Words /\ (again \/ heard[o].of = Unset)})

ScriptRests == UNCHANGED <<reviewRows, run, derived>>

(* One call per review, whose answers are of the snapshots.                 *)
RunSync(again) ==
  LET list == LoadTargets(again) IN
  /\ rows = "sentiment" /\ script.pc = "none" /\ list # <<>>
  /\ script' = [NoScript EXCEPT !.pc = "walk", !.list = list, !.sent = list, !.left = DOMAIN list]
  /\ ScriptRests

SubmitBatch(again) ==
  LET list == LoadTargets(again) IN
  /\ rows = "sentiment" /\ script.pc = "none" /\ list # <<>>
  /\ script' = [NoScript EXCEPT !.pc = "wait", !.list = list, !.sent = list, !.again = again]
  /\ ScriptRests

(* The script is killed, or waits no longer; the batch goes on.             *)
StopWaiting ==
  /\ script.pc # "none"
  /\ script' = IF script.pc = "wait"
               THEN [NoScript EXCEPT !.sent = script.sent, !.again = script.again] ELSE NoScript
  /\ ScriptRests

(* The operator passes the name of the batch and the flags it was made      *)
(* with: the snapshots are loaded again.                                    *)
ResumeBatch ==
  LET list == LoadTargets(script.again) IN
  /\ script.pc = "none" /\ script.sent # <<>> /\ list # <<>>
  /\ script' = [script EXCEPT !.pc = "wait", !.list = list, !.resumed = TRUE]
  /\ ScriptRests

(* mutant: positions are matched whatever their number                      *)
AnyNumber(answers) == Len(answers) > 0

SameNumber(answers) == Len(answers) = Len(script.list)

(* All answers, or some of them, in the order of the requests.              *)
Replies(sent) ==
  {sent} \cup {Picked(sent, kept) : kept \in {s \in SUBSET (DOMAIN sent) : s # DOMAIN sent}}

(* The batch ends, or fails; another number of answers than of snapshots is *)
(* refused.                                                                 *)
ConsumeBatch ==
  /\ script.pc = "wait"
  /\ \E answers \in Replies(script.sent) :
       script' = IF SameNumber(answers)
                 THEN [script EXCEPT !.pc = "walk", !.sent = answers,
                                     !.left = DOMAIN script.list \cap DOMAIN answers]
                 ELSE NoScript
  /\ ScriptRests

(* The next position: its entry is an error, its review is gone, or the     *)
(* review is loaded once more.  Calls of RunSync run at the same time, so   *)
(* that they end in any order.                                              *)
WalkOn(i) ==
  LET o == script.list[i][1] IN
  /\ script.pc = "walk" /\ i \in script.left
  /\ \/ script' = [script EXCEPT !.left = @ \ {i}]
     \/ /\ note[o] # Unset
        /\ script' = [script EXCEPT !.pc = "write", !.at = i, !.left = @ \ {i},
                                    !.was = [heard[o] EXCEPT !.of = Unset]]
  /\ ScriptRests

WalkEnds == script.pc = "walk" /\ script.left = {} /\ script' = NoScript /\ ScriptRests

(* The UPDATE and its commit; it raises, and is caught, if the row is gone. *)
PersistResult ==
  LET o == script.list[script.at][1] IN
  /\ script.pc = "write"
  /\ \/ /\ \E now \in Analyses : PersistSentiment(o, script.was, now, script.sent[script.at])
        /\ shifted' = IF script.resumed THEN shifted \cup {o} ELSE shifted \ {o}
     \/ note[o] = Unset /\ UNCHANGED <<heard, torn, missed, shifted>>
  /\ script' = [script EXCEPT !.pc = "walk", !.at = 0, !.was = Unheard]
  /\ UNCHANGED <<reviewRows, run, vector>>

------------------------------------------------------------------------------
WriteNext(O, N) ==
  \E o \in O :
    \/ \E n \in N, how \in {"create", "edit", "post"} : StageReview(o, n, how)
    \/ CommitReview(o) \/ AbortReview(o) \/ DeleteOpinion(o)

LoopNext ==
  \E r \in Loop :
    \/ \E o \in Opinion : TakeRow(r, o)
    \/ LoadReview(r) \/ LoseRun(r) \/ RetryRun(r) \/ AnalyzeReview(r)
    \/ EmbedReview(r) \/ BeginDishScript(r) \/ ReadDishText(r) \/ CompareHash(r) \/ EmbedDish(r)

SyncNext ==
  \/ \E again \in BOOLEAN : RunSync(again)
  \/ \E i \in DOMAIN script.list : WalkOn(i)
  \/ PersistResult \/ WalkEnds \/ StopWaiting

BatchNext ==
  \/ \E again \in BOOLEAN : SubmitBatch(again)
  \/ ResumeBatch \/ ConsumeBatch

SignalsNext == WriteNext(Opinion, Note) \/ LoopNext \/ SyncNext \/ BatchNext
  \/ \E d \in Dubbing : DubDish(d)

SignalsSpec == SignalsInit /\ [][SignalsNext]_signalVars

(***************************************************************************)
(* Properties                                                              *)
(***************************************************************************)
(* Some loop has read, or will read, what the sentiment of o, or the text   *)
(* of the dish, is now.                                                     *)
WillHear(o) ==
  \/ o \in queued
  \/ \E r \in Loop :
       run[r].review = o /\ (run[r].pc = "load" \/ (run[r].pc = "ask" /\ run[r].note = note[o]))

WillEmbed ==
  \/ queued # {}
  \/ \E r \in Loop :
       \/ run[r].pc = "load"
       \/ run[r].pc \in {"ask", "dish"} /\ SeenText(run[r]) = DishAggregateText
       \/ run[r].pc \in {"hash", "embed"} /\ run[r].text = DishAggregateText

(* A review never keeps the sentiment of another, unless a batch was        *)
(* resumed over the snapshots of another day; its label and score do not    *)
(* contradict each other unless two analyses of it overlapped; and what is  *)
(* derived from an older text is on its way to the current one, or its last *)
(* chance was lost: a post queues no sentiment and a dish no embedding, an  *)
(* edit relied on a row that a loop had taken, a provider failed, or a      *)
(* slower run came last, be it of the same review with its note of before.  *)
SignalsHold ==
  /\ \A o \in Opinion :
       /\ heard[o].of # Unset => heard[o].of[1] = o \/ o \in shifted
       /\ heard[o].of # Unset => heard[o].label = CoerceLabel(heard[o].label, heard[o].score)
                                  \/ o \in torn
       /\ rows = "sentiment" /\ note[o] \in Words /\ heard[o].of # <<o, note[o]>> =>
            o \in missed \/ WillHear(o)
  /\ rows = "embed" /\ vector # DishAggregateText => TheDish \in missed \/ WillEmbed
==============================================================================
