------------------------------- MODULE Comments -------------------------------
(***************************************************************************)
(* Comments on a review and their replies, the limit on repeated bodies,    *)
(* and who is told (app/routers/comments.py, app/services/                  *)
(* notification_service.py, mention_service.py, alembic 011, 030).          *)
(*                                                                          *)
(* One review, while the ten minutes of the limit last.  A request reads    *)
(* what is committed, statement by statement, and get_db commits what it    *)
(* has written.                                                             *)
(***************************************************************************)
EXTENDS Naturals, FiniteSets

CONSTANTS
  Member,     \* users
  Author,     \* the one who wrote the review
  Note,       \* ids of comments
  Top,        \* no parent
  Hand,       \* requests in flight at the same time
  Threshold   \* _DUPLICATE_THRESHOLD (2)

ASSUME CommentsAssumption ==
  /\ Author \in Member /\ Top \notin Note
  /\ Threshold \in Nat \ {0}

VARIABLES
  review,   \* the review is there
  note,     \* the rows of comments
  hand,     \* the request of every caller
  slipped   \* history: comments of requests that were passed by another

commentVars == <<review, note, hand, slipped>>

(* same: the one body that is posted again and again.                       *)
Body == {"same", "other"}
Telling == {"comment", "comment_reply", "mention"}

Blank == [state |-> "absent", by |-> Author, parent |-> Top, body |-> "other"]
NoteRow == [state : {"absent", "live", "removed"}, by : Member,
            parent : Note \cup {Top}, body : Body]

(* A request: the row it writes, whom it tells, and, a history, whether     *)
(* another one committed since it began.                                    *)
Still == [op |-> "none", pc |-> "still", id |-> Top, row |-> Blank,
          tells |-> {}, passed |-> FALSE]

HandRecord ==
  [op : {"none", "comment", "reply", "edit", "remove", "erase"},
   pc : {"still", "count", "write", "commit"}, id : Note \cup {Top}, row : NoteRow,
   tells : SUBSET (Member \X Telling), passed : BOOLEAN]

CommentsTypeOK ==
  /\ review \in BOOLEAN
  /\ note \in [Note -> NoteRow]
  /\ hand \in [Hand -> HandRecord]
  /\ slipped \subseteq Note

CommentsInit ==
  /\ review = TRUE
  /\ note = [n \in Note |-> Blank]
  /\ hand = [h \in Hand |-> Still]
  /\ slipped = {}

------------------------------------------------------------------------------
HandIs(h, q) == hand' = [hand EXCEPT ![h] = q] /\ UNCHANGED <<review, note, slipped>>
HandAt(h, pc) == hand[h].pc = pc
OtherHands(h) == Hand \ {h}

(* Ids are random: one that nobody has drawn stands for all of them.        *)
NewNote ==
  LET free == {n \in Note : note[n].state = "absent" /\ \A h \in Hand : hand[h].id # n} IN
  {n \in free : n = CHOOSE m \in free : TRUE}

NoteBy(p, parent, body) == [state |-> "live", by |-> p, parent |-> parent, body |-> body]
HandGoes(h, op, pc, n, new) ==
  /\ HandAt(h, "still")
  /\ HandIs(h, [Still EXCEPT !.op = op, !.pc = pc, !.id = n, !.row = new])

(* create_comment: the review is there.                                     *)
CreateComment(h, p, body) ==
  review /\ \E n \in NewNote : HandGoes(h, "comment", "count", n, NoteBy(p, Top, body))

(* create_reply: to a comment that is not removed, and is not a reply.      *)
CreateReply(h, p, body, parent) ==
  /\ review /\ note[parent].state = "live" /\ note[parent].parent = Top
  /\ \E n \in NewNote : HandGoes(h, "reply", "count", n, NoteBy(p, parent, body))

(* update_comment, by the one who wrote it; nothing is to do if the body is *)
(* the same.                                                                *)
UpdateComment(h, n, body) ==
  /\ note[n].state = "live" /\ note[n].body # body
  /\ HandGoes(h, "edit", "count", n, [note[n] EXCEPT !.body = body])

(* delete_comment, by the one who wrote it or an admin.                     *)
DeleteComment(h, n) ==
  /\ note[n].state = "live"
  /\ HandGoes(h, "remove", "write", n, [note[n] EXCEPT !.state = "removed"])

(* The review is deleted (reviews.py).                                      *)
EraseReview(h) == review /\ HandGoes(h, "erase", "write", Top, Blank)

------------------------------------------------------------------------------
Repeats(p) == {n \in Note : note[n].state # "absent" /\ note[n].by = p /\ note[n].body = "same"}

(* _anti_spam_check: removed comments count.                                *)
AntiSpamCheck(q) == q.row.body = "other" \/ Cardinality(Repeats(q.row.by)) < Threshold

CountRepeats(h) ==
  /\ HandAt(h, "count")
  /\ HandIs(h, IF AntiSpamCheck(hand[h]) THEN [hand[h] EXCEPT !.pc = "write"] ELSE Still)

(* record_comment_notification.                                             *)
TellsAuthor(p) == {<<r, "comment">> : r \in {Author} \ {p}}

(* record_comment_reply_notification.                                       *)
TellsParent(p, parent) ==
  {<<r, "comment_reply">> : r \in {note[n].by : n \in {parent} \ {Top}} \ {p}}

(* extract_handles and resolve_mention_recipients: the actor, and whoever   *)
(* is told anyway, is skipped.                                              *)
Mentioned(p, parent, mentioned) ==
  mentioned \ ({p, Author} \cup {note[n].by : n \in {parent} \ {Top}})

(* Who is told, but for those that block or mute the actor.                 *)
Tellings(p, parent, mentioned, closed) ==
  {t \in TellsAuthor(p) \cup TellsParent(p, parent)
           \cup (Mentioned(p, parent, mentioned) \X {"mention"}) : t[1] \notin closed}

(* A row that refers to the review locks it against deletion, a deletion    *)
(* makes it wait; an update waits for another one of the same row.          *)
HoldsUp(d, h) ==
  /\ hand[d].pc = "commit"
  /\ \/ hand[d].op = "erase" \/ hand[h].op = "erase"
     \/ hand[d].id = hand[h].id

(* The insert and what is told, or the update; on a deleted review or       *)
(* comment the insert fails.                                                *)
InsertNote(h, mentioned, closed) ==
  LET q == hand[h] IN
  /\ HandAt(h, "write") /\ q.op \in {"comment", "reply"}
  /\ \A d \in OtherHands(h) : ~HoldsUp(d, h)
  /\ HandIs(h, IF ~review THEN Still
               ELSE [q EXCEPT !.pc = "commit",
                              !.tells = Tellings(q.row.by, q.row.parent, mentioned, closed)])

(* Mutant of UpdateNote: it writes the whole row as it was read.                *)
UpdateNoteWhole(h) ==
  LET q == hand[h] IN
  /\ HandAt(h, "write") /\ q.op \in {"edit", "remove", "erase"}
  /\ \A d \in OtherHands(h) : ~HoldsUp(d, h)
  /\ HandIs(h, [q EXCEPT !.pc = "commit"])

(* One column is written: the others are what they are by now.              *)
UpdateNote(h) ==
  LET q == hand[h]
      now == IF q.id = Top THEN Blank ELSE note[q.id]
      new == CASE q.op = "edit" -> [now EXCEPT !.body = q.row.body]
               [] q.op = "remove" -> [now EXCEPT !.state = q.row.state]
               [] OTHER -> now IN
  /\ HandAt(h, "write") /\ q.op \in {"edit", "remove", "erase"}
  /\ \A d \in OtherHands(h) : ~HoldsUp(d, h)
  /\ HandIs(h, IF now.state = "absent" /\ q.op # "erase" THEN Still
               ELSE [q EXCEPT !.pc = "commit", !.row = new])

------------------------------------------------------------------------------
(* Everybody else has been passed.                                          *)
Finished(h) ==
  hand' = [d \in Hand |-> IF d = h THEN Still
                          ELSE [hand[d] EXCEPT !.passed = ~HandAt(d, "still")]]

CommitNote(h) ==
  LET q == hand[h] IN
  /\ HandAt(h, "commit") /\ q.op # "erase"
  /\ note' = [note EXCEPT ![q.id] = q.row]
  /\ slipped' = IF q.passed /\ q.op # "remove" THEN slipped \cup {q.id} ELSE slipped
  /\ Finished(h)
  /\ UNCHANGED review

(* The comments go with the review.                                         *)
CommitErased(h) ==
  /\ HandAt(h, "commit") /\ hand[h].op = "erase"
  /\ review' = FALSE
  /\ note' = [n \in Note |-> Blank]
  /\ slipped' = {}
  /\ Finished(h)

(* The connection drops, a statement fails, the process dies: a rollback.   *)
AbortNote(h) == ~HandAt(h, "still") /\ HandIs(h, Still)

CommentsNext ==
  \E h \in Hand :
    \/ \E p \in Member, body \in Body :
         \/ CreateComment(h, p, body)
         \/ \E parent \in Note : CreateReply(h, p, body, parent)
    \/ \E n \in Note :
         \/ \E body \in Body : UpdateComment(h, n, body)
         \/ DeleteComment(h, n)
    \/ EraseReview(h)
    \/ CountRepeats(h)
    \/ \E mentioned, closed \in SUBSET Member : InsertNote(h, mentioned, closed)
    \/ UpdateNote(h) \/ CommitNote(h) \/ CommitErased(h) \/ AbortNote(h)

CommentsSpec == CommentsInit /\ [][CommentsNext]_commentVars

------------------------------------------------------------------------------
(* Nobody has posted the same body more often than the limit allows, by     *)
(* comments, replies or edits, but for requests that another one passed     *)
(* (comments.py:63).                                                        *)
SpamIsBounded ==
  \A p \in Member : Cardinality(Repeats(p) \ slipped) <= Threshold

(* Nobody is told of what they did, and nobody is told twice of one         *)
(* comment, but for the author of the review about a reply to a comment of  *)
(* theirs (comments.py:309).                                                *)
ToldOnce ==
  \A h \in Hand : \A t, u \in hand[h].tells :
    /\ t[1] # hand[h].row.by
    /\ t[1] = u[1] /\ t # u =>
         t[1] = Author /\ {t[2], u[2]} = {"comment", "comment_reply"}

(* A comment that was removed stays removed, whatever was under way, and    *)
(* gets no reply from a request that began later (comments.py:262).         *)
RemovedForGood ==
  [][/\ review' => \A n \in Note : note[n].state = "removed" => note'[n].state = "removed"
     /\ \A h \in Hand : \A n \in Note :
          (hand[h].op = "reply" /\ ~hand[h].passed /\ note'[hand[h].id] # note[hand[h].id]
             /\ hand[h].row.parent = n) => note[n].state = "live"]_commentVars

(* All three.                                                               *)
CommentsHold == [](SpamIsBounded /\ ToldOnce) /\ RemovedForGood

=============================================================================
