--------------------------------- MODULE Marks ---------------------------------
(***************************************************************************)
(* What people put on one target and take off again: likes of a review or   *)
(* of a comment, saved reviews, dishes to try (app/routers/likes.py,        *)
(* comment_likes.py, bookmarks.py, want_to_try.py, app/services/chat/tools/ *)
(* wishlist.py, alembic 011, 030).                                          *)
(*                                                                          *)
(* A mark is a row with the key (user, target) and a foreign key to the     *)
(* target.  A request looks for the target, looks for the row, and writes;  *)
(* in between others write.  It is one READ COMMITTED transaction.          *)
(***************************************************************************)
EXTENDS Naturals

CONSTANTS
  Fan,      \* users
  Owner,    \* the one who wrote the target
  Press     \* requests in flight at the same time

ASSUME MarksAssumption == Owner \in Fan

VARIABLES
  kind,     \* what these marks are
  target,   \* the review, comment or dish
  mark,     \* whose rows there are
  press     \* the requests

marksVars == <<kind, target, mark, press>>

Kind == {"like", "comment_like", "save", "wish"}

(* A request: who asks, the row it inserts or deletes, whether it tells the *)
(* owner, what it answers, and, histories, whether another one committed    *)
(* since it began and whether it began on a target in place.                *)
Loose == [op |-> "none", pc |-> "loose", who |-> Owner, writes |-> FALSE,
          tells |-> FALSE, crossed |-> FALSE]

PressRecord ==
  [op : {"none", "set", "tool", "unset", "erase", "remove"},
   pc : {"loose", "row", "insert", "tell", "delete", "target", "commit"},
   who : Fan, writes : BOOLEAN, tells : BOOLEAN, crossed : BOOLEAN]

MarksTypeOK ==
  /\ kind \in Kind
  /\ target \in {"live", "removed", "gone"}
  /\ mark \subseteq Fan
  /\ press \in [Press -> PressRecord]

MarksInit ==
  /\ kind \in Kind
  /\ target = "live"
  /\ mark = {}
  /\ press = [h \in Press |-> Loose]

------------------------------------------------------------------------------
PressIs(h, q) == press' = [press EXCEPT ![h] = q] /\ UNCHANGED <<kind, target, mark>>
PressAt(h, pc) == press[h].pc = pc
OtherPress(h) == {g \in Press \ {h} : PressAt(g, "commit") \/ PressAt(g, "tell")}

(* Whoever has written the row makes a second write of it wait; a row that  *)
(* was inserted locks the target against its deletion, the deletion makes   *)
(* inserts wait, and two writes of the target wait for each other.          *)
RowBusy(h) == \E g \in OtherPress(h) : press[g].writes /\ press[g].who = press[h].who
                                         /\ press[g].op \in {"set", "tool", "unset"}
TargetBusy(h) ==
  \E g \in OtherPress(h) :
    CASE press[h].op = "erase" -> press[g].writes \/ press[g].op \in {"erase", "remove"}
      [] press[h].op = "remove" -> press[g].op \in {"erase", "remove"}
      [] OTHER -> press[g].op = "erase"

Ask(h, op, pc, p) ==
  /\ PressAt(h, "loose")
  /\ PressIs(h, [Loose EXCEPT !.op = op, !.pc = pc, !.who = p])

(* The endpoints.  A target that is not there answers 404.                  *)
LikeReview(h, p) == kind = "like" /\ target = "live" /\ Ask(h, "set", "row", p)
UnlikeReview(h, p) == kind = "like" /\ target = "live" /\ Ask(h, "unset", "row", p)
LikeComment(h, p) == kind = "comment_like" /\ target = "live" /\ Ask(h, "set", "row", p)
UnlikeComment(h, p) == kind = "comment_like" /\ target = "live" /\ Ask(h, "unset", "row", p)
SaveReview(h, p) == kind = "save" /\ target = "live" /\ Ask(h, "set", "row", p)
UnsaveReview(h, p) == kind = "save" /\ target = "live" /\ Ask(h, "unset", "row", p)
AddWantToTry(h, p) == kind = "wish" /\ target = "live" /\ Ask(h, "set", "row", p)
RemoveWantToTry(h, p) == kind = "wish" /\ target = "live" /\ Ask(h, "unset", "row", p)

(* The tool of the chat inserts ON CONFLICT DO NOTHING, and commits with    *)
(* its turn.                                                                *)
AddToWishlist(h, p) == kind = "wish" /\ target = "live" /\ Ask(h, "tool", "insert", p)

(* The target is deleted with whatever it belongs to, or, a comment, is     *)
(* removed: its row stays, and its likes.                                   *)
EraseTarget(h) == target # "gone" /\ Ask(h, "erase", "target", Owner)
RemoveTarget(h) == kind = "comment_like" /\ target = "live" /\ Ask(h, "remove", "target", Owner)

------------------------------------------------------------------------------
(* Likes are told to the owner, saves and wishes to nobody.                 *)
Told(q) == kind \in {"like", "comment_like"} /\ q.who # Owner

(* Mutant of LookForRow: the owner is told before the row is looked for.    *)
LookForRowTelling(h) ==
  LET q == press[h] IN
  /\ PressAt(h, "row")
  /\ PressIs(h, IF q.op = "set"
                THEN IF q.who \in mark THEN [q EXCEPT !.pc = "commit", !.tells = Told(q)]
                     ELSE [q EXCEPT !.pc = "insert"]
                ELSE [q EXCEPT !.pc = IF q.who \in mark THEN "delete" ELSE "commit"])

(* The row is there already, or is not there any more: nothing to do.       *)
LookForRow(h) ==
  LET q == press[h] IN
  /\ PressAt(h, "row")
  /\ PressIs(h, IF q.op = "set"
                THEN [q EXCEPT !.pc = IF q.who \in mark THEN "commit" ELSE "insert"]
                ELSE [q EXCEPT !.pc = IF q.who \in mark THEN "delete" ELSE "commit"])

(* The insert.  It fails on a row that is there by now, or without target.  *)
(* The queries of a notification flush it, and the failure is raised; else  *)
(* it is caught, and after a rollback the answer is the same.               *)
InsertRow(h) ==
  LET q == press[h] IN
  /\ PressAt(h, "insert")
  /\ ~RowBusy(h) /\ ~TargetBusy(h)
  /\ PressIs(h,
       IF q.who \notin mark /\ target # "gone"
       THEN [q EXCEPT !.pc = IF Told(q) THEN "tell" ELSE "commit", !.writes = TRUE]
       ELSE IF (IF q.op = "tool" THEN target = "gone" ELSE Told(q)) THEN Loose
       ELSE [q EXCEPT !.pc = "commit"])

(* The notification, unless one of the two blocks or mutes the other.       *)
TellOwner(h, delivered) ==
  /\ PressAt(h, "tell")
  /\ PressIs(h, [press[h] EXCEPT !.pc = "commit", !.tells = delivered])

(* The delete of the row that was read: it may be gone.                     *)
DeleteRow(h) ==
  /\ PressAt(h, "delete")
  /\ ~RowBusy(h) /\ ~TargetBusy(h)
  /\ PressIs(h, [press[h] EXCEPT !.pc = "commit", !.writes = press[h].who \in mark])

(* The delete or update of the target.                                      *)
WriteTarget(h) ==
  /\ PressAt(h, "target")
  /\ ~TargetBusy(h)
  /\ PressIs(h, IF target = "gone" THEN Loose ELSE [press[h] EXCEPT !.pc = "commit"])

------------------------------------------------------------------------------
CommitMark(h) ==
  LET q == press[h] IN
  /\ PressAt(h, "commit")
  /\ target' = CASE q.op = "erase" -> "gone" [] q.op = "remove" -> "removed" [] OTHER -> target
  /\ mark' = CASE q.op = "erase" -> {}
               [] q.op \in {"set", "tool"} /\ q.writes -> mark \cup {q.who}
               [] q.op = "unset" /\ q.writes -> mark \ {q.who}
               [] OTHER -> mark
  /\ press' = [g \in Press |-> IF g = h THEN Loose
                               ELSE [press[g] EXCEPT !.crossed = ~PressAt(g, "loose")]]
  /\ UNCHANGED kind

AbortMark(h) == ~PressAt(h, "loose") /\ PressIs(h, Loose)

MarksNext ==
  \E h \in Press :
    \/ \E p \in Fan :
         \/ LikeReview(h, p) \/ UnlikeReview(h, p)
         \/ LikeComment(h, p) \/ UnlikeComment(h, p)
         \/ SaveReview(h, p) \/ UnsaveReview(h, p)
         \/ AddWantToTry(h, p) \/ RemoveWantToTry(h, p) \/ AddToWishlist(h, p)
    \/ EraseTarget(h) \/ RemoveTarget(h)
    \/ LookForRow(h) \/ InsertRow(h) \/ DeleteRow(h) \/ WriteTarget(h)
    \/ \E delivered \in BOOLEAN : TellOwner(h, delivered)
    \/ CommitMark(h) \/ AbortMark(h)

MarksSpec == MarksInit /\ [][MarksNext]_marksVars

------------------------------------------------------------------------------
(* The request of h commits in this step.                                   *)
Presses(h) == PressAt(h, "commit") /\ PressAt(h, "loose")'

(* A mark never outlives its target, a target that went stays gone, and a   *)
(* comment that was removed gets a new mark only from a request that the    *)
(* removal crossed.  The owner is told of a mark only with the row it is    *)
(* about, whatever double clicks do.  What a request answers (liked, saved) *)
(* is so when it commits: of one that writes a row always; of one that      *)
(* found nothing to do, or whose insert failed on a row of another, unless  *)
(* another request committed in between (likes.py:67, bookmarks.py:57).     *)
MarksHold ==
  [][/\ target' = "gone" => mark' = {}
     /\ target = "gone" => target' = "gone"
     /\ \A h \in Press : Presses(h) /\ press'[h] # press[h] =>
          LET q == press[h]
              AsAnswered == q.who \in mark' <=> q.op # "unset" IN
          /\ q.tells /\ mark' # mark => q.who \in mark' \ mark /\ q.who # Owner
          /\ q.tells => q.writes
          /\ mark' \ mark # {} /\ target = "removed" => q.crossed
          /\ mark' # mark /\ q.writes => AsAnswered
          /\ q.op \in {"set", "tool", "unset"} /\ ~q.writes => AsAnswered \/ q.crossed
    ]_marksVars

=============================================================================
