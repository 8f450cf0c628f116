------------------------------ MODULE SocialGraph ------------------------------
(***************************************************************************)
(* Follows, blocks and mutes between people, what they let through, and the *)
(* suggestions of whom to follow (app/routers/follows.py, safety.py,        *)
(* app/services/safety_service.py, notification_service.py, alembic 055).   *)
(*                                                                          *)
(* A request is one READ COMMITTED transaction that sees what others have   *)
(* committed and keeps what it writes to itself until get_db commits.       *)
(***************************************************************************)
EXTENDS Naturals

CONSTANTS
  Person,  \* ids of users
  Nobody,  \* no user
  Viewer,  \* bound: those of them who look at suggestions
  Caller   \* requests in flight at the same time

ASSUME SocialAssumption == Nobody \notin Person /\ Viewer \subseteq Person

Edge == {e \in Person \X Person : e[1] # e[2]}
Tie == {"follows", "blocks", "mutes"}

VARIABLES
  tie,    \* the rows of follows, user_blocks and user_mutes
  errand, \* the request of every caller
  rail    \* the pages of suggestions cached for a person: one or none

socialVars == <<tie, errand, rail>>

(* A request: what it does to which row, the rows it inserts and deletes,   *)
(* whether it tells the other person, the page it puts together; and, a     *)
(* history, whether a request about the same two people was over since it   *)
(* began.                                                                   *)
Rest == [pc |-> "rest", does |-> "none", in |-> "none", edge |-> <<Nobody, Nobody>>,
         adds |-> {}, drops |-> {}, tells |-> FALSE, page |-> {}, passed |-> FALSE]

Errand ==
  [pc : {"rest", "look", "sweep", "tell", "fill", "commit"},
   does : {"none", "add", "drop", "suggest"}, in : Tie \cup {"none"},
   edge : Edge \cup ((Person \cup {Nobody}) \X {Nobody}),
   adds : SUBSET (Tie \X Edge), drops : SUBSET (Tie \X Edge),
   tells : BOOLEAN, page : SUBSET Person, passed : BOOLEAN]

SocialTypeOK ==
  /\ tie \subseteq Tie \X Edge
  /\ errand \in [Caller -> Errand]
  /\ rail \in [Person -> SUBSET (SUBSET Person)]

SocialInit ==
  /\ tie = {}
  /\ errand = [c \in Caller |-> Rest]
  /\ rail = [p \in Person |-> {}]

------------------------------------------------------------------------------
Back(e) == <<e[2], e[1]>>

(* is_blocked_either_way and is_muted_by.                                   *)
BlockedEitherWay(e) == <<"blocks", e>> \in tie \/ <<"blocks", Back(e)>> \in tie
MutedBy(e) == <<"mutes", e>> \in tie

(* should_deliver_notification, of what e[1] did to e[2].                   *)
Delivers(e) == ~BlockedEitherWay(e) /\ ~MutedBy(Back(e))

(* _EXCLUDED_CTE.                                                           *)
Excluded(p) ==
  {p} \cup {q \in Person \ {p} :
              BlockedEitherWay(<<p, q>>) \/ MutedBy(<<p, q>>) \/ <<"follows", <<p, q>>>> \in tie}

ErrandIs(c, q) == errand' = [errand EXCEPT ![c] = q]
ErrandAt(c, pc) == errand[c].pc = pc
EdgeOf(c) == <<errand[c].in, errand[c].edge>>

(* An insert waits for the insert of the same row, a delete for the delete  *)
(* of a row that it finds.                                                  *)
Inserting(r, c) == \E d \in Caller \ {c} : r \in errand[d].adds
Deleting(rows, c) == \E d \in Caller \ {c} : errand[d].drops \cap rows # {}

(* Whether the request of c is about nobody but people that of d is about.  *)
Among(e) == {e[1], e[2]} \cap Person
Touch(c, d) ==
  /\ ~ErrandAt(d, "rest")
  /\ \/ Among(errand[c].edge) \subseteq Among(errand[d].edge)
     \/ Among(errand[d].edge) \subseteq Among(errand[c].edge)

(* The request of c is over, and the others have been passed by it.         *)
Finish(c) ==
  errand' = [d \in Caller |->
    IF d = c THEN Rest ELSE [errand[d] EXCEPT !.passed = @ \/ Touch(c, d)]]

------------------------------------------------------------------------------
(* The requests.  None is about oneself.                                    *)
BeginErrand(c, does, t, e) ==
  /\ ErrandAt(c, "rest")
  /\ ErrandIs(c, [Rest EXCEPT !.pc = "look", !.does = does, !.in = t, !.edge = e])
  /\ UNCHANGED <<tie, rail>>

(* follow_user: a block either way answers 404.                             *)
FollowUser(c, e) == ~BlockedEitherWay(e) /\ BeginErrand(c, "add", "follows", e)
UnfollowUser(c, e) == BeginErrand(c, "drop", "follows", e)
BlockUser(c, e) == BeginErrand(c, "add", "blocks", e)
UnblockUser(c, e) == BeginErrand(c, "drop", "blocks", e)
MuteUser(c, e) == BeginErrand(c, "add", "mutes", e)
UnmuteUser(c, e) == BeginErrand(c, "drop", "mutes", e)

(* follow and unfollow drop the suggestions of the viewer, before the       *)
(* commit; block and mute do not.                                           *)
Invalidated(c, t) ==
  IF t = "follows" THEN [rail EXCEPT ![errand[c].edge[1]] = {}] ELSE rail

(* The row is there: nothing to do.                                         *)
LookFound(c) ==
  /\ ErrandAt(c, "look") /\ errand[c].does = "add"
  /\ EdgeOf(c) \in tie
  /\ ErrandIs(c, [errand[c] EXCEPT !.pc = "commit"])
  /\ rail' = Invalidated(c, errand[c].in)
  /\ UNCHANGED tie

(* It is not: the insert goes out with the next statement.  The select and  *)
(* the insert are two statements: InsertLost is the insert of a row that    *)
(* came in between.                                                         *)
LookInsert(c) ==
  LET t == errand[c].in IN
  /\ ErrandAt(c, "look") /\ errand[c].does = "add"
  /\ EdgeOf(c) \notin tie /\ ~Inserting(EdgeOf(c), c)
  /\ ErrandIs(c, [errand[c] EXCEPT
       !.adds = {EdgeOf(c)},
       !.pc = CASE t = "follows" -> "tell" [] t = "blocks" -> "sweep" [] OTHER -> "commit"])
  /\ UNCHANGED <<tie, rail>>

(* A duplicate key: the autoflush of the next query raises, and get_db      *)
(* rolls back; a mute is flushed in a try, and rolls back itself.           *)
InsertLost(c) ==
  /\ ErrandAt(c, "look") /\ errand[c].does = "add"
  /\ EdgeOf(c) \in tie /\ errand[c].passed
  /\ ErrandIs(c, Rest)
  /\ UNCHANGED <<tie, rail>>

(* Mutant of Sweep: one direction only.                                     *)
SweepOneWay(c) ==
  LET gone == tie \cap {<<"follows", errand[c].edge>>} IN
  /\ ErrandAt(c, "sweep") /\ ~Deleting(gone, c)
  /\ ErrandIs(c, [errand[c] EXCEPT !.pc = "commit", !.drops = gone])
  /\ UNCHANGED <<tie, rail>>

(* block_user also deletes the follows between the two that it can see.     *)
Sweep(c) ==
  LET e == errand[c].edge
      gone == tie \cap ({"follows"} \X {e, Back(e)}) IN
  /\ ErrandAt(c, "sweep") /\ ~Deleting(gone, c)
  /\ ErrandIs(c, [errand[c] EXCEPT !.pc = "commit", !.drops = gone])
  /\ UNCHANGED <<tie, rail>>

(* record_follow_notification, and the cache.                               *)
Tell(c) ==
  /\ ErrandAt(c, "tell")
  /\ ErrandIs(c, [errand[c] EXCEPT !.pc = "commit", !.tells = Delivers(errand[c].edge)])
  /\ rail' = Invalidated(c, "follows")
  /\ UNCHANGED tie

(* The select and the delete of a row.                                      *)
LookDelete(c) ==
  LET gone == tie \cap {EdgeOf(c)} IN
  /\ ErrandAt(c, "look") /\ errand[c].does = "drop"
  /\ ~Deleting(gone, c)
  /\ ErrandIs(c, [errand[c] EXCEPT !.pc = "commit", !.drops = gone])
  /\ rail' = Invalidated(c, errand[c].in)
  /\ UNCHANGED tie

------------------------------------------------------------------------------
(* suggest_users_to_follow: no page is cached.  The people with a signal,   *)
(* some of those not excluded; then whoever else is not, excluded by a      *)
(* second look.                                                             *)
BeginSuggest(c, p, signal) ==
  /\ ErrandAt(c, "rest") /\ rail[p] = {}
  /\ signal \subseteq Person \ Excluded(p)
  /\ ErrandIs(c, [Rest EXCEPT !.pc = "fill", !.does = "suggest",
                              !.edge = <<p, Nobody>>, !.page = signal])
  /\ UNCHANGED <<tie, rail>>

FillSuggest(c) ==
  LET p == errand[c].edge[1] page == errand[c].page \cup (Person \ Excluded(p)) IN
  /\ ErrandAt(c, "fill")
  /\ rail' = [rail EXCEPT ![p] = {page}]
  /\ Finish(c)
  /\ UNCHANGED tie

(* The page is older than its time to live, or the cache was full.          *)
LapsePage(p) ==
  /\ rail[p] # {}
  /\ rail' = [rail EXCEPT ![p] = {}]
  /\ UNCHANGED <<tie, errand>>

------------------------------------------------------------------------------
CommitErrand(c) ==
  /\ ErrandAt(c, "commit")
  /\ tie' = (tie \cup errand[c].adds) \ errand[c].drops
  /\ Finish(c)
  /\ UNCHANGED rail

(* The connection drops, a statement fails, the process dies: a rollback.   *)
AbortErrand(c) ==
  /\ ~ErrandAt(c, "rest")
  /\ ErrandIs(c, Rest)
  /\ UNCHANGED <<tie, rail>>

SocialNext ==
  \/ \E c \in Caller :
       \/ \E e \in Edge :
            \/ FollowUser(c, e) \/ UnfollowUser(c, e)
            \/ BlockUser(c, e) \/ UnblockUser(c, e)
            \/ MuteUser(c, e) \/ UnmuteUser(c, e)
       \/ LookFound(c) \/ LookInsert(c) \/ InsertLost(c) \/ LookDelete(c)
       \/ Sweep(c) \/ Tell(c)
       \/ \E p \in Viewer : \E signal \in SUBSET Person : BeginSuggest(c, p, signal)
       \/ FillSuggest(c)
       \/ CommitErrand(c) \/ AbortErrand(c)
  \/ \E p \in Person : LapsePage(p)

SocialSpec == SocialInit /\ [][SocialNext]_socialVars

------------------------------------------------------------------------------
Settles(c) == ErrandAt(c, "commit") /\ ErrandAt(c, "rest")'
Unpassed(c) == Settles(c) /\ ~errand[c].passed

(* A block ends the follows between the two, and no follow begins while it  *)
(* lasts; and nobody hears of a follow from somebody they block, are        *)
(* blocked by or mute: unless the two requests passed each other            *)
(* (follows.py:127, safety.py:61, safety_service.py:65).                    *)
BlocksHold ==
  /\ [][\A c \in Caller : Unpassed(c) /\ tie' # tie =>
          \A e \in Edge :
            <<"follows", e>> \in tie' /\ BlockedEitherWay(e)' =>
              <<"follows", e>> \in tie /\ BlockedEitherWay(e)]_socialVars
  /\ [][\A c \in Caller : Unpassed(c) /\ errand[c].tells =>
          LET e == errand[c].edge IN
          ~BlockedEitherWay(e) /\ ~MutedBy(Back(e))]_socialVars

(* Whom the viewer has just followed is not suggested any more, unless a    *)
(* page was put together between the invalidation and the commit            *)
(* (follows.py:80).                                                         *)
FollowLeavesRail ==
  [][\A c \in Caller :
       Unpassed(c) /\ errand[c].does = "add" /\ errand[c].in = "follows" /\ tie' # tie =>
         \A page \in rail[errand[c].edge[1]] : errand[c].edge[2] \notin page
    ]_socialVars

(* Both: what two people see of each other after a follow, block or mute.   *)
GraphHolds == BlocksHold /\ FollowLeavesRail

=============================================================================
