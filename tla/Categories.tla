------------------------------ MODULE Categories ------------------------------
(***************************************************************************)
(* The categories of dishes and restaurants: the provider proposes them     *)
(* when a post brings a dish without one, and admins create, approve,       *)
(* reject and delete them (app/services/category_inference_service.py,      *)
(* admin_notification_service.py, app/routers/posts.py, categories.py,      *)
(* restaurants.py, alembic 047, 051, 065, 068).                             *)
(*                                                                          *)
(* It is about the categories that have one slug, at most one at a time,    *)
(* next to "otros".  Every restaurant has one dish.  A request is one READ  *)
(* COMMITTED transaction.                                                   *)
(***************************************************************************)
EXTENDS Naturals, FiniteSets

CONSTANTS
  Venue,     \* ids of restaurants
  Category,  \* ids of categories that are created
  Otros,     \* the category of the fallback, which nobody deletes
  NoCategory,
  Task       \* requests in flight at the same time

ASSUME CategoriesAssumption ==
  Otros # NoCategory /\ {Otros, NoCategory} \cap Category = {}

VARIABLES
  category,  \* state of every category
  ofVenue,   \* categories of the restaurants
  ofDish,    \* categories of their dishes
  task       \* the requests

categoryVars == <<category, ofVenue, ofDish, task>>

AnyCategory == Category \cup {Otros, NoCategory}
Given == {"no", "otros", "slug"}

(* A request: its restaurant, the category the form named, whether dish and *)
(* restaurant had none when they were read, whether the provider was shown  *)
(* the slug, the category it decides on, whether it inserts that one, the   *)
(* restaurants a rejection moves, the admins told of it; and, a history,    *)
(* whether another request has committed since it began.                    *)
NoTask == [op |-> "none", pc |-> "none", venue |-> NoCategory, given |-> "no",
           bare |-> {}, shown |-> FALSE, cat |-> NoCategory, coins |-> FALSE,
           moves |-> {}, tells |-> FALSE, crossed |-> FALSE]

TaskRecord ==
  [op : {"none", "post", "edit", "coin", "approve", "reject", "drop"},
   pc : {"none", "infer", "pick", "repoint", "write", "commit"},
   venue : Venue \cup {NoCategory}, given : Given, bare : SUBSET {"venue", "dish"},
   shown : BOOLEAN, cat : AnyCategory, coins : BOOLEAN, moves : SUBSET Venue,
   tells : BOOLEAN, crossed : BOOLEAN]

CategoriesTypeOK ==
  /\ category \in [Category -> {"absent", "pending", "approved", "dropped"}]
  /\ ofVenue \in [Venue -> AnyCategory] /\ ofDish \in [Venue -> AnyCategory]
  /\ task \in [Task -> TaskRecord]

CategoriesInit ==
  /\ category = [k \in Category |-> "absent"]
  /\ ofVenue \in [Venue -> {Otros, NoCategory}]
  /\ ofDish = [v \in Venue |-> NoCategory]
  /\ task = [c \in Task |-> NoTask]

------------------------------------------------------------------------------
TaskIs(c, q) == task' = [task EXCEPT ![c] = q] /\ UNCHANGED <<category, ofVenue, ofDish>>
TaskAt(c, pc) == task[c].pc = pc
StartTask(c, q) == TaskAt(c, "none") /\ TaskIs(c, q)
OtherTasks(c) == {task[e] : e \in Task \ {c}}

(* The category that has the slug: none, or one.                            *)
OfSlug == {k \in Category : category[k] \in {"pending", "approved"}}
OneOf(s) == IF s = {} THEN NoCategory ELSE CHOOSE k \in s : TRUE
Listed(k) == k = Otros \/ k \in OfSlug

(* Ids come from a sequence.                                                *)
NewCategory ==
  LET new == {k \in Category : category[k] = "absent" /\ \A e \in Task : task[e].cat # k} IN
  {k \in new : k = CHOOSE l \in new : TRUE}

(* _find_category_id, which also finds one that is pending.                 *)
FindCategory(given) ==
  CASE given = "otros" -> Otros
    [] given = "slug" -> OneOf(OfSlug)
    [] OTHER -> NoCategory

(* list_categories, and what infer_category shows the provider.             *)
Approved == {k \in OfSlug : category[k] = "approved"} \cup {Otros}

------------------------------------------------------------------------------
(* create_post, once it has its restaurant and its dish.                    *)
Bare(v) ==
  IF ofDish[v] # NoCategory THEN {}
  ELSE {"dish"} \cup {x \in {"venue"} : ofVenue[v] = NoCategory}

BeginPosting(c, v, given) ==
  StartTask(c, [NoTask EXCEPT !.op = "post", !.venue = v, !.given = given, !.bare = Bare(v),
                              !.pc = IF Bare(v) # {} THEN "infer" ELSE "write"])

(* The form named a category: the provider is not asked.                    *)
TakeGiven(c) ==
  LET q == task[c] IN
  /\ TaskAt(c, "infer") /\ q.given # "no"
  /\ TaskIs(c, [q EXCEPT !.pc = "write", !.cat = FindCategory(q.given)])

(* _load_approved_categories.                                               *)
InferCategory(c) ==
  /\ TaskAt(c, "infer") /\ task[c].given = "no"
  /\ TaskIs(c, [task[c] EXCEPT !.pc = "pick", !.shown = Approved # {Otros}])

Decide(c, k) ==
  TaskAt(c, "pick") /\ TaskIs(c, [task[c] EXCEPT !.pc = "write", !.cat = k])

(* _fallback_otros: no key, no answer, no JSON, no confidence, no pick.     *)
FallbackOtros(c) == Decide(c, Otros)

(* The provider picks the one it was shown, or proposes it as a new one.    *)
PickExisting(c) == task[c].shown /\ OfSlug # {} /\ Decide(c, OneOf(OfSlug))

WithNew(q, k) == [q EXCEPT !.pc = "write", !.cat = k, !.coins = TRUE, !.tells = TRUE]

(* It proposes one that it was not shown.  If the slug is taken, by one     *)
(* that is pending or has come since, the insert fails, and so does the     *)
(* post.  Else every admin is told.                                         *)
ProposeNew(c) ==
  LET q == task[c] IN
  /\ TaskAt(c, "pick")
  /\ q.shown => OfSlug = {}
  /\ \A e \in OtherTasks(c) : ~e.coins
  /\ IF OfSlug # {} THEN TaskIs(c, NoTask)
     ELSE \E k \in NewCategory : TaskIs(c, WithNew(q, k))

(* Whoever refers to a category waits for its deletion.                     *)
Dropping(c) ==
  \E e \in OtherTasks(c) :
    e.op \in {"reject", "drop"} /\ e.pc = "commit" /\ e.cat = task[c].cat

Written(e, v) == e.pc = "commit" /\ (e.venue = v \/ v \in e.moves)

(* The columns are flushed, the restaurant is written with its rating.      *)
WriteColumns(c) ==
  LET q == task[c] IN
  /\ TaskAt(c, "write") /\ q.op \in {"post", "edit"}
  /\ ~Dropping(c) /\ \A e \in OtherTasks(c) : ~Written(e, q.venue)
  /\ TaskIs(c, IF q.bare # {} /\ q.cat # NoCategory /\ ~q.coins /\ ~Listed(q.cat)
               THEN NoTask ELSE [q EXCEPT !.pc = "commit"])

(* update_restaurant with another category, which is there.                 *)
UpdateVenue(c, v, given) ==
  /\ FindCategory(given) # NoCategory
  /\ StartTask(c, [NoTask EXCEPT !.op = "edit", !.pc = "write", !.venue = v,
                                 !.bare = {"venue"}, !.cat = FindCategory(given)])

------------------------------------------------------------------------------
OnCategory(c, op, pc, k) ==
  StartTask(c, [NoTask EXCEPT !.op = op, !.pc = pc, !.cat = k])

(* create_category answers 409 if the slug is taken, and fails if it is     *)
(* taken in between.                                                        *)
CreateCategory(c) ==
  /\ OfSlug = {}
  /\ \E k \in NewCategory : OnCategory(c, "coin", "write", k)

InsertCategory(c) ==
  /\ TaskAt(c, "write") /\ task[c].op = "coin"
  /\ \A e \in OtherTasks(c) : ~e.coins
  /\ TaskIs(c, IF OfSlug # {} THEN NoTask
               ELSE [task[c] EXCEPT !.pc = "commit", !.coins = TRUE])

(* An approved one is left as it is.                                        *)
ApprovePendingCategory(c, k) == category[k] = "pending" /\ OnCategory(c, "approve", "write", k)

RejectPendingCategory(c, k) == category[k] = "pending" /\ OnCategory(c, "reject", "repoint", k)

DeleteCategory(c, k) == k \in OfSlug /\ OnCategory(c, "drop", "write", k)

(* Mutant of Repoint: the restaurants are left to the foreign key.          *)
RepointNone(c) == TaskAt(c, "repoint") /\ TaskIs(c, [task[c] EXCEPT !.pc = "write"])

(* The UPDATE of the restaurants that have it, to the target.               *)
Repoint(c) ==
  LET q == task[c] has == {v \in Venue : ofVenue[v] = q.cat} IN
  /\ TaskAt(c, "repoint")
  /\ \A e \in OtherTasks(c) : \A v \in has : ~Written(e, v)
  /\ TaskIs(c, [q EXCEPT !.pc = "write", !.moves = has])

(* The row is written or deleted, whatever its status is by now; a deletion *)
(* waits for whoever refers to it.                                          *)
WriteCategory(c) ==
  LET q == task[c] IN
  /\ TaskAt(c, "write") /\ q.op \in {"approve", "reject", "drop"}
  /\ \A e \in OtherTasks(c) : ~(e.cat = q.cat /\ e.pc = "commit")
  /\ TaskIs(c, IF Listed(q.cat) THEN [q EXCEPT !.pc = "commit"] ELSE NoTask)

------------------------------------------------------------------------------
(* A column after the commit of q.  A category that goes leaves NULL.       *)
VenueAfter(q, v) ==
  CASE q.op \in {"reject", "drop"} /\ ofVenue[v] = q.cat ->
         IF v \in q.moves THEN Otros ELSE NoCategory
    [] v = q.venue /\ "venue" \in q.bare /\ q.cat # NoCategory -> q.cat
    [] OTHER -> ofVenue[v]

DishAfter(q, v) ==
  CASE q.op \in {"reject", "drop"} /\ ofDish[v] = q.cat -> NoCategory
    [] v = q.venue /\ "dish" \in q.bare /\ q.cat # NoCategory -> q.cat
    [] OTHER -> ofDish[v]

StatusAfter(q, k) ==
  IF k # q.cat \/ (q.op \in {"post", "edit"} /\ ~q.coins) THEN category[k]
  ELSE CASE q.op \in {"coin", "approve"} -> "approved"
         [] q.op \in {"reject", "drop"} -> "dropped"
         [] OTHER -> "pending"

CommitTask(c) ==
  LET q == task[c] IN
  /\ TaskAt(c, "commit")
  /\ category' = [k \in Category |-> StatusAfter(q, k)]
  /\ ofVenue' = [v \in Venue |-> VenueAfter(q, v)]
  /\ ofDish' = [v \in Venue |-> DishAfter(q, v)]
  /\ task' = [e \in Task |-> IF e = c THEN NoTask
                             ELSE [task[e] EXCEPT !.crossed = ~TaskAt(e, "none")]]

(* The connection drops, a statement fails, the process dies: a rollback.   *)
AbortTask(c) == ~TaskAt(c, "none") /\ TaskIs(c, NoTask)

CategoriesNext ==
  \E c \in Task :
    \/ \E v \in Venue :
         \/ \E given \in Given : BeginPosting(c, v, given)
         \/ \E given \in Given : UpdateVenue(c, v, given)
    \/ TakeGiven(c) \/ InferCategory(c)
    \/ FallbackOtros(c) \/ PickExisting(c) \/ ProposeNew(c)
    \/ WriteColumns(c)
    \/ CreateCategory(c) \/ InsertCategory(c)
    \/ \E k \in Category :
         ApprovePendingCategory(c, k) \/ RejectPendingCategory(c, k) \/ DeleteCategory(c, k)
    \/ Repoint(c) \/ WriteCategory(c)
    \/ CommitTask(c) \/ AbortTask(c)

CategoriesSpec == CategoriesInit /\ [][CategoriesNext]_categoryVars

------------------------------------------------------------------------------
Lands(c) == TaskAt(c, "commit") /\ TaskAt(c, "none")' /\ <<category, ofVenue, ofDish>>' # <<category, ofVenue, ofDish>>

(* No slug has two categories and nothing refers to one that went, however  *)
(* proposals, decisions and deletions race; a post that asks the provider   *)
(* gives its dish a category, and its restaurant one only if it had none.   *)
(* The admins are told of what was proposed, and of nothing else.  Unless   *)
(* another request committed in between, a rejection ends a category that   *)
(* is pending and leaves each restaurant that had it at the target          *)
(* (category_inference_service.py:385, categories.py:237, posts.py:275).    *)
CategoriesHold ==
  [][/\ Cardinality(OfSlug') <= 1
     /\ \A v \in Venue : \A k \in {ofVenue'[v], ofDish'[v]} : k = NoCategory \/ Listed(k)'
     /\ \A c \in Task : Lands(c) =>
          LET q == task[c] IN
          /\ q.tells <=> OfSlug' \ OfSlug # {} /\ Approved' = Approved
          /\ q.op = "post" /\ q.given = "no" => ofDish'[q.venue] # NoCategory
          /\ q.op = "post" /\ ~q.crossed /\ ofVenue[q.venue] # NoCategory => ofVenue' = ofVenue
          /\ q.op = "reject" /\ ~q.crossed =>
               /\ category[q.cat] = "pending"
               /\ ofVenue' = [v \in Venue |-> IF ofVenue[v] = q.cat THEN Otros ELSE ofVenue[v]]
    ]_categoryVars

(* Claimed by infer_category of itself: it never raises, and a post has a   *)
(* category at the worst of answers (category_inference_service.py:28-31,   *)
(* 286).  A proposal whose slug is pending, or has come since the           *)
(* categories were read, raises at its flush, and the post is lost.         *)
InferenceNeverRaises ==
  [][\A c \in Task : ProposeNew(c) => TaskAt(c, "write")']_categoryVars

=============================================================================
