-------------------------- MODULE RatingAggregates --------------------------
(***************************************************************************)
(* The aggregates of one restaurant: computed_rating and review_count of    *)
(* its dishes and of the restaurant itself, and the requests that keep      *)
(* them: create_review and create_post, update_review with the rename that  *)
(* moves a review to another dish, delete_review, merge_dishes and          *)
(* delete_dish (app/services/rating_service.py, app/routers/reviews.py,     *)
(* app/routers/posts.py, app/routers/dishes.py, dish_service.py).           *)
(*                                                                          *)
(* Every request is one READ COMMITTED transaction: a statement sees what   *)
(* was committed before it and what its own transaction wrote; row locks    *)
(* are held until the end.  On top of it works the session of the ORM: a    *)
(* row whose object the handler still holds is not read again, and an       *)
(* UPDATE contains only the columns that differ from what was loaded.       *)
(* Dishes that a request creates are dishes that existed, empty, before it. *)
(***************************************************************************)
EXTENDS Naturals, Sequences, FiniteSets, FiniteSetsExt

CONSTANTS
  Client,      \* requests in flight at the same time
  Review,      \* ids of dish_reviews
  Critic,      \* the reviews whose author has the role critic
  Dish,        \* dishes of the restaurant
  Restaurant,  \* the restaurant
  Score,       \* values of DishReview.rating
  NoReview,    \* a request that is not about one review
  NoDish,      \* the dish of a review that does not exist
  MaxRequests  \* bound on the requests of a behaviour

ASSUME AggregatesAssumption ==
  /\ MaxRequests \in Nat
  /\ Score \subseteq Nat \ {0} /\ Score # {}
  /\ Critic \subseteq Review
  /\ NoReview \notin Review
  /\ NoDish \notin Dish /\ Restaurant \notin Dish \cup {NoDish}

(* A restaurant has some dishes and reviews; a rating has some values.      *)
ASSUME AggregatesFinite == IsFiniteSet(Review) /\ IsFiniteSet(Dish) /\ IsFiniteSet(Score)

VARIABLES
  dishOf,       \* dish_id of every review
  score,        \* rating of every review
  live,         \* the dishes that exist
  agg,          \* the two columns of every dish and of the restaurant
  categorised,  \* the restaurant has a category
  req,          \* the request of every client
  drifted,      \* history: the columns that missed a change
  begun         \* requests so far

vars == <<dishOf, score, live, agg, categorised, req, drifted, begun>>
data == <<dishOf, score, live, agg, categorised, drifted>>

Target == Dish \cup {Restaurant}
Column == {"rating", "count"}
Zero == [rating |-> 0, count |-> 0]
Row == [rating : 0 .. 100 * Max(Score),
        count : 0 .. Cardinality(Review) * Cardinality(Dish)]

Op == {"none", "create", "update", "delete", "merge", "drop"}
PC == {"idle", "classify", "lock", "write", "unlink", "rate", "count", "load",
       "store", "find", "commit"}

(* A request: what it is about; what it still has to recompute; the objects *)
(* in its session, and those of them that the handler keeps; the reviews a  *)
(* deletion has loaded; the rows it locked; the reviews and the columns it  *)
(* wrote; the values computed last.  And its history: the columns computed  *)
(* from what another request has changed since, and the rows that another   *)
(* has changed since they were loaded.                                      *)
Idle == [op |-> "none", pc |-> "idle", review |-> NoReview, from |-> NoDish,
         to |-> NoDish, score |-> 0, was |-> 0, todo |-> <<>>,
         cache |-> <<>>, held |-> {}, victims |-> {}, locked |-> {},
         wrote |-> {}, rows |-> <<>>, value |-> Zero, missed |-> {}, touched |-> {}]

AggregatesTypeOK ==
  /\ live \subseteq Dish
  /\ dishOf \in [Review -> live \cup {NoDish}]
  /\ score \in [Review -> Score \cup {0}]
  /\ agg \in [Target -> Row]
  /\ categorised \in BOOLEAN
  /\ drifted \subseteq Target \X Column
  /\ \A c \in Client :
       /\ req[c].op \in Op /\ req[c].pc \in PC
       /\ req[c].review \in Review \cup {NoReview}
       /\ {req[c].from, req[c].to} \subseteq Dish \cup {NoDish}
       /\ req[c].locked \subseteq Target /\ req[c].value \in Row
       /\ DOMAIN req[c].cache \subseteq Target
       /\ \A k \in DOMAIN req[c].rows :
            k \in Target /\ DOMAIN req[c].rows[k] \subseteq Column

------------------------------------------------------------------------------
(* The formulas, in hundredths.                                             *)

(* quantize(Decimal("0.01"), ROUND_HALF_UP) of the quotient a / b.          *)
HalfUp(a, b) == (2 * a + b) \div (2 * b)

Weight(r) == IF r \in Critic THEN 2 ELSE 1

(* compute_dish_rating and the count, of the scores of some reviews.        *)
DishRow(f) ==
  [rating |-> IF DOMAIN f = {} THEN 0
              ELSE HalfUp(100 * MapThenSumSet(LAMBDA r : Weight(r) * f[r], DOMAIN f),
                          MapThenSumSet(Weight, DOMAIN f)),
   count |-> Cardinality(DOMAIN f)]

(* compute_restaurant_rating without dimension ratings, and the total, of   *)
(* the rows of the dishes.                                                  *)
RestaurantRow(f) ==
  LET shown == {d \in Dish : f[d].rating > 0} IN
  [rating |-> IF shown = {} THEN 0
              ELSE HalfUp(MapThenSumSet(LAMBDA d : f[d].rating, shown),
                          Cardinality(shown)),
   count |-> MapThenSumSet(LAMBDA d : f[d].count, Dish)]

ReviewsOf(d) == {r \in Review : dishOf[r] = d}

(* The scores of the reviews of d, where f has the dishes and s the scores. *)
ScoresIn(d, f, s) == [r \in {x \in Review : f[x] = d} |-> s[r]]

(* What the columns of target k should be, in the committed state.          *)
Exact(k) ==
  IF k = Restaurant THEN RestaurantRow([d \in Dish |-> agg[d]])
  ELSE DishRow(ScoresIn(k, dishOf, score))

(* A database whose requests ran one after the other.                       *)
Init ==
  /\ dishOf \in [Review -> Dish \cup {NoDish}]
  /\ score \in [Review -> Score \cup {0}]
  /\ \A r \in Review : dishOf[r] = NoDish <=> score[r] = 0
  /\ live = Dish
  /\ LET f == [d \in Dish |-> DishRow(ScoresIn(d, dishOf, score))]
     IN agg = [k \in Target |-> IF k = Restaurant THEN RestaurantRow(f) ELSE f[k]]
  /\ categorised \in BOOLEAN
  /\ req = [c \in Client |-> Idle]
  /\ drifted = {}
  /\ begun = 0

------------------------------------------------------------------------------
(* What a request sees: the committed state, what its own transaction       *)
(* wrote, and before both the objects its session holds.                    *)

DishSeen(c, r) ==
  LET q == req[c] IN
  IF r \notin q.wrote \/ (q.op = "update" /\ q.from = q.to) THEN dishOf[r]
  ELSE IF q.op \in {"delete", "drop"} THEN NoDish
  ELSE q.to

ScoreSeen(c, r) ==
  IF r = req[c].review /\ req[c].op \in {"create", "update"}
     THEN req[c].score ELSE score[r]

(* The row of k in the database of c, and the columns of it that c wrote.   *)
Written(c, k) == IF k \in DOMAIN req[c].rows THEN DOMAIN req[c].rows[k] ELSE {}

Stored(c, k) ==
  [col \in Column |-> IF col \in Written(c, k) THEN req[c].rows[k][col] ELSE agg[k][col]]

RowSeen(c, k) ==
  IF k \in DOMAIN req[c].cache THEN req[c].cache[k] ELSE Stored(c, k)

Computed(c, k) ==
  IF k = Restaurant
     THEN RestaurantRow([d \in Dish |-> IF d \in live THEN RowSeen(c, d) ELSE Zero])
     ELSE DishRow(ScoresIn(k, [r \in Review |-> DishSeen(c, r)],
                              [r \in Review |-> ScoreSeen(c, r)]))

------------------------------------------------------------------------------
(* Row locks.                                                               *)

Current(c) == Head(req[c].todo)

Renames(c) == req[c].op = "update" /\ req[c].from # req[c].to

(* Mutant of Shared: no foreign key from reviews to dishes.                 *)
SharedNot(c) == {}

(* FOR KEY SHARE on the dish a review was inserted into or moved to.        *)
Shared(c) ==
  IF req[c].wrote # {} /\ (req[c].op = "create" \/ Renames(c)) THEN {req[c].to} ELSE {}

Updated(c) == DOMAIN req[c].rows

Others(c) == Client \ {c}

BlockedOnReviews(c, rs) == {e \in Others(c) : req[e].wrote \cap rs # {}}

BlockedOnShare(c, d) == {e \in Others(c) : d \in req[e].locked}

BlockedOnUpdate(c, k) ==
  IF k \in req[c].locked \cup Updated(c) THEN {}
  ELSE {e \in Others(c) : k \in req[e].locked \cup Updated(e)}

BlockedOnLock(c, d) ==
  {e \in Others(c) : d \in req[e].locked \cup Updated(e) \cup Shared(e)}

(* The dish that a merge locks next; both merges of a pair take them in the *)
(* same order.                                                              *)
NextLock(c) == CHOOSE d \in {req[c].from, req[c].to} \ req[c].locked : TRUE

(* The columns of the UPDATE: those that differ from the object loaded.     *)
Changes(c) ==
  LET k == Current(c) IN
  {col \in Column : req[c].value[col] # RowSeen(c, k)[col]}

OneReview == {"create", "update", "delete"}

(* Whom the next statement of c has to wait for.                            *)
WaitsFor(c) ==
  LET q == req[c] IN
  {e \in Others(c) :
     \/ q.pc = "classify" /\ e \in BlockedOnUpdate(c, Restaurant)
     \/ q.pc = "lock" /\ e \in BlockedOnLock(c, NextLock(c))
     \/ q.pc = "write" /\ q.op = "merge" /\ e \in BlockedOnReviews(c, ReviewsOf(q.from))
     \/ q.pc = "write" /\ q.op = "drop" /\ e \in BlockedOnReviews(c, q.victims)
     \/ q.pc = "write" /\ q.op \in OneReview /\ e \in BlockedOnReviews(c, {q.review})
     \/ /\ q.pc = "write" /\ (q.op = "create" \/ Renames(c))
        /\ e \in BlockedOnShare(c, q.to)
     \/ q.pc = "unlink" /\ e \in BlockedOnLock(c, q.from)
     \/ q.pc = "unlink" /\ e \in BlockedOnReviews(c, ReviewsOf(q.from))
     \/ q.pc = "store" /\ Changes(c) # {} /\ e \in BlockedOnUpdate(c, Current(c))}

Free(c) == WaitsFor(c) = {}

------------------------------------------------------------------------------
(* The requests, up to their first write.                                   *)

Rows(ks) == [k \in ks |-> agg[k]]

(* The handler of c begins, and keeps the objects of ks that it has loaded. *)
Begin(c, q, ks) ==
  /\ req[c] = Idle
  /\ begun < MaxRequests
  /\ begun' = begun + 1
  /\ req' = [req EXCEPT ![c] = [q EXCEPT !.cache = Rows(ks), !.held = ks]]
  /\ UNCHANGED data

(* create_review, and create_post on a dish it found; a post infers the     *)
(* category that dish and restaurant do not have yet.                       *)
BeginCreate(c, r, d, s, infers) ==
  /\ dishOf[r] = NoDish /\ \A e \in Client : req[e].review # r
  /\ d \in live
  /\ infers => ~categorised
  /\ Begin(c, [Idle EXCEPT !.op = "create", !.review = r, !.to = d, !.score = s,
                           !.pc = IF infers THEN "classify" ELSE "write",
                           !.todo = <<d, Restaurant>>],
           {d, Restaurant})

(* Mutant of BeginUpdate: the dish a review is moved away from is left as   *)
(* it was.                                                                  *)
BeginUpdateNewOnly(c, r, d, s, named) ==
  /\ dishOf[r] # NoDish
  /\ d \in live
  /\ dishOf[r] # d => named
  /\ Begin(c, [Idle EXCEPT !.op = "update", !.pc = "write", !.review = r,
                           !.from = dishOf[r], !.to = d,
                           !.score = s, !.was = score[r],
                           !.todo = <<d, Restaurant>>],
           IF named THEN {dishOf[r], d} ELSE {})

(* update_review: d is the dish of the review, or the one it is renamed to; *)
(* the dishes are loaded only if the request contains a name.               *)
BeginUpdate(c, r, d, s, named) ==
  /\ dishOf[r] # NoDish
  /\ d \in live
  /\ dishOf[r] # d => named
  /\ Begin(c, [Idle EXCEPT !.op = "update", !.pc = "write", !.review = r,
                           !.from = dishOf[r], !.to = d,
                           !.score = s, !.was = score[r],
                           !.todo = IF dishOf[r] = d THEN <<d, Restaurant>>
                                    ELSE <<dishOf[r], d, Restaurant>>],
           IF named THEN {dishOf[r], d} ELSE {})

(* Mutant of BeginDelete: the dish is locked FOR UPDATE before the review   *)
(* is deleted.                                                              *)
BeginDeleteLocking(c, r) ==
  /\ dishOf[r] # NoDish
  /\ Begin(c, [Idle EXCEPT !.op = "delete", !.pc = "lock", !.review = r,
                           !.from = dishOf[r], !.to = dishOf[r],
                           !.todo = <<dishOf[r], Restaurant>>], {dishOf[r]})

(* delete_review.                                                           *)
BeginDelete(c, r) ==
  /\ dishOf[r] # NoDish
  /\ Begin(c, [Idle EXCEPT !.op = "delete", !.pc = "write", !.review = r,
                           !.from = dishOf[r], !.todo = <<dishOf[r], Restaurant>>],
           {dishOf[r]})

(* Mutant of BeginMerge: the dishes are not locked.                         *)
BeginMergeUnlocked(c, s, t) ==
  /\ s # t /\ {s, t} \subseteq live
  /\ Begin(c, [Idle EXCEPT !.op = "merge", !.pc = "write",
                           !.from = s, !.to = t, !.todo = <<t>>], {})

(* merge_dishes of s into t.                                                *)
BeginMerge(c, s, t) ==
  /\ s # t /\ {s, t} \subseteq live
  /\ Begin(c, [Idle EXCEPT !.op = "merge", !.pc = "lock",
                           !.from = s, !.to = t, !.todo = <<t>>], {})

(* delete_dish, which loads the reviews it is going to delete.              *)
BeginDrop(c, d) ==
  /\ d \in live
  /\ Begin(c, [Idle EXCEPT !.op = "drop", !.pc = "write", !.from = d,
                           !.victims = ReviewsOf(d)], {})

------------------------------------------------------------------------------
(* The statements of a request.  Each is taken when nobody holds the locks  *)
(* it needs.                                                                *)

At(c, pc) == req[c].pc = pc /\ Free(c)

(* req' with the fields of q changed, when the statement changes nothing    *)
(* that others see.                                                         *)
Becomes(c, q) ==
  /\ req' = [req EXCEPT ![c] = q]
  /\ UNCHANGED <<data, begun>>

(* create_post sets the category of the restaurant: the next query flushes  *)
(* it, and keeps the restaurant locked from then on.                        *)
Classify(c) ==
  /\ At(c, "classify")
  /\ Becomes(c, [req[c] EXCEPT !.locked = {Restaurant}, !.pc = "write"])

(* SELECT ... FOR UPDATE of both dishes, one row after the other.           *)
Lock(c) ==
  LET q == req[c]
      d == NextLock(c) IN
  /\ At(c, "lock") /\ d \in live
  /\ Becomes(c, [q EXCEPT
       !.locked = @ \cup {d},
       !.pc = IF q.locked \cup {d} = {q.from, q.to} THEN "write" ELSE "lock"])

(* The insert, update or delete of a review.  The foreign key asks for the  *)
(* dish, and an UPDATE for the review: without them the request raises.  An *)
(* update that changes no column of the review is no statement.             *)
WriteReview(c) ==
  LET q == req[c] IN
  /\ At(c, "write") /\ q.op \in OneReview
  /\ q.op = "create" \/ Renames(c) => q.to \in live
  /\ \/ /\ q.op = "update" => dishOf[q.review] # NoDish
        /\ Becomes(c, [q EXCEPT !.wrote = {q.review}, !.pc = "rate"])
     \/ /\ q.op = "update" /\ ~Renames(c) /\ q.score = q.was
        /\ Becomes(c, [q EXCEPT !.pc = "rate"])

(* merge_dishes moves the reviews of the source and deletes the source;     *)
(* delete_dish deletes the reviews it has loaded, by their ids.             *)
WriteReviews(c) ==
  LET q == req[c] IN
  /\ At(c, "write")
  /\ \/ /\ q.op = "merge"
        /\ Becomes(c, [q EXCEPT !.wrote = ReviewsOf(q.from), !.pc = "rate"])
     \/ /\ q.op = "drop"
        /\ Becomes(c, [q EXCEPT !.wrote = q.victims, !.pc = "unlink"])

(* delete_dish deletes the row of the dish; reviews that arrived since the  *)
(* request looked for them cascade.                                         *)
Unlink(c) ==
  LET q == req[c] IN
  /\ At(c, "unlink")
  /\ Becomes(c, [q EXCEPT !.locked = {q.from},
                          !.wrote = @ \cup ReviewsOf(q.from), !.pc = "commit"])

(* f with v at k.                                                           *)
Put(f, k, v) == [x \in DOMAIN f \cup {k} |-> IF x = k THEN v ELSE f[x]]

(* One column is computed from a query of its own.                          *)
Compute(c, col, next) ==
  LET k == Current(c) IN
  Becomes(c, [req[c] EXCEPT !.value[col] = Computed(c, k)[col],
                            !.missed = @ \ {<<k, col>>},
                            !.pc = next])

(* compute_dish_rating and compute_restaurant_rating.                       *)
Rate(c) == At(c, "rate") /\ Compute(c, "rating", "count")

(* The counts of update_dish_rating and update_restaurant_rating.           *)
Count(c) == At(c, "count") /\ Compute(c, "count", "load")

(* What follows the recomputation of the current target.                    *)
AfterTarget(c) ==
  LET q == req[c] IN
  IF Len(q.todo) = 1 THEN "commit"
  ELSE IF q.op = "update" /\ Current(c) = q.to THEN "find"
  ELSE "rate"

NextTarget(c, q) == [q EXCEPT !.todo = Tail(@), !.value = Zero, !.pc = AfterTarget(c)]

(* SELECT of the dish or restaurant: the object is loaded, unless the       *)
(* session holds it.  A dish that is gone is left at that.                  *)
Load(c) ==
  LET q == req[c]
      k == Current(c) IN
  /\ At(c, "load")
  /\ Becomes(c, IF k \in Dish \ live THEN NextTarget(c, q)
                ELSE IF k \in DOMAIN q.cache THEN [q EXCEPT !.pc = "store"]
                ELSE [q EXCEPT !.cache = Put(@, k, Stored(c, k)),
                               !.touched = @ \ {k}, !.pc = "store"])

(* Mutant of Store: a dish without reviews is left as it was.               *)
StoreUnlessEmpty(c) ==
  LET q == req[c]
      k == Current(c)
      cols == IF q.value.count = 0 THEN {} ELSE Changes(c) IN
  /\ At(c, "store")
  /\ cols # {} /\ k \in Dish => k \in live
  /\ Becomes(c, NextTarget(c, [q EXCEPT
       !.rows = IF cols = {} THEN @ ELSE Put(@, k, [col \in cols |-> q.value[col]]),
       !.cache = IF k \in q.held THEN [@ EXCEPT ![k] = q.value]
                 ELSE [h \in DOMAIN @ \ {k} |-> @[h]]]))

(* The flush: an UPDATE of the columns that differ from the loaded object,  *)
(* which raises when the dish is gone.  An object that the handler does not *)
(* keep is gone from the session when update_dish_rating returns.           *)
Store(c) ==
  LET q == req[c]
      k == Current(c)
      cols == Changes(c) IN
  /\ At(c, "store")
  /\ cols # {} /\ k \in Dish => k \in live
  /\ Becomes(c, NextTarget(c, [q EXCEPT
       !.rows = IF cols = {} THEN @ ELSE Put(@, k, [col \in cols |-> q.value[col]]),
       !.cache = IF k \in q.held THEN [@ EXCEPT ![k] = q.value]
                 ELSE [h \in DOMAIN @ \ {k} |-> @[h]]]))

(* update_review reads the dish of its review again, for the restaurant.    *)
Find(c) ==
  LET q == req[c] IN
  /\ At(c, "find")
  /\ q.to \in live
  /\ Becomes(c, [q EXCEPT !.cache = Put(@, q.to, RowSeen(c, q.to)),
                          !.held = @ \cup {q.to}, !.pc = "rate"])

------------------------------------------------------------------------------
(* The end of a request.                                                    *)

Gone(c) == IF req[c].op \in {"merge", "drop"} THEN {req[c].from} ELSE {}

(* What a request recomputes.                                               *)
Recomputed(c) ==
  IF req[c].op \in OneReview THEN ({req[c].from, req[c].to} \ {NoDish}) \cup {Restaurant}
  ELSE IF req[c].op = "merge" THEN {req[c].to}
  ELSE {}

(* The reviews once get_db has committed.  One that still names a dish that *)
(* is gone goes with it (ON DELETE CASCADE).                                *)
DishAfter(c) ==
  [r \in Review |-> IF DishSeen(c, r) \in Gone(c) THEN NoDish ELSE DishSeen(c, r)]

ScoreAfter(c) ==
  [r \in Review |->
     IF DishAfter(c)[r] = NoDish THEN 0
     ELSE IF r \in req[c].wrote /\ req[c].score # req[c].was THEN ScoreSeen(c, r)
     ELSE score[r]]

(* The dishes and the restaurant, and their columns.                        *)
Kept(c) == (live \ Gone(c)) \cup {Restaurant}
RowAfter(c) == [k \in Target |-> IF k \in Kept(c) THEN Stored(c, k) ELSE Zero]

(* What changes for the others: the reviews of some dishes, some columns,   *)
(* and so what some columns are computed from.                              *)
Reviewed(c) ==
  {d \in Dish : ScoresIn(d, DishAfter(c), ScoreAfter(c)) # ScoresIn(d, dishOf, score)}
Moved(c) == {k \in Target : RowAfter(c)[k] # agg[k]}
Inputs(c) == Reviewed(c) \cup (IF Moved(c) \cap Dish # {} THEN {Restaurant} ELSE {})

(* What a request computes from its own objects is out of date: its dishes, *)
(* or its review.                                                           *)
Outdated(c, k) ==
  LET q == req[c] IN
  IF k = Restaurant THEN \E d \in q.held \cap Dish : q.cache[d] # RowAfter(c)[d]
  ELSE q.op = "update" /\ ScoreAfter(c)[q.review] \notin {q.score, 0}

(* A column that c recomputes is wrong if something changed since it was    *)
(* computed; if it is not as it was loaded, and not written; or if it was   *)
(* computed from an object that is out of date.                             *)
Wrong(c) ==
  {p \in Recomputed(c) \X Column :
     \/ p \in req[c].missed
     \/ p[1] \in req[c].touched /\ p[2] \notin Written(c, p[1])
     \/ Outdated(c, p[1])}

(* What c does not recompute although it should: the dish that a review of  *)
(* its was moved to meanwhile, the restaurant of a merge or a deletion.     *)
Neglected(c) ==
  {k \in Inputs(c) \ Recomputed(c) :
     k = Restaurant \/ \E r \in req[c].wrote : dishOf[r] # req[c].from}

(* get_db commits.                                                          *)
Commit(c) ==
  /\ req[c].pc = "commit"
  /\ dishOf' = DishAfter(c) /\ score' = ScoreAfter(c)
  /\ live' = Kept(c) \cap Dish /\ agg' = RowAfter(c)
  /\ categorised' = (categorised \/ Restaurant \in req[c].locked)
  /\ drifted' = ((drifted \ (Recomputed(c) \X Column)) \cup Wrong(c)
                    \cup (Neglected(c) \X Column)) \cap (Kept(c) \X Column)
  /\ begun' = begun
  /\ req' = [e \in Client |->
               IF e = c \/ req[e] = Idle THEN Idle
               ELSE [req[e] EXCEPT !.missed = @ \cup (Inputs(c) \X Column),
                                   !.touched = @ \cup Moved(c)]]

(* The request raises, or the database picks it as the victim of a          *)
(* deadlock: get_db rolls back.                                             *)
Abort(c) ==
  /\ req[c] # Idle
  /\ req' = [req EXCEPT ![c] = Idle]
  /\ UNCHANGED <<data, begun>>

(* create_dish.                                                             *)
CreateDish(d) ==
  /\ d \notin live
  /\ \A c \in Client : d \notin {req[c].from, req[c].to}
  /\ live' = live \cup {d}
  /\ UNCHANGED <<dishOf, score, agg, categorised, req, drifted, begun>>

Statement(c) ==
  \/ Classify(c) \/ Lock(c) \/ WriteReview(c) \/ WriteReviews(c) \/ Unlink(c)
  \/ Rate(c) \/ Count(c) \/ Load(c) \/ Store(c) \/ Find(c)
  \/ Commit(c)

Next ==
  \/ \E c \in Client :
       \/ \E r \in Review, d \in Dish, s \in Score, b \in BOOLEAN :
            BeginCreate(c, r, d, s, b) \/ BeginUpdate(c, r, d, s, b)
       \/ \E r \in Review : BeginDelete(c, r)
       \/ \E s, t \in Dish : BeginMerge(c, s, t)
       \/ \E d \in Dish : BeginDrop(c, d)
       \/ Statement(c)
       \/ Abort(c)
  \/ \E d \in Dish : CreateDish(d)

Spec == Init /\ [][Next]_vars

------------------------------------------------------------------------------
(* The requests of S wait for each other.                                   *)
Deadlocked(S) ==
  S # {} /\ \A c \in S : req[c] # Idle /\ WaitsFor(c) \cap S # {}

(* A column that is not what the reviews (of a dish) or the dishes (of the  *)
(* restaurant) say missed a change: a request stored what it had computed   *)
(* before another one committed; or did not store it, because it was what   *)
(* an object loaded before said; or changed a review that had been moved    *)
(* to another dish in the meantime; or a merge or the deletion of a dish,   *)
(* which do not recompute the restaurant, changed the dishes.  In           *)
(* particular a request that ran alone leaves every column it recomputes    *)
(* right, a rename on both dishes, and so the next review repairs.          *)
DriftHasCause ==
  \A k \in live \cup {Restaurant}, col \in Column :
    <<k, col>> \notin drifted => agg[k][col] = Exact(k)[col]


(* A merge never costs a review, whatever is written while it runs.         *)
MergeKeepsReviews ==
  [][\A c \in Client :
       req[c].op = "merge" /\ req'[c] = Idle =>
         \A r \in Review : dishOf[r] # NoDish => dishOf'[r] # NoDish]_vars

(* Requests wait for each other in a circle only if one of them takes its   *)
(* locks against the order review, dish, restaurant: a rename or a merge,   *)
(* which lock two dishes, or a post that sets the category of the           *)
(* restaurant before it gets to its dish; or if a dish that is being        *)
(* deleted has got a review that another such deletion deleted first, since *)
(* reviews were moved while both ran.                                       *)
TakesTwo(c) == req[c].op = "merge" \/ Renames(c)

DropsMeet(c, e) ==
  /\ c # e /\ req[c].op = "drop" /\ req[e].op = "drop"
  /\ req[e].wrote \cap ReviewsOf(req[c].from) # {}

DeadlockHasCause ==
  \A S \in SUBSET Client :
    Deadlocked(S) =>
      \/ \E c \in S : TakesTwo(c) \/ Restaurant \in req[c].locked
      \/ \E c, e \in S : DropsMeet(c, e)

=============================================================================
