---------------------------- MODULE RestaurantMerge ----------------------------
(***************************************************************************)
(* The merge of a duplicate restaurant into another                         *)
(* (app/services/restaurant_service.py, merge_restaurants) against the      *)
(* requests that meanwhile write below one of the two: new reviews, renamed *)
(* dishes, new rows, changed slugs, other merges, deletions.                *)
(*                                                                          *)
(* Every request is one READ COMMITTED transaction.  A statement sees what  *)
(* is committed when it runs, together with the request's own changes,      *)
(* which are kept in its record and applied when get_db commits.  Of the    *)
(* row locks of PostgreSQL two kinds are told apart: `own' (UPDATE, DELETE, *)
(* FOR UPDATE) and `share' (the check of a foreign key, and the update of a *)
(* column that no key contains).                                            *)
(***************************************************************************)
EXTENDS Naturals, FiniteSets, TLC

CONSTANTS
  Client,      \* requests in flight at the same time
  Restaurant,  \* ids of restaurants
  Slug,        \* what links to restaurants are made of
  Dish,        \* ids of dishes
  Name,        \* normalised names of dishes
  Review,      \* ids of dish_reviews
  Single,      \* rows of which a restaurant has one: its menu
  Plain,       \* rows of the other kinds that a merge moves
  Left,        \* rows of the kinds that a merge does not mention
  None,        \* NULL, or no such row
  MaxRequests  \* bound: requests of a behaviour

Row == Single \cup Plain \cup Left

(* Rows of different tables are different; the table of restaurants is      *)
(* finite.                                                                  *)
ASSUME MergeAssumption ==
  /\ None \notin Restaurant \cup Slug \cup Dish \cup Review \cup Row
  /\ Restaurant \cap (Slug \cup Dish \cup Review) = {}
  /\ Slug \cap (Dish \cup Review) = {} /\ Dish \cap Review = {}
  /\ IsFiniteSet(Restaurant)
  /\ MaxRequests \in Nat

VARIABLES
  slug,   \* slug of every restaurant, None when there is no such row
  link,   \* restaurant_id of every old_slug in restaurant_slug_redirects
  at,     \* restaurant_id of every dish
  name,   \* name_normalized of every dish
  on,     \* dish_id of every review
  below,  \* restaurant_id of every other row
  req,    \* the request of every client
  count   \* requests so far

rows == <<slug, link, at, name, on, below>>
vars == <<slug, link, at, name, on, below, req, count>>

Idle == [op |-> "none", pc |-> "idle", src |-> None, dst |-> None, item |-> None,
         new |-> None, own |-> {}, share |-> {}, remapped |-> {}, twin |-> {},
         dropped |-> {}, shifted |-> {}, moved |-> {}, links |-> {}, touched |-> {}]

Live == {r \in Restaurant : slug[r] # None}
DishesOf(r) == {d \in Dish : at[d] = r}
Others(c) == Client \ {c}

(* uq (restaurant_id, name_normalized), slug, menus.restaurant_id; and the  *)
(* foreign keys, of which the merge must not leave one dangling.            *)
Database ==
  /\ slug \in [Restaurant -> Slug \cup {None}]
  /\ link \in [Slug -> Live \cup {None}]
  /\ at \in [Dish -> Live \cup {None}]
  /\ name \in [Dish -> Name]
  /\ on \in [Review -> {d \in Dish : at[d] # None} \cup {None}]
  /\ below \in [Row -> Live \cup {None}]
  /\ \A r, s \in Live : slug[r] = slug[s] => r = s
  /\ \A d, e \in Dish : at[d] = at[e] /\ at[d] # None /\ name[d] = name[e] => d = e
  /\ \A x, y \in Single : below[x] = below[y] /\ below[x] # None => x = y

(* Every commit leaves the rows as the schema demands.                      *)
MergeTypeOK == Database /\ count \in 0 .. MaxRequests

(* The service starts on any database of that shape.                        *)
Init ==
  /\ Database
  /\ req = [c \in Client |-> Idle]
  /\ count = 0

------------------------------------------------------------------------------
(* What the statement of c at its pc locks.                                 *)
Colliding(s, t) == {d \in DishesOf(s) : \E e \in DishesOf(t) : name[e] = name[d]}
Twins(s, t) == {e \in DishesOf(t) : \E d \in DishesOf(s) : name[e] = name[d]}

(* Mutant of NextLock: the source is locked first.                          *)
NextLockSource(c) == IF req[c].src \in req[c].own THEN req[c].dst ELSE req[c].src

(* A merge has its restaurants in this order.                               *)
Second(q) == IF q.item = q.src THEN q.dst ELSE q.src
Ordered(rank, q) == q.pc = "lock" => rank[q.item] < rank[Second(q)]

(* The restaurant that FOR UPDATE locks next.                               *)
NextLock(c) == IF req[c].item \notin req[c].own THEN req[c].item ELSE Second(req[c])

WantsOwn(c) ==
  LET q == req[c] IN
  CASE q.pc = "lock" -> {NextLock(c)}
    [] q.pc = "remap" -> {v \in Review : on[v] \in Colliding(q.src, q.dst)}
    [] q.pc = "drop" -> Colliding(q.src, q.dst)
    [] q.pc = "shift" -> DishesOf(q.src) \ q.dropped
    [] q.pc = "repoint" -> {x \in Slug : link[x] = q.src}
    [] q.pc = "redirect" -> {slug[q.src]}
    [] q.pc = "rename" -> {q.item}
    [] q.pc \in {"delete", "erase"} -> {q.src}
    [] q.pc = "cascade" -> DishesOf(q.src) \cup {x \in Slug : link[x] = q.src}
    [] OTHER -> {}

WantsShare(c) ==
  LET q == req[c] IN
  CASE q.pc = "remap" -> Twins(q.src, q.dst)
    [] q.pc = "insert" -> {q.item}
    [] q.pc \in {"attach", "rate"} -> {q.src}
    [] OTHER -> {}

(* Uncommitted entries of the unique index on the names of a restaurant.    *)
Entries(e) ==
  CASE req[e].op = "rename" /\ req[e].pc = "commit" -> {<<at[req[e].item], req[e].new>>}
    [] req[e].op = "merge" -> {<<req[e].dst, name[d]>> : d \in req[e].shifted}
    [] OTHER -> {}

NewEntries(c) ==
  LET q == req[c] IN
  CASE q.pc = "rename" -> {<<at[q.item], q.new>>}
    [] q.pc = "shift" -> {<<q.dst, name[d]>> : d \in DishesOf(q.src) \ q.dropped}
    [] OTHER -> {}

WaitsFor(c) ==
  {e \in Others(c) :
     \/ req[e].own \cap (WantsOwn(c) \cup WantsShare(c)) # {}
     \/ req[e].share \cap WantsOwn(c) # {}
     \/ Entries(e) \cap NewEntries(c) # {}
     \/ /\ req[c].pc = "attach" /\ req[c].item \in Single
        /\ req[e].op = "attach" /\ req[e].pc = "commit"
        /\ req[e].item \in Single /\ req[e].src = req[c].src
     \/ /\ req[c].pc = "recompute"
        /\ req[e].op = "review" /\ req[e].share \cap req[c].twin # {}}

At(c, pc) == req[c].pc = pc /\ WaitsFor(c) = {}

(* The record of c with the locks of its statement.                         *)
Holding(c) == [req[c] EXCEPT !.own = @ \cup WantsOwn(c), !.share = @ \cup WantsShare(c)]
Becomes(c, q) == req' = [req EXCEPT ![c] = q] /\ UNCHANGED <<rows, count>>

Begin(c, q) ==
  /\ req[c] = Idle /\ count < MaxRequests
  /\ req' = [req EXCEPT ![c] = q]
  /\ count' = count + 1
  /\ UNCHANGED rows

------------------------------------------------------------------------------
(* merge_restaurants.  The two ids are sorted, but as arguments of IN: FOR  *)
(* UPDATE without ORDER BY locks the two rows in the order in which the     *)
(* plan of that execution comes across them, `first' first.                 *)
BeginMerge(c, s, t, first) ==
  /\ {s, t} \subseteq Live /\ s # t
  /\ Begin(c, [Idle EXCEPT !.op = "merge", !.pc = "lock", !.src = s, !.dst = t,
                           !.item = first])

(* Mutant of Lock: the restaurants are read without FOR UPDATE.             *)
LockNothing(c) ==
  /\ At(c, "lock")
  /\ {req[c].src, req[c].dst} \subseteq Live
  /\ Becomes(c, [req[c] EXCEPT !.pc = "remap", !.item = None])

(* Both restaurants, FOR UPDATE; a LookupError if one is gone by then.  The *)
(* order is forgotten when it has served.                                   *)
Lock(c) ==
  LET q == Holding(c) IN
  /\ At(c, "lock")
  /\ slug[NextLock(c)] # None
  /\ Becomes(c, IF {q.src, q.dst} \subseteq q.own
                THEN [q EXCEPT !.pc = "remap", !.item = None] ELSE q)

(* 1a: the reviews of source dishes that collide go to their twins.         *)
Remap(c) ==
  LET q == req[c]
      Twin(d) == CHOOSE e \in DishesOf(q.dst) : name[e] = name[d]
      vs == {v \in Review : on[v] \in Colliding(q.src, q.dst)} IN
  /\ At(c, "remap")
  /\ Becomes(c, [Holding(c) EXCEPT !.pc = "drop",
                    !.remapped = {<<v, Twin(on[v])>> : v \in vs},
                    !.twin = {Twin(on[v]) : v \in vs}])

(* Mutant of Drop: every dish of the source is deleted.                     *)
DropAll(c) ==
  /\ At(c, "drop")
  /\ Becomes(c, [Holding(c) EXCEPT !.pc = "shift", !.dropped = DishesOf(req[c].src)])

(* 1b: the colliding source dishes are deleted, with the reviews they have. *)
Drop(c) ==
  /\ At(c, "drop")
  /\ Becomes(c, [Holding(c) EXCEPT !.pc = "shift",
                    !.dropped = Colliding(req[c].src, req[c].dst)])

(* 1c: the other dishes move; two of one name raise.                        *)
Shift(c) ==
  LET q == req[c] IN
  /\ At(c, "shift")
  /\ Colliding(q.src, q.dst) \subseteq q.dropped
  /\ Becomes(c, [Holding(c) EXCEPT !.pc = "rows", !.shifted = DishesOf(q.src) \ q.dropped])

(* Mutant of MoveRows: the menu moves although the target has one.          *)
MoveRowsAll(c) ==
  /\ At(c, "rows")
  /\ Becomes(c, [req[c] EXCEPT !.pc = "repoint",
       !.moved = {x \in Single \cup Plain : below[x] = req[c].src}])

(* 2 to 6: menu, pros and cons, dimensions, diary, images; the target keeps *)
(* what there can be one of.                                                *)
MoveRows(c) ==
  LET q == req[c]
      taken == \E y \in Single : below[y] = q.dst IN
  /\ At(c, "rows")
  /\ Becomes(c, [q EXCEPT !.pc = "repoint",
       !.moved = {x \in Single \cup Plain : below[x] = q.src /\ (x \in Single => ~taken)}])

(* 7: the links to the source.                                              *)
Repoint(c) ==
  /\ At(c, "repoint")
  /\ Becomes(c, [Holding(c) EXCEPT !.pc = "redirect",
                    !.links = {x \in Slug : link[x] = req[c].src}])

(* Mutant of Redirect: ON CONFLICT DO NOTHING.                              *)
RedirectNew(c) ==
  LET x == slug[req[c].src] IN
  /\ At(c, "redirect")
  /\ Becomes(c, [Holding(c) EXCEPT !.pc = "delete",
                    !.links = IF link[x] = None THEN @ \cup {x} ELSE @])

(* 8: the slug of the source, whatever it may have linked to before.        *)
Redirect(c) ==
  /\ At(c, "redirect")
  /\ Becomes(c, [Holding(c) EXCEPT !.pc = "delete", !.links = @ \cup {slug[req[c].src]}])

(* 9: the DELETE; then the aggregates of the twins, if there are any and    *)
(* they change.                                                             *)
DeleteSource(c) ==
  /\ At(c, "delete")
  /\ \E pc \in {"recompute", "commit"} :
       /\ pc = "recompute" => req[c].twin # {}
       /\ Becomes(c, [Holding(c) EXCEPT !.pc = pc])

Recompute(c) ==
  /\ At(c, "recompute")
  /\ Becomes(c, [req[c] EXCEPT !.pc = "commit"])

(* get_db commits; ON DELETE CASCADE takes what is still at the source.     *)
CommitMerge(c) ==
  LET q == req[c]
      gone == q.dropped \cup (DishesOf(q.src) \ q.shifted)
      NewDish(v) == {p[2] : p \in {m \in q.remapped : m[1] = v}} IN
  /\ q.op = "merge" /\ q.pc = "commit"
  /\ slug' = [slug EXCEPT ![q.src] = None]
  /\ link' = [x \in Slug |-> IF x \in q.links THEN q.dst
                             ELSE IF link[x] = q.src THEN None ELSE link[x]]
  /\ at' = [d \in Dish |-> IF d \in gone THEN None
                           ELSE IF d \in q.shifted THEN q.dst ELSE at[d]]
  /\ on' = [v \in Review |-> IF NewDish(v) # {} THEN CHOOSE d \in NewDish(v) : TRUE
                             ELSE IF on[v] \in gone THEN None ELSE on[v]]
  /\ below' = [x \in Row |-> IF x \in q.moved THEN q.dst
                             ELSE IF below[x] = q.src THEN None ELSE below[x]]
  /\ req' = [req EXCEPT ![c] = Idle]
  /\ UNCHANGED <<name, count>>

------------------------------------------------------------------------------
(* The merges that have moved the reviews of colliding dishes and not yet   *)
(* deleted the dishes learn that a dish called n was touched.               *)
Finish(c, n) ==
  req' = [e \in Client |->
            IF e = c THEN Idle
            ELSE IF req[e].pc = "drop" THEN [req[e] EXCEPT !.touched = @ \cup {n}]
            ELSE req[e]]

(* create_review: the insert checks the foreign key; then the rating of the *)
(* restaurant that the dish was loaded with, unless its row does not change.*)
BeginReview(c, v, d) ==
  /\ on[v] = None /\ at[d] # None
  /\ \A e \in Client : req[e].op = "review" => req[e].new # v
  /\ Begin(c, [Idle EXCEPT !.op = "review", !.pc = "insert", !.item = d, !.new = v,
                           !.src = at[d]])

Insert(c) ==
  /\ At(c, "insert")
  /\ at[req[c].item] # None
  /\ \E pc \in {"rate", "commit"} : Becomes(c, [Holding(c) EXCEPT !.pc = pc])

Rate(c) ==
  /\ At(c, "rate")
  /\ Becomes(c, [Holding(c) EXCEPT !.pc = "commit"])

CommitReview(c) ==
  LET q == req[c] IN
  /\ q.op = "review" /\ q.pc = "commit"
  /\ on' = [on EXCEPT ![q.new] = q.item]
  /\ Finish(c, name[q.item])
  /\ UNCHANGED <<slug, link, at, name, below, count>>

(* update_dish with a new name, which another dish may have.                *)
BeginRename(c, d, n) ==
  /\ at[d] # None /\ name[d] # n
  /\ Begin(c, [Idle EXCEPT !.op = "rename", !.pc = "rename", !.item = d, !.new = n])

Rename(c) ==
  LET q == req[c] IN
  /\ At(c, "rename")
  /\ at[q.item] # None
  /\ \A e \in DishesOf(at[q.item]) \ {q.item} : name[e] # q.new
  /\ Becomes(c, [Holding(c) EXCEPT !.pc = "commit"])

CommitRename(c) ==
  LET q == req[c] IN
  /\ q.op = "rename" /\ q.pc = "commit"
  /\ name' = [name EXCEPT ![q.item] = q.new]
  /\ Finish(c, q.new)
  /\ UNCHANGED <<slug, link, at, on, below, count>>

(* Any insert below a restaurant that was found by its slug before.         *)
BeginAttach(c, x, r) ==
  /\ below[x] = None /\ r \in Live
  /\ \A e \in Client : req[e].op = "attach" => req[e].item # x
  /\ Begin(c, [Idle EXCEPT !.op = "attach", !.pc = "attach", !.item = x, !.src = r])

Attach(c) ==
  LET q == req[c] IN
  /\ At(c, "attach")
  /\ slug[q.src] # None
  /\ q.item \in Single => \A y \in Single : below[y] # q.src
  /\ Becomes(c, [Holding(c) EXCEPT !.pc = "commit"])

CommitAttach(c) ==
  LET q == req[c] IN
  /\ q.op = "attach" /\ q.pc = "commit"
  /\ below' = [below EXCEPT ![q.item] = q.src]
  /\ req' = [req EXCEPT ![c] = Idle]
  /\ UNCHANGED <<slug, link, at, name, on, count>>

(* delete_restaurant: the row, then what cascades.                          *)
BeginDelete(c, r) ==
  /\ r \in Live
  /\ Begin(c, [Idle EXCEPT !.op = "delete", !.pc = "erase", !.src = r])

Erase(c) ==
  /\ At(c, "erase")
  /\ slug[req[c].src] # None
  /\ Becomes(c, [Holding(c) EXCEPT !.pc = "cascade"])

Cascade(c) ==
  /\ At(c, "cascade")
  /\ Becomes(c, [Holding(c) EXCEPT !.pc = "commit"])

CommitDelete(c) ==
  LET r == req[c].src IN
  /\ req[c].op = "delete" /\ req[c].pc = "commit"
  /\ slug' = [slug EXCEPT ![r] = None]
  /\ link' = [x \in Slug |-> IF link[x] = r THEN None ELSE link[x]]
  /\ at' = [d \in Dish |-> IF at[d] = r THEN None ELSE at[d]]
  /\ on' = [v \in Review |-> IF on[v] \in DishesOf(r) THEN None ELSE on[v]]
  /\ below' = [x \in Row |-> IF below[x] = r THEN None ELSE below[x]]
  /\ req' = [req EXCEPT ![c] = Idle]
  /\ UNCHANGED <<name, count>>

(* create_restaurant and update_restaurant: a slug that no restaurant has;  *)
(* a link may have it.                                                      *)
TakeSlug(r, x) ==
  /\ count < MaxRequests
  /\ \A s \in Restaurant : slug[s] # x
  /\ \A e \in Client : r \notin req[e].own \cup req[e].share
  /\ slug[r] = None => \A e \in Client : r \notin {req[e].src, req[e].dst}
  /\ slug' = [slug EXCEPT ![r] = x]
  /\ count' = count + 1
  /\ UNCHANGED <<link, at, name, on, below, req>>

(* The request raises, or is the victim of a deadlock: get_db rolls back.   *)
Abort(c) ==
  /\ req[c] # Idle
  /\ Becomes(c, Idle)

Next ==
  \/ \E c \in Client :
       \/ \E s, t \in Restaurant : \E first \in {s, t} : BeginMerge(c, s, t, first)
       \/ Lock(c) \/ Remap(c) \/ Drop(c) \/ Shift(c) \/ MoveRows(c) \/ Repoint(c)
       \/ Redirect(c) \/ DeleteSource(c) \/ Recompute(c) \/ CommitMerge(c)
       \/ \E v \in Review, d \in Dish : BeginReview(c, v, d)
       \/ Insert(c) \/ Rate(c) \/ CommitReview(c)
       \/ \E d \in Dish, n \in Name : BeginRename(c, d, n)
       \/ Rename(c) \/ CommitRename(c)
       \/ \E x \in Row, r \in Restaurant : BeginAttach(c, x, r)
       \/ Attach(c) \/ CommitAttach(c)
       \/ \E r \in Restaurant : BeginDelete(c, r)
       \/ Erase(c) \/ Cascade(c) \/ CommitDelete(c)
       \/ Abort(c)
  \/ \E r \in Restaurant, x \in Slug : TakeSlug(r, x)

Spec == Init /\ [][Next]_vars

------------------------------------------------------------------------------
(* The requests that a step commits, by what they are.                      *)
Committing(op) ==
  {c \in Client : req[c].op = op /\ req[c].pc = "commit" /\ req'[c] = Idle /\ rows' # rows}

(* GET /api/restaurants/{slug}: the restaurant of that slug, or else the    *)
(* one it links to.                                                         *)
Resolve(x) ==
  IF \E r \in Live : slug[r] = x THEN CHOOSE r \in Live : slug[r] = x ELSE link[x]

(* "old links keep working after an admin merges two duplicate              *)
(* restaurants": what a link leads to is left by it only when that is       *)
(* deleted, or changes its slug; or when it is merged, and then the link    *)
(* leads to the target, at once, however many merges came before and        *)
(* whoever has had the slug.  A restaurant that takes the slug shadows it.  *)
LinksFollow ==
  [][\A x \in Slug :
       LET r == Resolve(x)  s == Resolve(x)' IN
       r # None /\ s # r =>
         \/ \E c \in Committing("merge") : r = req[c].src /\ s = req[c].dst
         \/ \E c \in Committing("delete") : r = req[c].src
         \/ slug[r] = x /\ slug'[r] \notin {x, None}
         \/ s # None /\ slug'[s] = x /\ slug[s] # x]_vars

(* A merge loses no review, but for those of a colliding dish, if a dish    *)
(* with the name of the two was touched after the reviews were moved and    *)
(* before the dish was deleted: on either side renamed into the collision,  *)
(* or reviewed by a request that did not have to write the locked           *)
(* restaurant.                                                              *)
ReviewsKept ==
  [][\A v \in Review :
       on[v] # None /\ on'[v] = None =>
         \/ Committing("delete") # {}
         \/ \E c \in Committing("merge") : name[on[v]] \in req[c].touched]_vars

(* Nor a row of the kinds it moves, however late it was inserted, but for   *)
(* the one that the target has already.                                     *)
RowsKept ==
  [][\A x \in Single \cup Plain :
       below[x] # None /\ below'[x] = None =>
         \/ Committing("delete") # {}
         \/ \E c \in Committing("merge") :
              x \in Single /\ \E y \in Single : below[y] = req[c].dst]_vars

(* Both: what a merge may lose.                                             *)
NothingLost == ReviewsKept /\ RowsKept

(* Merges that wait for each other in a circle, at another statement than   *)
(* the one that writes the link of the source's slug.                       *)
MergeCircle(S) ==
  /\ S # {}
  /\ \A c \in S : req[c].op = "merge" /\ req[c].pc # "redirect" /\ WaitsFor(c) \cap S # {}

(* "Order by uuid to avoid deadlocks if two merges race": there are no such *)
(* circles.  Nothing orders the locks by uuid, and there are.               *)
MergesDoNotDeadlock == \A S \in SUBSET Client : ~ MergeCircle(S)

(* But a circle has merges that lock their restaurants in orders which no   *)
(* one order of the restaurants agrees with: what a merge locks after its   *)
(* restaurants (reviews, dishes, names of the index, links) never closes a  *)
(* circle of merges, and an ORDER BY would leave none.                      *)
OneOrderNoDeadlock ==
  \A S \in SUBSET Client :
    MergeCircle(S) =>
      ~ \E rank \in [Restaurant -> 1 .. Cardinality(Restaurant)] :
          \A c \in S : Ordered(rank, req[c])

=============================================================================
