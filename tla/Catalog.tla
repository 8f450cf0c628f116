-------------------------------- MODULE Catalog --------------------------------
(***************************************************************************)
(* How restaurants and dishes come to be: a post finds or creates them,     *)
(* critics and admins create them (app/routers/posts.py, restaurants.py,    *)
(* dishes.py, app/services/restaurant_service.py, dish_service.py, alembic  *)
(* 018, 020).                                                               *)
(*                                                                          *)
(* It is about the restaurants that have one name, hence one base slug, and *)
(* one dish of each.  A request is one READ COMMITTED transaction: it reads *)
(* what is committed, statement by statement.                               *)
(***************************************************************************)
EXTENDS Naturals, FiniteSets

CONSTANTS
  Place,     \* ids of Google Places
  Spot,      \* ids of restaurants
  None,      \* no place or restaurant
  Poster     \* requests in flight at the same time

ASSUME CatalogAssumption == None \notin Place \cup Spot

VARIABLES
  elsewhere,  \* a restaurant of another name has the base slug
  spot,       \* rows of restaurants, each with its dish
  post        \* the requests

catalogVars == <<elsewhere, spot, post>>

Slug == {"base", "random"}
NoSpot == [there |-> FALSE, place |-> None, slug |-> "base", served |-> FALSE]
SpotRow == [there : BOOLEAN, place : Place \cup {None}, slug : Slug, served : BOOLEAN]

(* A request: its place, the dish id it came with (as its restaurant), the  *)
(* restaurant, the slug it tries, what it inserts; and, a history, whether  *)
(* another one has committed since it began.                                *)
Free == [op |-> "none", pc |-> "free", place |-> None, chosen |-> None, spot |-> None,
         slug |-> "base", adds |-> {}, crossed |-> FALSE]

PostRecord ==
  [op : {"none", "post", "create", "dish", "update", "erase"},
   pc : {"free", "find", "slug", "insert", "dish", "serve", "write", "commit"},
   place : Place \cup {None}, chosen : Spot \cup {None}, spot : Spot \cup {None},
   slug : Slug, adds : SUBSET {"spot", "dish"}, crossed : BOOLEAN]

CatalogTypeOK ==
  /\ elsewhere \in BOOLEAN
  /\ spot \in [Spot -> SpotRow]
  /\ post \in [Poster -> PostRecord]

CatalogInit ==
  /\ elsewhere \in BOOLEAN
  /\ spot = [r \in Spot |-> NoSpot]
  /\ post = [c \in Poster |-> Free]

------------------------------------------------------------------------------
PostIs(c, q) == post' = [post EXCEPT ![c] = q] /\ UNCHANGED <<elsewhere, spot>>
PostAt(c, pc) == post[c].pc = pc
Rival(c) == {post[e] : e \in Poster \ {c}}
StartPost(c, q) == PostAt(c, "free") /\ PostIs(c, q)

Standing == {r \in Spot : spot[r].there}

(* find_restaurant_by_place_id.                                             *)
AtPlace(p) == {r \in Standing : p # None /\ spot[r].place = p}
TheSpot(s) == CHOOSE r \in s : TRUE

(* Ids are random: one that nobody has drawn stands for all of them.        *)
NewSpot ==
  LET new == {r \in Spot \ Standing : \A e \in Poster : post[e].spot # r} IN
  {r \in new : r = CHOOSE s \in new : TRUE}

------------------------------------------------------------------------------
(* create_post: with a place, or, None, with a name only.                   *)
CreatePost(c, p, chosen) ==
  /\ chosen # None => spot[chosen].served
  /\ StartPost(c, [Free EXCEPT !.op = "post", !.pc = "find", !.place = p, !.chosen = chosen])

CreateRestaurant(c, p) ==
  StartPost(c, [Free EXCEPT !.op = "create", !.pc = "find", !.place = p])

(* _find_or_create_restaurant_from_place.                                   *)
FindByPlace(c) ==
  LET q == post[c] found == AtPlace(q.place) IN
  /\ PostAt(c, "find") /\ q.op = "post" /\ q.place # None
  /\ PostIs(c, IF found = {} THEN [q EXCEPT !.pc = "slug"]
               ELSE [q EXCEPT !.pc = "dish", !.spot = TheSpot(found)])

(* _find_or_create_restaurant_by_name.  Two restaurants of the name, say of *)
(* one chain, make the query raise.                                         *)
FindByName(c) ==
  LET q == post[c] IN
  /\ PostAt(c, "find") /\ q.op = "post" /\ q.place = None
  /\ PostIs(c, CASE Standing = {} -> [q EXCEPT !.pc = "slug"]
                 [] Cardinality(Standing) = 1 -> [q EXCEPT !.pc = "dish", !.spot = TheSpot(Standing)]
                 [] OTHER -> Free)

(* create_restaurant answers with the one that has the place.               *)
LookBeforeInsert(c) ==
  LET q == post[c] IN
  /\ PostAt(c, "find") /\ q.op = "create"
  /\ PostIs(c, IF AtPlace(q.place) # {} THEN Free ELSE [q EXCEPT !.pc = "insert"])

BaseIsTaken == elsewhere \/ \E r \in Standing : spot[r].slug = "base"

(* _unique_slug_for.                                                        *)
UniqueSlugFor(c) ==
  /\ PostAt(c, "slug")
  /\ PostIs(c, [post[c] EXCEPT !.pc = "insert",
                               !.slug = IF BaseIsTaken THEN "random" ELSE "base"])

(* An insert or update waits for one that is not committed.                 *)
InsertWaits(c) ==
  \E e \in Rival(c) :
    /\ "spot" \in e.adds \/ (e.op = "update" /\ e.pc = "commit")
    /\ \/ e.place = post[c].place /\ e.place # None
       \/ e.slug = "base" /\ post[c].slug = "base"

(* Mutant of Clashes: no index on the place.                                *)
ClashesBySlug(q) == q.slug = "base" /\ BaseIsTaken

(* The unique indexes on the place and on the slug.                         *)
Clashes(q) == AtPlace(q.place) # {} \/ (q.slug = "base" /\ BaseIsTaken)

(* A post fails; create_restaurant rolls back, looks for the place again,   *)
(* and else goes on with another slug.                                      *)
OnClash(q) ==
  IF q.op = "post" \/ AtPlace(q.place) # {} THEN Free ELSE [q EXCEPT !.slug = "random"]

WithSpot(q, r) ==
  [q EXCEPT !.spot = r, !.adds = {"spot"}, !.pc = IF q.op = "post" THEN "dish" ELSE "commit"]

InsertSpot(c) ==
  /\ PostAt(c, "insert") /\ ~InsertWaits(c)
  /\ IF Clashes(post[c]) THEN PostIs(c, OnClash(post[c]))
     ELSE \E r \in NewSpot : PostIs(c, WithSpot(post[c], r))

------------------------------------------------------------------------------
IsThere(q) == "spot" \in q.adds \/ spot[q.spot].there
IsServed(q) == "dish" \in q.adds \/ spot[q.spot].served

(* _resolve_dish: a dish id that is gone answers 404, that of another       *)
(* restaurant 400; a restaurant that is gone has none.                      *)
ResolveDish(c) ==
  LET q == post[c] IN
  /\ PostAt(c, "dish")
  /\ PostIs(c, IF q.chosen # None /\ (q.chosen # q.spot \/ ~IsServed(q)) THEN Free
               ELSE [q EXCEPT !.pc = IF IsServed(q) THEN "write" ELSE "serve"])

(* create_dish does not look.                                               *)
CreateDish(c, r) ==
  /\ r \in Standing
  /\ StartPost(c, [Free EXCEPT !.op = "dish", !.pc = "serve", !.spot = r])

(* The unique index on the normalized names of a restaurant's dishes, and   *)
(* the foreign key, for which a deletion of the restaurant is waited for.   *)
InsertDish(c) ==
  LET q == post[c] IN
  /\ PostAt(c, "serve")
  /\ \A e \in Rival(c) : e.spot = q.spot => "dish" \notin e.adds /\ ~(e.op = "erase" /\ e.pc = "commit")
  /\ PostIs(c, IF ~IsThere(q) \/ IsServed(q) THEN Free
               ELSE [q EXCEPT !.adds = @ \cup {"dish"},
                              !.pc = IF q.op = "post" THEN "write" ELSE "commit"])

(* The review, the ratings of the dish and the restaurant: the post waits   *)
(* for whoever has written the restaurant.                                  *)
WritePost(c) ==
  LET q == post[c] IN
  /\ PostAt(c, "write") /\ q.op = "post"
  /\ \A e \in Rival(c) : ~(e.pc = "commit" /\ e.spot = q.spot)
  /\ PostIs(c, IF IsThere(q) /\ IsServed(q) THEN [q EXCEPT !.pc = "commit"] ELSE Free)

(* update_restaurant with another slug or place: 409 if it is taken.        *)
UpdateRestaurant(c, r, s, p) ==
  /\ r \in Standing /\ (p = None => spot[r].place = None)
  /\ StartPost(c, [Free EXCEPT !.op = "update", !.pc = "write", !.spot = r,
                               !.slug = s, !.place = p])

WriteRestaurant(c) ==
  LET q == post[c] IN
  /\ PostAt(c, "write") /\ q.op = "update" /\ ~InsertWaits(c)
  /\ \A e \in Rival(c) : ~(e.pc = "commit" /\ e.spot = q.spot)
  /\ PostIs(c, IF \/ ~IsThere(q)
                  \/ q.slug = "base" /\ spot[q.spot].slug # "base" /\ BaseIsTaken
                  \/ AtPlace(q.place) \ {q.spot} # {}
               THEN Free ELSE [q EXCEPT !.pc = "commit"])

(* delete_restaurant, and, chosen, delete_dish: they wait for whoever       *)
(* refers to what they delete.                                              *)
Erase(c, r, dish) ==
  /\ r \in Standing /\ (dish # None => dish = r /\ spot[r].served)
  /\ StartPost(c, [Free EXCEPT !.op = "erase", !.pc = "write", !.spot = r, !.chosen = dish])

WriteErase(c) ==
  LET q == post[c] IN
  /\ PostAt(c, "write") /\ q.op = "erase"
  /\ \A e \in Rival(c) : e.spot = q.spot => e.pc # "commit" /\ e.adds = {}
  /\ PostIs(c, IF IsThere(q) THEN [q EXCEPT !.pc = "commit"] ELSE Free)

------------------------------------------------------------------------------
(* The row of its restaurant, which was old, after the commit of q.         *)
Stored(q, old) ==
  CASE q.op = "erase" -> IF q.chosen = None THEN NoSpot ELSE [old EXCEPT !.served = FALSE]
    [] q.op = "update" -> [old EXCEPT !.slug = q.slug, !.place = q.place]
    [] "spot" \in q.adds -> [there |-> TRUE, place |-> q.place, slug |-> q.slug,
                             served |-> "dish" \in q.adds]
    [] OTHER -> [old EXCEPT !.served = TRUE]

CommitPost(c) ==
  LET q == post[c] IN
  /\ PostAt(c, "commit")
  /\ spot' = [spot EXCEPT ![q.spot] = Stored(q, spot[q.spot])]
  /\ post' = [e \in Poster |-> IF e = c THEN Free
                               ELSE [post[e] EXCEPT !.crossed = ~PostAt(e, "free")]]
  /\ UNCHANGED elsewhere

(* The connection drops, a statement fails, the process dies: a rollback.   *)
AbortPost(c) == ~PostAt(c, "free") /\ PostIs(c, Free)

CatalogNext ==
  \E c \in Poster :
    \/ \E p \in Place \cup {None} :
         \/ \E chosen \in Spot \cup {None} : CreatePost(c, p, chosen)
         \/ CreateRestaurant(c, p)
    \/ FindByPlace(c) \/ FindByName(c) \/ LookBeforeInsert(c)
    \/ UniqueSlugFor(c) \/ InsertSpot(c)
    \/ ResolveDish(c) \/ InsertDish(c) \/ WritePost(c)
    \/ \E r \in Spot :
         \/ CreateDish(c, r)
         \/ \E s \in Slug, p \in Place \cup {None} : UpdateRestaurant(c, r, s, p)
         \/ \E dish \in Spot \cup {None} : Erase(c, r, dish)
    \/ WriteRestaurant(c) \/ WriteErase(c)
    \/ CommitPost(c) \/ AbortPost(c)

CatalogSpec == CatalogInit /\ [][CatalogNext]_catalogVars

------------------------------------------------------------------------------
(* However posts and creations race, a place has one restaurant, the base   *)
(* slug is of one, and a creation that met another one of its place does    *)
(* not go on with a new slug.  A post lands on a dish; and, unless another  *)
(* request committed in between, at the place it named, and one that had a  *)
(* name only adds no restaurant where there is one of that name             *)
(* (posts.py:101, posts.py:148, restaurants.py:271).                        *)
CatalogHolds ==
  [][/\ \A p \in Place : Cardinality(AtPlace(p)') <= 1
     /\ Cardinality({r \in Standing' : spot'[r].slug = "base"}) + (IF elsewhere THEN 1 ELSE 0) <= 1
     /\ \A c \in Poster :
          LET q == post[c] IN
          /\ post'[c].slug = "random" /\ q.slug = "base" /\ q.op = "create" => AtPlace(q.place) = {}
          /\ PostAt(c, "commit") /\ PostAt(c, "free")' /\ spot' # spot /\ q.op = "post" =>
               /\ spot'[q.spot].served
               /\ q.crossed \/ q.place \in {None, spot'[q.spot].place}
               /\ q.place = None /\ "spot" \in q.adds => q.crossed \/ Standing = {}
    ]_catalogVars

=============================================================================
