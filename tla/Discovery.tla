------------------------------- MODULE Discovery -------------------------------
(***************************************************************************)
(* The duel of dishes and the map (app/services/discovery_service.py).  A   *)
(* selector offers the roots and families of dishes that can be fought      *)
(* over, and a later request fights; the map asks for the restaurants with  *)
(* reviews, then, in another statement, for those without.  Others review,  *)
(* merge, rename, recategorise and relocate in between (READ COMMITTED).    *)
(*                                                                          *)
(* Scores order the rows; any order is allowed here.                        *)
(***************************************************************************)
EXTENDS Naturals, FiniteSets

CONSTANTS
  Course,  \* dishes
  Eatery,   \* restaurants
  Root,    \* normalised names of dishes, all of one family
  NoRoot,  \* the root of a dish whose name gives none
  MapLimit \* restaurants on a map, at most

ASSUME DiscoveryAssumption ==
  NoRoot \notin Root /\ MapLimit \in Nat \ {0} /\ IsFiniteSet(Eatery) /\ IsFiniteSet(Course)

VARIABLES
  servedAt, \* the restaurant of each dish
  root,     \* its root
  tasted,   \* the dishes with a review
  fancy,    \* the restaurants of the category that is asked for
  inBox,    \* the restaurants with coordinates inside the box
  seeker    \* the request: what it asks, what it found, what was committed since

discoveryVars == <<servedAt, root, tasted, fancy, inBox, seeker>>

(* Histories of a seeker: has something been committed since the offer, and *)
(* which restaurants got or lost reviews or place since the first statement. *)
NoSeeker == [op |-> "none", tags |-> {}, picky |-> FALSE, near |-> {}, limit |-> 1, complete |-> FALSE,
             rows |-> {}, bare |-> {}, offered |-> FALSE, stirred |-> FALSE, shifted |-> {},
             reason |-> "none"]

DiscoveryTypeOK ==
  /\ servedAt \in [Course -> Eatery] /\ root \in [Course -> Root \cup {NoRoot}]
  /\ tasted \subseteq Course /\ fancy \subseteq Eatery /\ inBox \subseteq Eatery
  /\ seeker.op \in {"none", "offer", "why", "fought", "fill", "mapped"}
  /\ seeker.tags \subseteq Root /\ seeker.near \subseteq Eatery /\ seeker.limit \in 1 .. MapLimit
  /\ seeker.rows \subseteq Course \cup Eatery /\ seeker.bare \subseteq Eatery
  /\ seeker.reason \in {"none", "not_found", "unique_restaurant"}

DiscoveryInit ==
  /\ servedAt \in [Course -> Eatery] /\ root \in [Course -> Root \cup {NoRoot}]
  /\ tasted = {} /\ fancy = {} /\ inBox = Eatery /\ seeker = NoSeeker

Offers(tags, picky, offered) ==
  /\ seeker.op = "none"
  /\ seeker' = [seeker EXCEPT !.op = "offer", !.tags = tags, !.picky = picky, !.offered = offered]
Finds(op, rows, reason) == seeker' = [seeker EXCEPT !.op = op, !.rows = rows, !.reason = reason]
Catalogue == <<servedAt, root, tasted, fancy, inBox>>

(* The dishes with a review, in the category if one is asked for.           *)
DiscoverDishes(picky) == {d \in tasted : picky => servedAt[d] \in fancy}

(* Those whose root is asked for; a family asks for all its roots.          *)
Contenders(tags, picky) == {d \in DiscoverDishes(picky) : root[d] \in tags}
VenuesOf(dishes) == {servedAt[d] : d \in dishes}

(* Mutant of Rivalry: the contenders are counted, not their restaurants.    *)
RivalryOfDishes(tags, picky) == Cardinality(Contenders(tags, picky)) >= 2

(* A root or a family is offered with dishes of two restaurants.            *)
Rivalry(tags, picky) == Cardinality(VenuesOf(Contenders(tags, picky))) >= 2

PopularDishRoots(r, picky) ==
  /\ Rivalry({r}, picky) /\ Offers({r}, picky, TRUE)
  /\ UNCHANGED Catalogue

PopularDishFamilies(picky) ==
  /\ Rivalry(Root, picky) /\ Offers(Root, picky, TRUE)
  /\ UNCHANGED Catalogue

(* A duel is asked for by hand, too.                                        *)
AskForDuel(tags, picky) == Offers(tags, picky, FALSE) /\ UNCHANGED Catalogue

(* The best dish of each restaurant, and the best two of those.  A request  *)
(* may name a place and a radius, which no offer knows of: near are the     *)
(* restaurants within it, all of them when it names none.                   *)
DuelDishes(pair, near) ==
  /\ seeker.op = "offer"
  /\ LET able == {d \in Contenders(seeker.tags, seeker.picky) : servedAt[d] \in near} IN
       /\ pair \subseteq able
       /\ Cardinality(VenuesOf(pair)) = Cardinality(pair)
       /\ Cardinality(pair) = IF Cardinality(VenuesOf(able)) >= 2 THEN 2 ELSE 0
  /\ seeker' = [seeker EXCEPT !.op = IF pair = {} THEN "why" ELSE "fought",
                              !.rows = pair, !.near = near]
  /\ UNCHANGED Catalogue

(* Without two, a second statement asks whether any dish has the root, be it *)
(* reviewed, near, of the category or not.                                  *)
WhyNot ==
  /\ seeker.op = "why"
  /\ Finds("fought", {}, IF \E d \in Course : root[d] \in seeker.tags
                         THEN "unique_restaurant" ELSE "not_found")
  /\ UNCHANGED Catalogue

(* A client of the first version sends a category, and maybe a radius.      *)
LegacyDuel(pair, near) ==
  /\ seeker.op = "none"
  /\ LET able == {d \in DiscoverDishes(TRUE) : servedAt[d] \in near} IN
       /\ pair \subseteq able
       /\ Cardinality(pair) = IF Cardinality(able) >= 2 THEN 2 ELSE Cardinality(able)
  /\ Finds("fought", pair, IF Cardinality(pair) = 2 THEN "none" ELSE "not_found")
  /\ UNCHANGED Catalogue

(* The map: restaurants in the box with a reviewed dish, up to the limit    *)
(* (chef_only, which shows those with a badge and no empty ones, apart).    *)
DiscoverRestaurantsInBbox(rows, limit, empty) ==
  /\ seeker.op = "none"
  /\ LET able == VenuesOf(tasted) \cap inBox IN
       /\ rows \subseteq able
       /\ Cardinality(rows) = IF Cardinality(able) < limit THEN Cardinality(able) ELSE limit
  /\ seeker' = [seeker EXCEPT !.op = IF empty /\ Cardinality(rows) < limit THEN "fill" ELSE "mapped",
                              !.rows = rows, !.limit = limit, !.complete = empty]
  /\ UNCHANGED Catalogue

(* Those without any review fill what is left of the limit.                 *)
FetchEmptyRestaurants(bare) ==
  /\ seeker.op = "fill"
  /\ LET able == inBox \ VenuesOf(tasted)
         left == seeker.limit - Cardinality(seeker.rows) IN
       /\ bare \subseteq able
       /\ Cardinality(bare) = IF Cardinality(able) < left THEN Cardinality(able) ELSE left
  /\ seeker' = [seeker EXCEPT !.op = "mapped", !.bare = bare]
  /\ UNCHANGED Catalogue

Serve ==
  /\ seeker.op \in {"fought", "mapped"}
  /\ seeker' = NoSeeker /\ UNCHANGED Catalogue

(* Another request commits.                                                 *)
Stir(venues) ==
  seeker' = IF seeker.op = "none" THEN seeker
            ELSE [seeker EXCEPT !.stirred = TRUE,
                                !.shifted = IF seeker.op = "fill" THEN @ \cup venues ELSE @]

Review(d) ==
  /\ tasted' = IF d \in tasted THEN tasted \ {d} ELSE tasted \cup {d}
  /\ Stir({servedAt[d]}) /\ UNCHANGED <<servedAt, root, fancy, inBox>>

MoveDish(d, v) ==
  /\ v # servedAt[d] /\ servedAt' = [servedAt EXCEPT ![d] = v]
  /\ Stir({v, servedAt[d]}) /\ UNCHANGED <<root, tasted, fancy, inBox>>

RenameDish(d, r) ==
  /\ r # root[d] /\ root' = [root EXCEPT ![d] = r]
  /\ Stir({}) /\ UNCHANGED <<servedAt, tasted, fancy, inBox>>

Recategorize(v) ==
  /\ fancy' = IF v \in fancy THEN fancy \ {v} ELSE fancy \cup {v}
  /\ Stir({}) /\ UNCHANGED <<servedAt, root, tasted, inBox>>

Relocate(v) ==
  /\ inBox' = IF v \in inBox THEN inBox \ {v} ELSE inBox \cup {v}
  /\ Stir({v}) /\ UNCHANGED <<servedAt, root, tasted, fancy>>

Tags == {{r} : r \in Root} \cup {Root}

DuelNext ==
  \/ \E picky \in BOOLEAN :
       \/ \E r \in Root : PopularDishRoots(r, picky)
       \/ PopularDishFamilies(picky)
       \/ \E tags \in Tags : AskForDuel(tags, picky)
  \/ \E pair \in SUBSET Course, near \in SUBSET Eatery : DuelDishes(pair, near) \/ LegacyDuel(pair, near)
  \/ WhyNot \/ Serve
  \/ \E d \in Course :
       \/ Review(d) \/ \E v \in Eatery : MoveDish(d, v)
       \/ \E r \in Root \cup {NoRoot} : RenameDish(d, r)
  \/ \E v \in Eatery : Recategorize(v)

MapNext ==
  \/ \E rows \in SUBSET Eatery :
       \/ \E limit \in 1 .. MapLimit, empty \in BOOLEAN :
            DiscoverRestaurantsInBbox(rows, limit, empty)
       \/ FetchEmptyRestaurants(rows)
  \/ Serve
  \/ \E d \in Course : Review(d) \/ \E v \in Eatery : MoveDish(d, v)
  \/ \E v \in Eatery : Relocate(v)

DiscoverySpec == DiscoveryInit /\ [][DuelNext \/ MapNext]_discoveryVars

(***************************************************************************)
(* Properties                                                              *)
(***************************************************************************)
(* A root or family that was offered gives a duel of two restaurants, if    *)
(* nothing was committed since and no radius leaves a restaurant out; with  *)
(* one that does, the answer is two restaurants or that all dishes are of   *)
(* one, never that there is no such dish.                                   *)
OfferedIsFought ==
  seeker.op = "fought" /\ seeker.offered /\ ~seeker.stirred =>
    /\ seeker.near = Eatery => Cardinality(VenuesOf(seeker.rows)) = 2
    /\ Cardinality(VenuesOf(seeker.rows)) = 2 \/ seeker.reason = "unique_restaurant"

(* A map that is not truncated shows every restaurant of the box, and none  *)
(* both with and without reviews, but for those that got or lost a review,  *)
(* a dish or their place between its two statements.                        *)
MapIsWhole ==
  seeker.op = "mapped" /\ seeker.complete =>
    /\ seeker.rows \cap seeker.bare \subseteq seeker.shifted
    /\ Cardinality(seeker.rows) + Cardinality(seeker.bare) < seeker.limit =>
         inBox \ (seeker.rows \cup seeker.bare) \subseteq seeker.shifted

(* Of what is answered, at the moment it is answered.                       *)
DiscoveryHolds ==
  [][seeker'.op # seeker.op => OfferedIsFought' /\ MapIsWhole']_discoveryVars
===============================================================================
