------------------------- MODULE RestaurantMergeProofs -------------------------
(***************************************************************************)
(* Results about RestaurantMerge, for any number of requests, restaurants   *)
(* and rows below them.  They rest on what a request that holds its locks   *)
(* can rely on: of the rows that two requests both need, one of the two     *)
(* gets the lock first, and what it has read of them stays so.              *)
(***************************************************************************)
EXTENDS RestaurantMerge, FiniteSetTheorems, WellFoundedInduction, TLAPS

MergePC == {"lock", "remap", "drop", "shift", "rows", "repoint", "redirect", "delete",
            "recompute", "commit"}

Fields ==
  {"op", "pc", "src", "dst", "item", "new", "own", "share", "remapped", "twin",
   "dropped", "shifted", "moved", "links", "touched"}

(* What a request is about, and where it can be.                            *)
Shape(c) ==
  LET q == req[c] IN
  /\ DOMAIN q = Fields
  /\ q.op \in {"none", "merge", "review", "rename", "attach", "delete"}
  /\ q.op = "none" => q = Idle
  /\ q.op = "merge" => /\ q.pc \in MergePC /\ q.src \in Restaurant /\ q.dst \in Restaurant
                       /\ q.src # q.dst
                       /\ q.pc = "lock" => q.item \in {q.src, q.dst}
  /\ q.op = "review" => /\ q.pc \in {"insert", "rate", "commit"}
                        /\ q.item \in Dish /\ q.new \in Review
  /\ q.op = "rename" => q.pc \in {"rename", "commit"} /\ q.item \in Dish /\ q.new \in Name
  /\ q.op = "attach" => q.pc \in {"attach", "commit"} /\ q.item \in Row /\ q.src \in Restaurant
  /\ q.op = "delete" => q.pc \in {"erase", "cascade", "commit"} /\ q.src \in Restaurant
  /\ q.op # "merge" => q.shifted = {}

(* Who holds a row alone.                                                   *)
LocksApart ==
  /\ \A c, e \in Client : c # e => req[c].own \cap (req[e].own \cup req[e].share) = {}
  /\ \A c \in Client : None \notin req[c].own

(* The index entries that are not committed are not each other's.           *)
EntriesApart ==
  \A c, e \in Client : c # e => Entries(c) \cap Entries(e) = {}

(* Nor are the rows that requests insert, or the menus.                     *)
ItemsApart ==
  \A c, e \in Client : c # e =>
    /\ req[c].op = "review" /\ req[e].op = "review" => req[c].new # req[e].new
    /\ req[c].op = "attach" /\ req[e].op = "attach" =>
         /\ req[c].item # req[e].item
         /\ /\ req[c].pc = "commit" /\ req[e].pc = "commit"
            /\ req[c].item \in Single /\ req[e].item \in Single
            => req[c].src # req[e].src

(* A merge: the locks it has, and no others; and what it goes by.           *)
Locked(q) == q.pc \in MergePC \ {"lock"}
Dropped(q) == q.pc \in MergePC \ {"lock", "remap", "drop"}
Shifted(q) == q.pc \in MergePC \ {"lock", "remap", "drop", "shift"}
Moved(q) == Shifted(q) /\ q.pc # "rows"
Linked(q) == q.pc \in {"redirect", "delete", "recompute", "commit"}
Redirected(q) == q.pc \in {"delete", "recompute", "commit"}

MergeLocks(c) ==
  LET q == req[c] IN
  /\ q.pc = "lock" => q.own \subseteq {q.item} /\ q.own \subseteq Live /\ q.share = {}
  /\ Locked(q) => {q.src, q.dst} \subseteq q.own /\ {q.src, q.dst} \subseteq Live
  /\ q.own \subseteq {q.src, q.dst} \cup DishesOf(q.src) \cup Review \cup Slug
  /\ \A v \in q.own \cap Review : on[v] \in DishesOf(q.src)
  /\ \A x \in q.own \cap Slug :
       /\ Linked(q)
       /\ link[x] = q.src \/ (Redirected(q) /\ x = slug[q.src])
  /\ q.share \subseteq DishesOf(q.dst)

MergeDishes(c) ==
  LET q == req[c] IN
  /\ \A p \in q.remapped : p[1] \in q.own \cap Review /\ p[2] \in DishesOf(q.dst) \cap q.share
  /\ q.shifted # {} => Shifted(q)
  /\ Dropped(q) => q.dropped \subseteq DishesOf(q.src) \cap q.own
  /\ Shifted(q) => /\ DishesOf(q.src) = q.dropped \cup q.shifted
                   /\ q.dropped \cap q.shifted = {} /\ q.shifted \subseteq q.own
                   /\ \A d \in q.shifted, e \in DishesOf(q.dst) : name[d] # name[e]

(* The reviews of a colliding dish that it has not moved it has missed.     *)
MergeReviews(c) ==
  LET q == req[c] IN
  \A v \in Review :
    \/ q.pc = "drop" /\ on[v] \in Colliding(q.src, q.dst)
    \/ Dropped(q) /\ on[v] \in q.dropped
    => (\E p \in q.remapped : p[1] = v) \/ name[on[v]] \in q.touched

MergeRows(c) ==
  LET q == req[c] IN
  Moved(q) =>
    /\ q.moved \subseteq {x \in Single \cup Plain : below[x] = q.src}
    /\ q.moved \cap Single # {} => \A y \in Single : below[y] # q.dst
    /\ \A x \in (Single \cup Plain) \ q.moved :
         below[x] = q.src => x \in Single /\ \E y \in Single : below[y] = q.dst

MergeLinks(c) ==
  LET q == req[c] IN
  /\ Linked(q) => /\ q.links \subseteq q.own \cap Slug
                  /\ \A x \in Slug : link[x] = q.src => x \in q.links
  /\ Redirected(q) => slug[q.src] \in q.links

(* The other requests.                                                      *)
ReviewAt(c) ==
  LET q == req[c] IN
  /\ on[q.new] = None
  /\ q.pc # "insert" => q.item \in q.share /\ at[q.item] # None

RenameAt(c) ==
  LET q == req[c] IN
  q.pc = "commit" =>
    /\ q.item \in q.own /\ at[q.item] # None
    /\ \A e \in DishesOf(at[q.item]) \ {q.item} : name[e] # q.new

AttachAt(c) ==
  LET q == req[c] IN
  /\ below[q.item] = None
  /\ q.pc = "commit" =>
       /\ q.src \in q.share \cap Live
       /\ q.item \in Single => \A y \in Single : below[y] # q.src

DeleteAt(c) ==
  LET q == req[c] IN
  /\ q.pc # "erase" => q.src \in q.own \cap Live
  /\ q.pc = "commit" => DishesOf(q.src) \cup {x \in Slug : link[x] = q.src} \subseteq q.own

Held(c) ==
  /\ req[c].op = "merge" =>
       /\ MergeLocks(c) /\ MergeDishes(c) /\ MergeReviews(c) /\ MergeRows(c) /\ MergeLinks(c)
  /\ req[c].op = "review" => ReviewAt(c)
  /\ req[c].op = "rename" => RenameAt(c)
  /\ req[c].op = "attach" => AttachAt(c)
  /\ req[c].op = "delete" => DeleteAt(c)

MergeInv ==
  /\ MergeTypeOK
  /\ req = [c \in Client |-> req[c]] /\ \A c \in Client : Shape(c) /\ Held(c)
  /\ LocksApart /\ EntriesApart /\ ItemsApart

------------------------------------------------------------------------------
(* Somebody else commits, or a slug is taken: what a request relies on, of  *)
(* the rows that it has locked and of those that it will insert.            *)
Rely(e) ==
  LET q == req[e] IN
  /\ \A r \in Restaurant : slug'[r] # slug[r] => r \notin q.own \cup q.share
  /\ \A x \in Slug :
       link'[x] # link[x] => x \notin q.own /\ link'[x] \notin q.own
  /\ \A d \in Dish :
       at'[d] # at[d] =>
         /\ d \notin q.own \cup q.share /\ at[d] \notin q.own /\ at'[d] \notin q.own
         /\ <<at'[d], name'[d]>> \notin Entries(e)
  /\ \A d \in Dish :
       name'[d] # name[d] =>
         /\ d \notin q.own \cup q.share /\ at'[d] = at[d]
         /\ <<at[d], name'[d]>> \notin Entries(e)
         /\ q.pc = "drop" => name'[d] \in req'[e].touched
  /\ \A v \in Review :
       on'[v] # on[v] =>
         /\ q.op = "merge" => v \notin q.own /\ on'[v] \notin q.own
         /\ q.op = "review" => v # q.new
         /\ \/ on'[v] = None
            \/ on'[v] \in Dish /\ at[on'[v]] \notin q.own
            \/ q.pc = "drop" => name'[on'[v]] \in req'[e].touched
  /\ \A x \in Row :
       below'[x] # below[x] =>
         /\ below[x] \notin q.own /\ below'[x] \notin q.own
         /\ q.op = "attach" => x # q.item
         /\ q.op = "attach" /\ q.pc = "commit" /\ q.item \in Single /\ x \in Single =>
              below'[x] # q.src

(* Its own record stays as it is, or learns of a name.                      *)
Stays(e) ==
  /\ DOMAIN req'[e] = Fields
  /\ \A f \in Fields \ {"touched"} : req'[e][f] = req[e][f]
  /\ req[e].touched \subseteq req'[e].touched
  /\ req[e].op # "merge" => req'[e] = req[e]

LEMMA StaysSame ==
  ASSUME NEW e \in Client, Stays(e)
  PROVE  /\ req'[e].op = req[e].op /\ req'[e].pc = req[e].pc /\ req'[e].src = req[e].src
         /\ req'[e].dst = req[e].dst /\ req'[e].item = req[e].item /\ req'[e].new = req[e].new
         /\ req'[e].own = req[e].own /\ req'[e].share = req[e].share
         /\ req'[e].remapped = req[e].remapped /\ req'[e].dropped = req[e].dropped
         /\ req'[e].shifted = req[e].shifted /\ req'[e].moved = req[e].moved
         /\ req'[e].links = req[e].links /\ req'[e].twin = req[e].twin
BY DEF Stays, Fields

LEMMA StaysShape ==
  ASSUME NEW e \in Client, Stays(e), Shape(e)
  PROVE  Shape(e)'
BY StaysSame DEF Stays, Shape

(* The dishes of the restaurants that a merge has locked.                   *)
LEMMA RelyDishes ==
  ASSUME NEW e \in Client, Rely(e), NEW r \in req[e].own
  PROVE  DishesOf(r)' = DishesOf(r)
BY DEF Rely, DishesOf

LEMMA RelyLocks ==
  ASSUME MergeTypeOK, NEW e \in Client, Rely(e), Stays(e), Shape(e), req[e].op = "merge",
         MergeLocks(e)
  PROVE  MergeLocks(e)'
<1> USE MergeAssumption
<1>1. /\ slug \in [Restaurant -> Slug \cup {None}]
      /\ req[e].src \in Restaurant /\ req[e].dst \in Restaurant
      /\ req[e].pc \in MergePC /\ (req[e].pc = "lock" => req[e].item \in Restaurant)
  BY DEF MergeTypeOK, Database, Shape
<1>2. ASSUME NEW r \in Restaurant, r \in req[e].own
      PROVE  slug'[r] = slug[r] /\ (r \in Live => r \in Live')
  BY <1>2 DEF Rely, Live
<1>3. CASE req[e].pc = "lock"
  <2>1. req[e].own \subseteq {req[e].item} /\ req[e].own \subseteq Live /\ req[e].share = {}
    BY <1>3 DEF MergeLocks
  <2>2. req[e].own \cap Review = {} /\ req[e].own \cap Slug = {}
    BY <1>1, <1>3, <2>1
  <2>3. req[e].own \subseteq Live'
    BY <1>1, <1>2, <1>3, <2>1
  <2>4. req[e].item \in {req[e].src, req[e].dst}
    BY <1>3 DEF Shape
  <2> QED BY <1>3, <2>1, <2>2, <2>3, <2>4, StaysSame DEF MergeLocks, Locked
<1>4. CASE req[e].pc # "lock"
  <2>1. {req[e].src, req[e].dst} \subseteq req[e].own /\ {req[e].src, req[e].dst} \subseteq Live
    BY <1>1, <1>4 DEF MergeLocks, Locked
  <2>2. DishesOf(req[e].src)' = DishesOf(req[e].src) /\ DishesOf(req[e].dst)' = DishesOf(req[e].dst)
    <3>1. PICK s \in req[e].own, t \in req[e].own :
            s = req[e].src /\ s = req'[e].src /\ t = req[e].dst /\ t = req'[e].dst
      BY <2>1, StaysSame
    <3>2. DishesOf(s)' = DishesOf(s) /\ DishesOf(t)' = DishesOf(t)
      BY RelyDishes
    <3> QED BY <3>1, <3>2
  <2>3. /\ slug'[req[e].src] = slug[req[e].src]
        /\ {req[e].src, req[e].dst} \subseteq Live'
    BY <1>1, <1>2, <2>1
  <2>4. \A v \in req[e].own \cap Review : on'[v] = on[v]
    BY DEF Rely
  <2>5. \A x \in req[e].own \cap Slug : link'[x] = link[x]
    BY DEF Rely
  <2>6. /\ Locked(req[e])' = Locked(req[e]) /\ Linked(req[e])' = Linked(req[e])
        /\ Redirected(req[e])' = Redirected(req[e])
    BY StaysSame DEF Locked, Linked, Redirected
  <2> QED BY <1>4, <2>1, <2>2, <2>3, <2>4, <2>5, <2>6, StaysSame DEF MergeLocks
<1> QED BY <1>3, <1>4

(* What the records of a merge stand for.                                   *)
LEMMA RelySame ==
  ASSUME MergeTypeOK, NEW e \in Client, Rely(e), Stays(e), Shape(e), req[e].op = "merge",
         MergeLocks(e), Locked(req[e])
  PROVE  /\ req[e].src \in req[e].own /\ req[e].dst \in req[e].own
         /\ DishesOf(req[e].src)' = DishesOf(req[e].src)
         /\ DishesOf(req[e].dst)' = DishesOf(req[e].dst)
         /\ slug'[req[e].src] = slug[req[e].src]
<1>1. {req[e].src, req[e].dst} \subseteq req[e].own
  BY DEF MergeLocks
<1>2. PICK s \in req[e].own, t \in req[e].own :
        s = req[e].src /\ s = req'[e].src /\ t = req[e].dst /\ t = req'[e].dst
  BY <1>1, StaysSame
<1>3. DishesOf(s)' = DishesOf(s) /\ DishesOf(t)' = DishesOf(t)
  BY RelyDishes
<1>4. slug'[s] = slug[s]
  BY <1>2 DEF Rely, Shape
<1> QED BY <1>1, <1>2, <1>3, <1>4

LEMMA RelyMergeDishes ==
  ASSUME MergeTypeOK, NEW e \in Client, Rely(e), Stays(e), Shape(e), req[e].op = "merge",
         MergeLocks(e), MergeDishes(e)
  PROVE  MergeDishes(e)'
<1>1. req[e].pc \in MergePC
  BY DEF Shape
<1>2. /\ Locked(req[e])' = Locked(req[e]) /\ Dropped(req[e])' = Dropped(req[e])
      /\ Shifted(req[e])' = Shifted(req[e])
  BY StaysSame DEF Locked, Dropped, Shifted
<1>3. Locked(req[e]) => /\ DishesOf(req[e].src)' = DishesOf(req[e].src)
                        /\ DishesOf(req[e].dst)' = DishesOf(req[e].dst)
  BY RelySame
<1>4. Dropped(req[e]) \/ Shifted(req[e]) => Locked(req[e])
  BY DEF Dropped, Shifted, Locked
<1>5. req[e].remapped # {} => Locked(req[e])
  <2>1. CASE req[e].pc = "lock"
    <3>1. req[e].own \subseteq Live
      BY <2>1 DEF MergeLocks
    <3>2. req[e].own \cap Review = {}
      BY <3>1, MergeAssumption DEF Live
    <3> QED BY <3>2 DEF MergeDishes
  <2>2. CASE req[e].pc # "lock"
    BY <1>1, <2>2 DEF Locked
  <2> QED BY <2>1, <2>2
<1>6. ASSUME Shifted(req[e]), NEW d \in req[e].shifted, NEW x \in DishesOf(req[e].dst)
      PROVE  name'[d] # name'[x]
  <2>1. /\ name[d] # name[x] /\ d \in req[e].own /\ d \in Dish /\ x \in Dish /\ at[x] = req[e].dst
    BY <1>6 DEF MergeDishes, DishesOf
  <2>2. name'[d] = name[d]
    BY <2>1 DEF Rely
  <2>3. <<req[e].dst, name[d]>> \in Entries(e)
    BY <1>6 DEF Entries
  <2>4. name'[x] # name[x] => name'[x] # name[d]
    BY <2>1, <2>3 DEF Rely
  <2> QED BY <2>1, <2>2, <2>4
<1>7. \A p \in req[e].remapped :
        p[1] \in req[e].own \cap Review /\ p[2] \in DishesOf(req[e].dst)' \cap req[e].share
  BY <1>3, <1>5 DEF MergeDishes
<1> QED BY <1>2, <1>3, <1>4, <1>6, <1>7, StaysSame DEF MergeDishes

LEMMA RelyMergeReviews ==
  ASSUME MergeTypeOK, NEW e \in Client, Rely(e), Stays(e), Shape(e), req[e].op = "merge",
         MergeLocks(e), MergeDishes(e), MergeReviews(e)
  PROVE  MergeReviews(e)'
<1> USE MergeAssumption
<1>1. SUFFICES ASSUME NEW v \in Review,
                      \/ req[e].pc = "drop" /\ on'[v] \in Colliding(req[e].src, req[e].dst)'
                      \/ Dropped(req[e]) /\ on'[v] \in req[e].dropped,
                      ~ \E p \in req[e].remapped : p[1] = v
               PROVE  name'[on'[v]] \in req'[e].touched
  BY StaysSame DEF MergeReviews, Dropped
<1>2. CASE Dropped(req[e]) /\ on'[v] \in req[e].dropped
  <2>1. on'[v] \in req[e].own /\ on'[v] \in Dish
    BY <1>2 DEF MergeDishes, DishesOf
  <2>2. on'[v] = on[v] /\ name'[on'[v]] = name[on'[v]]
    BY <2>1 DEF Rely
  <2>3. name[on[v]] \in req[e].touched
    BY <1>1, <1>2, <2>2 DEF MergeReviews
  <2> QED BY <2>2, <2>3 DEF Stays
<1>3. CASE req[e].pc = "drop" /\ on'[v] \in Colliding(req[e].src, req[e].dst)'
  <2>1. /\ req[e].src \in req[e].own
        /\ DishesOf(req[e].src)' = DishesOf(req[e].src)
        /\ DishesOf(req[e].dst)' = DishesOf(req[e].dst)
    BY <1>3, RelySame DEF Locked, MergePC
  <2>2. PICK x \in DishesOf(req[e].dst) :
          /\ on'[v] \in DishesOf(req[e].src) /\ name'[x] = name'[on'[v]]
    BY <1>3, <2>1, StaysSame DEF Colliding
  <2>3. /\ on'[v] \in Dish /\ at[on'[v]] = req[e].src /\ x \in Dish /\ on'[v] # None
    BY <2>2 DEF DishesOf
  <2>4. CASE on'[v] # on[v]
    BY <1>3, <2>1, <2>3, <2>4 DEF Rely
  <2>5. CASE name'[on'[v]] # name[on'[v]]
    BY <1>3, <2>3, <2>5 DEF Rely
  <2>6. CASE name'[x] # name[x]
    BY <1>3, <2>2, <2>3, <2>6 DEF Rely
  <2>7. CASE on'[v] = on[v] /\ name'[on'[v]] = name[on'[v]] /\ name'[x] = name[x]
    <3>1. on[v] \in Colliding(req[e].src, req[e].dst)
      BY <2>2, <2>7 DEF Colliding
    <3>2. name[on[v]] \in req[e].touched
      BY <1>1, <1>3, <3>1 DEF MergeReviews
    <3> QED BY <2>7, <3>2 DEF Stays
  <2> QED BY <2>4, <2>5, <2>6, <2>7
<1> QED BY <1>1, <1>2, <1>3

LEMMA RelyMergeRows ==
  ASSUME MergeTypeOK, NEW e \in Client, Rely(e), Stays(e), Shape(e), req[e].op = "merge",
         MergeLocks(e), MergeRows(e)
  PROVE  MergeRows(e)'
<1>1. Moved(req[e])' = Moved(req[e]) /\ (Moved(req[e]) => Locked(req[e]))
  BY StaysSame DEF Moved, Shifted, Locked
<1>2. Moved(req[e]) => req[e].src \in req[e].own /\ req[e].dst \in req[e].own
  BY <1>1, RelySame
<1>3. ASSUME Moved(req[e]), NEW x \in Row
      PROVE  /\ below'[x] = req[e].src <=> below[x] = req[e].src
             /\ below'[x] = req[e].dst <=> below[x] = req[e].dst
  BY <1>2, <1>3 DEF Rely
<1>4. Single \subseteq Row /\ Plain \subseteq Row
  BY DEF Row
<1> QED BY <1>1, <1>3, <1>4, StaysSame DEF MergeRows

LEMMA RelyMergeLinks ==
  ASSUME MergeTypeOK, NEW e \in Client, Rely(e), Stays(e), Shape(e), req[e].op = "merge",
         MergeLocks(e), MergeLinks(e)
  PROVE  MergeLinks(e)'
<1>1. /\ Linked(req[e])' = Linked(req[e]) /\ Redirected(req[e])' = Redirected(req[e])
      /\ (Linked(req[e]) \/ Redirected(req[e]) => Locked(req[e]))
  BY StaysSame DEF Linked, Redirected, Locked, MergePC
<1>2. Locked(req[e]) => req[e].src \in req[e].own /\ slug'[req[e].src] = slug[req[e].src]
  BY RelySame
<1>3. ASSUME Locked(req[e]), NEW x \in Slug
      PROVE  link'[x] = req[e].src => link[x] = req[e].src
  BY <1>2, <1>3 DEF Rely
<1> QED BY <1>1, <1>2, <1>3, StaysSame DEF MergeLinks

LEMMA RelyOthers ==
  ASSUME MergeTypeOK, NEW e \in Client, Rely(e), Stays(e), Shape(e), req[e].op # "merge",
         Held(e)
  PROVE  Held(e)'
<1> USE MergeAssumption
<1>1. req'[e] = req[e]
  BY DEF Stays
<1>2. req[e].op = "review" => ReviewAt(e)'
  BY <1>1 DEF Rely, Shape, Held, ReviewAt
<1>3. ASSUME req[e].op = "rename"
      PROVE  RenameAt(e)'
  <2>1. SUFFICES ASSUME req[e].pc = "commit"
                 PROVE  /\ req[e].item \in req[e].own /\ at'[req[e].item] # None
                        /\ \A d \in DishesOf(at[req[e].item])' \ {req[e].item} :
                             name'[d] # req[e].new
    BY <1>1 DEF RenameAt
  <2>2. /\ req[e].item \in req[e].own /\ req[e].item \in Dish /\ at[req[e].item] # None
        /\ at'[req[e].item] = at[req[e].item]
    BY <1>3, <2>1 DEF Held, RenameAt, Rely, Shape
  <2>3. ASSUME NEW d \in Dish \ {req[e].item}, at'[d] = at'[req[e].item]
        PROVE  name'[d] # req[e].new
    <3>1. <<at[req[e].item], req[e].new>> \in Entries(e)
      BY <1>3, <2>1 DEF Entries
    <3>2. CASE at'[d] # at[d] \/ name'[d] # name[d]
      BY <2>2, <2>3, <3>1, <3>2 DEF Rely
    <3>3. CASE at'[d] = at[d] /\ name'[d] = name[d]
      BY <1>3, <2>1, <2>2, <2>3, <3>3 DEF Held, RenameAt, DishesOf
    <3> QED BY <3>2, <3>3
  <2>4. ASSUME NEW d \in DishesOf(at[req[e].item])' \ {req[e].item}
        PROVE  d \in Dish \ {req[e].item} /\ at'[d] = at'[req[e].item]
    BY <1>1, <2>4 DEF DishesOf
  <2> QED BY <2>2, <2>3, <2>4
<1>4. ASSUME req[e].op = "attach"
      PROVE  AttachAt(e)'
  <2>1. req[e].item \in Row /\ req[e].src \in Restaurant /\ AttachAt(e)
    BY <1>4 DEF Shape, Held
  <2>2. below'[req[e].item] = None
    BY <1>4, <2>1 DEF AttachAt, Rely
  <2>3. ASSUME req[e].pc = "commit"
        PROVE  /\ req[e].src \in req[e].share \cap Live'
               /\ req[e].item \in Single => \A y \in Single : below'[y] # req[e].src
    <3>1. req[e].src \in req[e].share \cap Live'
      BY <2>1, <2>3 DEF AttachAt, Rely, Live
    <3>2. ASSUME req[e].item \in Single, NEW y \in Single
          PROVE  below'[y] # req[e].src
      BY <1>4, <2>1, <2>3, <3>2 DEF AttachAt, Rely, Row
    <3> QED BY <3>1, <3>2
  <2> QED BY <1>1, <2>2, <2>3 DEF AttachAt
<1>5. ASSUME req[e].op = "delete"
      PROVE  DeleteAt(e)'
  <2>1. req[e].pc \in {"erase", "cascade", "commit"} /\ req[e].src \in Restaurant /\ DeleteAt(e)
    BY <1>5 DEF Shape, Held
  <2>2. req[e].pc # "erase" => req[e].src \in req[e].own \cap Live'
    BY <2>1 DEF DeleteAt, Rely, Live
  <2>3. \A r \in req[e].own : DishesOf(r)' = DishesOf(r)
    BY RelyDishes
  <2>4. ASSUME req[e].pc = "commit"
        PROVE  /\ \A d \in Dish : at'[d] = req[e].src => d \in req[e].own
               /\ \A x \in Slug : link'[x] = req[e].src => x \in req[e].own
    BY <2>1, <2>2, <2>4 DEF DeleteAt, Rely, DishesOf
  <2> QED BY <1>1, <2>2, <2>4 DEF DeleteAt, DishesOf
<1> QED BY <1>1, <1>2, <1>3, <1>4, <1>5 DEF Held

LEMMA RelyHeld ==
  ASSUME MergeTypeOK, NEW e \in Client, Rely(e), Stays(e), Shape(e), Held(e)
  PROVE  Held(e)'
<1>1. CASE req[e].op = "merge"
  <2>1. req'[e].op = "merge"
    BY <1>1, StaysSame
  <2>2. MergeLocks(e) /\ MergeDishes(e) /\ MergeReviews(e) /\ MergeRows(e) /\ MergeLinks(e)
    BY <1>1 DEF Held
  <2> QED BY <1>1, <2>1, <2>2, RelyLocks, RelyMergeDishes, RelyMergeReviews, RelyMergeRows,
             RelyMergeLinks DEF Held
<1>2. CASE req[e].op # "merge"
  BY <1>2, RelyOthers
<1> QED BY <1>1, <1>2

LEMMA RelyEntries ==
  ASSUME MergeTypeOK, NEW e \in Client, Rely(e), Stays(e), Shape(e), Held(e)
  PROVE  Entries(e)' = Entries(e)
<1>1. CASE req[e].op = "rename" /\ req[e].pc = "commit"
  <2>1. req[e].item \in req[e].own /\ req[e].item \in Dish
    BY <1>1 DEF Held, RenameAt, Shape
  <2>2. at'[req[e].item] = at[req[e].item]
    BY <2>1 DEF Rely
  <2> QED BY <1>1, <2>2, StaysSame DEF Entries
<1>2. CASE req[e].op = "merge"
  <2>1. \A d \in req[e].shifted : name'[d] = name[d]
    BY <1>2 DEF Held, MergeDishes, DishesOf, Rely
  <2>2. {<<req[e].dst, name'[d]>> : d \in req[e].shifted} = {<<req[e].dst, name[d]>> : d \in req[e].shifted}
    BY <2>1
  <2> QED BY <1>2, <2>2, StaysSame DEF Entries
<1>3. CASE req[e].op # "merge" /\ ~(req[e].op = "rename" /\ req[e].pc = "commit")
  BY <1>3, StaysSame DEF Entries
<1> QED BY <1>1, <1>2, <1>3

LEMMA IdleHeld ==
  ASSUME NEW c \in Client, req[c] = Idle
  PROVE  Shape(c) /\ Held(c) /\ Entries(c) = {}
<1>1. Idle.op = "none" /\ Idle.shifted = {} /\ DOMAIN Idle = Fields
  BY DEF Idle, Fields
<1> QED BY <1>1 DEF Shape, Held, Entries

(* Some requests end, and the others can rely on what they locked.          *)
LEMMA RelyKeeps ==
  ASSUME MergeInv, MergeTypeOK', req' = [e \in Client |-> req'[e]],
         \A e \in Client : req'[e] = Idle \/ (Rely(e) /\ Stays(e))
  PROVE  MergeInv'
<1>1. /\ MergeTypeOK /\ LocksApart /\ EntriesApart /\ ItemsApart
      /\ \A e \in Client : Shape(e) /\ Held(e)
  BY DEF MergeInv
<1>2. /\ Idle.own = {} /\ Idle.share = {} /\ Idle.op = "none" /\ Idle.pc = "idle"
      /\ Idle.shifted = {} /\ DOMAIN Idle = Fields
  BY DEF Idle, Fields
<1>3. ASSUME NEW e \in Client
      PROVE  Shape(e)' /\ Held(e)'
  <2>1. CASE req'[e] = Idle
    BY <1>2, <2>1 DEF Shape, Held
  <2>2. CASE Rely(e) /\ Stays(e)
    BY <1>1, <2>2, RelyHeld, StaysShape
  <2> QED BY <1>3, <2>1, <2>2
<1>4. ASSUME NEW e \in Client
      PROVE  /\ req'[e].own \subseteq req[e].own /\ req'[e].share \subseteq req[e].share
             /\ Entries(e)' \subseteq Entries(e)
             /\ \/ req'[e].op = "none" /\ req'[e].pc = "idle"
                \/ /\ req'[e].op = req[e].op /\ req'[e].pc = req[e].pc
                   /\ req'[e].item = req[e].item /\ req'[e].new = req[e].new
                   /\ req'[e].src = req[e].src /\ req'[e].dst = req[e].dst
  <2>1. CASE req'[e] = Idle
    <3>1. Entries(e)' = {}
      BY <1>2, <2>1 DEF Entries
    <3> QED BY <1>2, <2>1, <3>1
  <2>2. CASE Rely(e) /\ Stays(e)
    <3>1. Entries(e)' = Entries(e)
      BY <1>1, <2>2, RelyEntries
    <3> QED BY <2>2, <3>1, StaysSame
  <2> QED BY <1>4, <2>1, <2>2
<1>5. LocksApart'
  BY <1>1, <1>4 DEF LocksApart
<1>6. EntriesApart'
  <2>1. SUFFICES ASSUME NEW c \in Client, NEW e \in Client, c # e
                 PROVE  Entries(c)' \cap Entries(e)' = {}
    BY DEF EntriesApart
  <2>2. Entries(c) \cap Entries(e) = {}
    BY <1>1, <2>1 DEF EntriesApart
  <2>3. Entries(c)' \subseteq Entries(c) /\ Entries(e)' \subseteq Entries(e)
    BY <1>4
  <2> QED BY <2>2, <2>3
<1>7. ItemsApart'
  BY <1>1, <1>4 DEF ItemsApart
<1> QED BY <1>3, <1>5, <1>6, <1>7 DEF MergeInv

(* A request changes its own record and nothing else.                       *)
LEMMA StepKeeps ==
  ASSUME MergeInv, NEW c \in Client, req' = [req EXCEPT ![c] = req'[c]], UNCHANGED rows,
         count' \in 0 .. MaxRequests, Shape(c)', Held(c)', None \notin req'[c].own,
         \A e \in Client \ {c} :
           /\ req'[c].own \cap (req[e].own \cup req[e].share) = {}
           /\ req'[c].share \cap req[e].own = {}
           /\ Entries(c)' \cap Entries(e) = {},
         ItemsApart'
  PROVE  MergeInv'
<1>1. /\ req = [e \in Client |-> req[e]] /\ \A e \in Client : Shape(e) /\ Held(e)
      /\ slug' = slug /\ link' = link /\ at' = at /\ name' = name /\ on' = on /\ below' = below
      /\ MergeTypeOK /\ LocksApart /\ EntriesApart
  BY DEF MergeInv, rows
<1>2. \A e \in Client \ {c} : req'[e] = req[e]
  BY <1>1
<1>3. MergeTypeOK'
  BY <1>1 DEF MergeTypeOK, Database, Live
<1>4. ASSUME NEW e \in Client \ {c}
      PROVE  Shape(e)' /\ Held(e)' /\ Entries(e)' = Entries(e)
  <2>1. Rely(e)
    BY <1>1 DEF Rely
  <2>2. Stays(e)
    BY <1>1, <1>2 DEF Stays, Shape
  <2> QED BY <1>1, <2>1, <2>2, RelyHeld, StaysShape, RelyEntries
<1>5. LocksApart'
  BY <1>1, <1>2 DEF LocksApart
<1>6. EntriesApart'
  <2>1. SUFFICES ASSUME NEW d \in Client, NEW e \in Client, d # e
                 PROVE  Entries(d)' \cap Entries(e)' = {}
    BY DEF EntriesApart
  <2>2. Entries(d) \cap Entries(e) = {}
    BY <1>1, <2>1 DEF EntriesApart
  <2>3. CASE d = c
    <3>1. Entries(e)' = Entries(e)
      BY <1>4, <2>1, <2>3
    <3> QED BY <2>1, <2>3, <3>1
  <2>4. CASE e = c
    <3>1. Entries(d)' = Entries(d)
      BY <1>4, <2>1, <2>4
    <3> QED BY <2>1, <2>4, <3>1
  <2>5. CASE d # c /\ e # c
    BY <1>4, <2>2, <2>5
  <2> QED BY <2>3, <2>4, <2>5
<1>7. req' = [e \in Client |-> req'[e]] /\ \A e \in Client : Shape(e)' /\ Held(e)'
  BY <1>1, <1>4
<1> QED BY <1>3, <1>5, <1>6, <1>7 DEF MergeInv

------------------------------------------------------------------------------
(* The requests that begin.                                                 *)
LEMMA BeginKeeps ==
  ASSUME MergeInv, NEW c \in Client, NEW q, Begin(c, q), DOMAIN q = Fields,
         q.own = {}, q.share = {}, q.shifted = {}, q.pc # "commit",
         Shape(c)', Held(c)', ItemsApart'
  PROVE  MergeInv'
<1>1. /\ req' = [req EXCEPT ![c] = q] /\ UNCHANGED rows /\ count' = count + 1
      /\ count < MaxRequests /\ req = [e \in Client |-> req[e]] /\ count \in 0 .. MaxRequests
  BY DEF Begin, MergeInv, MergeTypeOK, Database
<1>2. req'[c] = q /\ req' = [req EXCEPT ![c] = req'[c]]
  BY <1>1
<1>3. count' \in 0 .. MaxRequests
  BY <1>1, MergeAssumption
<1>4. Entries(c)' = {}
  BY <1>2 DEF Entries
<1> QED BY <1>1, <1>2, <1>3, <1>4, StepKeeps

(* A request that neither locks nor inserts.                                *)
LEMMA SameItems ==
  ASSUME MergeInv, NEW c \in Client, req' = [req EXCEPT ![c] = req'[c]],
         \/ req'[c].op \notin {"review", "attach"}
         \/ /\ req'[c].op = req[c].op /\ req'[c].new = req[c].new /\ req'[c].item = req[c].item
            /\ req'[c].op = "attach" => req'[c].pc # "commit"
  PROVE  ItemsApart'
<1>1. req = [e \in Client |-> req[e]] /\ ItemsApart
  BY DEF MergeInv
<1>2. \A e \in Client \ {c} : req'[e] = req[e]
  BY <1>1
<1> QED BY <1>1, <1>2 DEF ItemsApart

LEMMA BeginMergeKeeps ==
  ASSUME MergeInv, NEW c \in Client, NEW s \in Restaurant, NEW t \in Restaurant,
         NEW first \in {s, t}, BeginMerge(c, s, t, first)
  PROVE  MergeInv'
<1> DEFINE q == [Idle EXCEPT !.op = "merge", !.pc = "lock", !.src = s, !.dst = t,
                             !.item = first]
<1>1. Begin(c, q) /\ s # t /\ {s, t} \subseteq Live
  BY DEF BeginMerge
<1>2. /\ DOMAIN q = Fields /\ q.own = {} /\ q.share = {} /\ q.shifted = {} /\ q.op = "merge"
      /\ q.pc = "lock" /\ q.src = s /\ q.dst = t /\ q.item = first /\ q.remapped = {}
  BY DEF Idle, Fields
<1> HIDE DEF q
<1>3. req'[c] = q /\ req' = [req EXCEPT ![c] = req'[c]] /\ req = [e \in Client |-> req[e]]
  BY <1>1 DEF Begin, MergeInv
<1>4. Shape(c)'
  BY <1>1, <1>2, <1>3 DEF Shape, MergePC
<1>5. Held(c)'
  <2>1. MergeLocks(c)'
    BY <1>2, <1>3 DEF MergeLocks, Locked
  <2>2. MergeDishes(c)' /\ MergeReviews(c)'
    BY <1>2, <1>3 DEF MergeDishes, MergeReviews, Dropped, Shifted
  <2>3. MergeRows(c)' /\ MergeLinks(c)'
    BY <1>2, <1>3 DEF MergeRows, MergeLinks, Moved, Shifted, Linked, Redirected
  <2> QED BY <1>2, <1>3, <2>1, <2>2, <2>3 DEF Held
<1>6. ItemsApart'
  BY <1>2, <1>3, SameItems
<1> QED BY <1>1, <1>2, <1>4, <1>5, <1>6, BeginKeeps

LEMMA BeginReviewKeeps ==
  ASSUME MergeInv, NEW c \in Client, NEW v \in Review, NEW d \in Dish, BeginReview(c, v, d)
  PROVE  MergeInv'
<1> DEFINE q == [Idle EXCEPT !.op = "review", !.pc = "insert", !.item = d, !.new = v,
                             !.src = at[d]]
<1>1. /\ Begin(c, q) /\ on[v] = None
      /\ \A e \in Client : req[e].op = "review" => req[e].new # v
  BY DEF BeginReview
<1>2. /\ DOMAIN q = Fields /\ q.own = {} /\ q.share = {} /\ q.shifted = {} /\ q.op = "review"
      /\ q.pc = "insert" /\ q.item = d /\ q.new = v
  BY DEF Idle, Fields
<1> HIDE DEF q
<1>3. /\ req'[c] = q /\ req' = [req EXCEPT ![c] = req'[c]] /\ req = [e \in Client |-> req[e]]
      /\ on' = on
  BY <1>1 DEF Begin, MergeInv, rows
<1>4. Shape(c)' /\ Held(c)'
  BY <1>1, <1>2, <1>3 DEF Shape, Held, ReviewAt
<1>5. ItemsApart'
  <2>1. \A e \in Client \ {c} : req'[e] = req[e]
    BY <1>3
  <2> QED BY <1>1, <1>2, <1>3, <2>1 DEF ItemsApart, MergeInv
<1> QED BY <1>1, <1>2, <1>4, <1>5, BeginKeeps

LEMMA BeginRenameKeeps ==
  ASSUME MergeInv, NEW c \in Client, NEW d \in Dish, NEW n \in Name, BeginRename(c, d, n)
  PROVE  MergeInv'
<1> DEFINE q == [Idle EXCEPT !.op = "rename", !.pc = "rename", !.item = d, !.new = n]
<1>1. Begin(c, q)
  BY DEF BeginRename
<1>2. /\ DOMAIN q = Fields /\ q.own = {} /\ q.share = {} /\ q.shifted = {} /\ q.op = "rename"
      /\ q.pc = "rename" /\ q.item = d /\ q.new = n
  BY DEF Idle, Fields
<1> HIDE DEF q
<1>3. req'[c] = q /\ req' = [req EXCEPT ![c] = req'[c]]
  BY <1>1 DEF Begin, MergeInv
<1>4. Shape(c)' /\ Held(c)'
  BY <1>1, <1>2, <1>3 DEF Shape, Held, RenameAt
<1>5. ItemsApart'
  BY <1>2, <1>3, SameItems
<1> QED BY <1>1, <1>2, <1>4, <1>5, BeginKeeps

LEMMA BeginAttachKeeps ==
  ASSUME MergeInv, NEW c \in Client, NEW x \in Row, NEW r \in Restaurant, BeginAttach(c, x, r)
  PROVE  MergeInv'
<1> DEFINE q == [Idle EXCEPT !.op = "attach", !.pc = "attach", !.item = x, !.src = r]
<1>1. /\ Begin(c, q) /\ below[x] = None
      /\ \A e \in Client : req[e].op = "attach" => req[e].item # x
  BY DEF BeginAttach
<1>2. /\ DOMAIN q = Fields /\ q.own = {} /\ q.share = {} /\ q.shifted = {} /\ q.op = "attach"
      /\ q.pc = "attach" /\ q.item = x /\ q.src = r
  BY DEF Idle, Fields
<1> HIDE DEF q
<1>3. /\ req'[c] = q /\ req' = [req EXCEPT ![c] = req'[c]] /\ req = [e \in Client |-> req[e]]
      /\ below' = below
  BY <1>1 DEF Begin, MergeInv, rows
<1>4. Shape(c)' /\ Held(c)'
  BY <1>1, <1>2, <1>3 DEF Shape, Held, AttachAt
<1>5. ItemsApart'
  <2>1. \A e \in Client \ {c} : req'[e] = req[e]
    BY <1>3
  <2> QED BY <1>1, <1>2, <1>3, <2>1 DEF ItemsApart, MergeInv
<1> QED BY <1>1, <1>2, <1>4, <1>5, BeginKeeps

LEMMA BeginDeleteKeeps ==
  ASSUME MergeInv, NEW c \in Client, NEW r \in Restaurant, BeginDelete(c, r)
  PROVE  MergeInv'
<1> DEFINE q == [Idle EXCEPT !.op = "delete", !.pc = "erase", !.src = r]
<1>1. Begin(c, q)
  BY DEF BeginDelete
<1>2. /\ DOMAIN q = Fields /\ q.own = {} /\ q.share = {} /\ q.shifted = {} /\ q.op = "delete"
      /\ q.pc = "erase" /\ q.src = r
  BY DEF Idle, Fields
<1> HIDE DEF q
<1>3. req'[c] = q /\ req' = [req EXCEPT ![c] = req'[c]]
  BY <1>1 DEF Begin, MergeInv
<1>4. Shape(c)' /\ Held(c)'
  BY <1>1, <1>2, <1>3 DEF Shape, Held, DeleteAt
<1>5. ItemsApart'
  BY <1>2, <1>3, SameItems
<1> QED BY <1>1, <1>2, <1>4, <1>5, BeginKeeps

------------------------------------------------------------------------------
(* The statements: a request that waits for nobody adds to its locks.       *)
Statement(c) ==
  /\ WaitsFor(c) = {}
  /\ req' = [req EXCEPT ![c] = req'[c]] /\ UNCHANGED rows /\ count' = count
  /\ DOMAIN req'[c] = Fields
  /\ req'[c].op = req[c].op /\ req'[c].src = req[c].src /\ req'[c].dst = req[c].dst
  /\ req'[c].new = req[c].new

LEMMA WantsReal ==
  ASSUME MergeInv, NEW c \in Client
  PROVE  None \notin WantsOwn(c)
<1> USE MergeAssumption
<1>1. Shape(c) /\ Held(c) /\ slug \in [Restaurant -> Slug \cup {None}]
  BY DEF MergeInv, MergeTypeOK, Database
<1>2. CASE req[c].pc = "lock"
  <2>1. req[c].op = "merge" /\ WantsOwn(c) = {NextLock(c)}
    BY <1>1, <1>2 DEF Shape, Idle, WantsOwn
  <2>2. NextLock(c) \in Restaurant
    BY <1>1, <1>2, <2>1 DEF Shape, NextLock, Second
  <2> QED BY <2>1, <2>2
<1>3. CASE req[c].pc = "redirect"
  <2>1. req[c].op = "merge" /\ WantsOwn(c) = {slug[req[c].src]}
    BY <1>1, <1>3 DEF Shape, Idle, WantsOwn
  <2>2. req[c].src \in Live
    BY <1>1, <1>3, <2>1 DEF Held, MergeLocks, Locked, MergePC
  <2> QED BY <2>1, <2>2 DEF Live
<1>4. CASE req[c].pc = "rename"
  <2>1. req[c].op = "rename" /\ WantsOwn(c) = {req[c].item}
    BY <1>1, <1>4 DEF Shape, Idle, WantsOwn, MergePC
  <2> QED BY <1>1, <2>1 DEF Shape
<1>5. CASE req[c].pc \in {"delete", "erase"}
  <2>1. req[c].op \in {"merge", "delete"} /\ WantsOwn(c) = {req[c].src}
    BY <1>1, <1>5 DEF Shape, Idle, WantsOwn, MergePC
  <2> QED BY <1>1, <2>1 DEF Shape
<1>6. CASE req[c].pc \notin {"lock", "redirect", "rename", "delete", "erase"}
  <2>1. WantsOwn(c) \subseteq Review \cup Dish \cup Slug
    BY <1>6 DEF WantsOwn, Colliding, DishesOf
  <2> QED BY <2>1
<1> QED BY <1>2, <1>3, <1>4, <1>5, <1>6

LEMMA StatementKeeps ==
  ASSUME MergeInv, NEW c \in Client, Statement(c),
         req'[c].own \subseteq req[c].own \cup WantsOwn(c),
         req'[c].share \subseteq req[c].share \cup WantsShare(c),
         Entries(c)' \subseteq Entries(c) \cup NewEntries(c),
         req'[c].pc # "lock" \/ (req[c].pc = "lock" /\ req'[c].item = req[c].item),
         Shape(c)', Held(c)', ItemsApart'
  PROVE  MergeInv'
<1>1. req' = [req EXCEPT ![c] = req'[c]] /\ UNCHANGED rows /\ count' = count
  BY DEF Statement
<1>2. ASSUME NEW e \in Client \ {c}
      PROVE  /\ req'[c].own \cap (req[e].own \cup req[e].share) = {}
             /\ req'[c].share \cap req[e].own = {}
             /\ Entries(c)' \cap Entries(e) = {}
  <2>1. /\ req[e].own \cap (WantsOwn(c) \cup WantsShare(c)) = {}
        /\ req[e].share \cap WantsOwn(c) = {}
        /\ Entries(e) \cap NewEntries(c) = {}
    BY <1>2 DEF Statement, WaitsFor, Others
  <2>2. /\ req[c].own \cap (req[e].own \cup req[e].share) = {}
        /\ req[e].own \cap (req[c].own \cup req[c].share) = {}
        /\ Entries(c) \cap Entries(e) = {}
    BY <1>2 DEF MergeInv, LocksApart, EntriesApart
  <2>3. Entries(c)' \cap Entries(e) = {}
    BY <2>1, <2>2
  <2> QED BY <2>1, <2>2, <2>3
<1>3. count' \in 0 .. MaxRequests
  BY <1>1 DEF MergeInv, MergeTypeOK, Database
<1>4. None \notin req'[c].own
  BY WantsReal DEF MergeInv, LocksApart
<1> QED BY <1>1, <1>2, <1>3, <1>4, StepKeeps

LEMMA HoldingFields ==
  ASSUME NEW c \in Client, Shape(c)
  PROVE  /\ DOMAIN Holding(c) = Fields
         /\ Holding(c).own = req[c].own \cup WantsOwn(c)
         /\ Holding(c).share = req[c].share \cup WantsShare(c)
         /\ \A f \in Fields \ {"own", "share"} : Holding(c)[f] = req[c][f]
BY DEF Holding, Shape, Fields

LEMMA MergeKeeps ==
  ASSUME MergeInv, NEW c \in Client, Statement(c), req[c].op = "merge",
         req'[c].pc \in MergePC,
         req'[c].pc # "lock" \/ (req[c].pc = "lock" /\ req'[c].item = req[c].item),
         req'[c].own \subseteq req[c].own \cup WantsOwn(c),
         req'[c].share \subseteq req[c].share \cup WantsShare(c),
         \A d \in req'[c].shifted \ req[c].shifted : <<req[c].dst, name[d]>> \in NewEntries(c),
         MergeLocks(c)', MergeDishes(c)', MergeReviews(c)', MergeRows(c)', MergeLinks(c)'
  PROVE  MergeInv'
<1>1. /\ req' = [req EXCEPT ![c] = req'[c]] /\ name' = name /\ DOMAIN req'[c] = Fields
      /\ req'[c].op = "merge" /\ req'[c].src = req[c].src /\ req'[c].dst = req[c].dst
  BY DEF Statement, rows
<1>2. Shape(c)'
  BY <1>1 DEF MergeInv, Shape
<1>3. Held(c)'
  BY <1>1 DEF Held
<1>4. ItemsApart'
  BY <1>1, SameItems
<1>5. Entries(c)' \subseteq Entries(c) \cup NewEntries(c)
  <2>1. Entries(c)' = {<<req[c].dst, name[d]>> : d \in req'[c].shifted}
    BY <1>1 DEF Entries
  <2>2. Entries(c) = {<<req[c].dst, name[d]>> : d \in req[c].shifted}
    BY DEF Entries
  <2> QED BY <2>1, <2>2
<1> QED BY <1>2, <1>3, <1>4, <1>5, StatementKeeps

LEMMA LockKeeps ==
  ASSUME MergeInv, NEW c \in Client, Lock(c)
  PROVE  MergeInv'
<1> USE MergeAssumption
<1>1. /\ Shape(c) /\ Held(c) /\ req = [e \in Client |-> req[e]] /\ req[c].pc = "lock"
      /\ WaitsFor(c) = {} /\ slug[NextLock(c)] # None
  BY DEF MergeInv, Lock, At
<1>2. req[c].op = "merge"
  BY <1>1 DEF Shape, Idle
<1>3. MergeLocks(c) /\ MergeDishes(c)
  BY <1>1, <1>2 DEF Held
<1>4. /\ req[c].own \subseteq {req[c].item} /\ req[c].own \subseteq Live /\ req[c].share = {}
      /\ req[c].src \in Restaurant /\ req[c].dst \in Restaurant /\ req[c].src # req[c].dst
      /\ req[c].item \in {req[c].src, req[c].dst}
  BY <1>1, <1>2, <1>3 DEF MergeLocks, Shape
<1>5. WantsOwn(c) = {NextLock(c)} /\ WantsShare(c) = {}
  BY <1>1 DEF WantsOwn, WantsShare
<1>6. /\ NextLock(c) \in Live /\ NextLock(c) \in {req[c].src, req[c].dst}
      /\ \/ req[c].own = {} /\ NextLock(c) = req[c].item
         \/ req[c].own \cup {NextLock(c)} = {req[c].src, req[c].dst}
  <2>1. CASE req[c].item \notin req[c].own
    <3>1. NextLock(c) = req[c].item
      BY <2>1 DEF NextLock
    <3> QED BY <1>1, <1>4, <2>1, <3>1 DEF Live
  <2>2. CASE req[c].item \in req[c].own
    <3>1. NextLock(c) = IF req[c].item = req[c].src THEN req[c].dst ELSE req[c].src
      BY <2>2 DEF NextLock, Second
    <3> QED BY <1>1, <1>4, <2>2, <3>1 DEF Live
  <2> QED BY <2>1, <2>2
<1> DEFINE q == Holding(c)
<1>7. /\ DOMAIN q = Fields /\ q.own = req[c].own \cup {NextLock(c)} /\ q.share = {}
      /\ q.op = "merge" /\ q.pc = "lock" /\ q.src = req[c].src /\ q.dst = req[c].dst
      /\ q.item = req[c].item /\ q.new = req[c].new /\ q.remapped = req[c].remapped
      /\ q.shifted = req[c].shifted
  BY <1>1, <1>2, <1>4, <1>5, HoldingFields DEF Fields
<1>8. \/ {q.src, q.dst} \subseteq q.own /\ req'[c] = [q EXCEPT !.pc = "remap", !.item = None]
      \/ ~({q.src, q.dst} \subseteq q.own) /\ req'[c] = q
  BY <1>1 DEF Lock, Becomes
<1>9. req' = [req EXCEPT ![c] = req'[c]] /\ UNCHANGED rows /\ count' = count
  BY <1>1 DEF Lock, Becomes, rows
<1> HIDE DEF q
<1>10. /\ DOMAIN req'[c] = Fields /\ req'[c].own = req[c].own \cup {NextLock(c)}
       /\ req'[c].share = {} /\ req'[c].op = "merge" /\ req'[c].src = req[c].src
       /\ req'[c].dst = req[c].dst /\ req'[c].new = req[c].new
       /\ req'[c].remapped = req[c].remapped /\ req'[c].shifted = req[c].shifted
       /\ \/ req'[c].pc = "remap" /\ {req[c].src, req[c].dst} \subseteq req'[c].own
          \/ /\ req'[c].pc = "lock" /\ req'[c].item = req[c].item
             /\ ~({req[c].src, req[c].dst} \subseteq req'[c].own)
  <2>1. CASE ~({q.src, q.dst} \subseteq q.own) /\ req'[c] = q
    BY <1>7, <2>1
  <2>2. CASE /\ {q.src, q.dst} \subseteq q.own
             /\ req'[c] = [q EXCEPT !.pc = "remap", !.item = None]
    BY <1>7, <2>2 DEF Fields
  <2> QED BY <1>8, <2>1, <2>2
<1>11. Statement(c)
  BY <1>1, <1>2, <1>9, <1>10 DEF Statement
<1>12. slug' = slug /\ at' = at /\ on' = on /\ link' = link /\ Live' = Live
  BY <1>9 DEF rows, Live
<1>13. req'[c].own \subseteq {req[c].src, req[c].dst} /\ req'[c].own \subseteq Live
  BY <1>4, <1>6, <1>10
<1>14. MergeLocks(c)'
  <2>1. req'[c].own \cap Review = {} /\ req'[c].own \cap Slug = {}
    BY <1>4, <1>13
  <2>2. req'[c].pc = "lock" => req'[c].own \subseteq {req'[c].item}
    BY <1>6, <1>10
  <2> QED BY <1>10, <1>12, <1>13, <2>1, <2>2 DEF MergeLocks, Locked
<1>15. req[c].remapped = {} /\ req[c].shifted = {}
  <2>1. req[c].own \cap Review = {}
    BY <1>4 DEF Live
  <2> QED BY <1>1, <1>3, <2>1 DEF MergeDishes, Shifted
<1>16. MergeDishes(c)' /\ MergeReviews(c)'
  BY <1>10, <1>15 DEF MergeDishes, MergeReviews, Dropped, Shifted
<1>17. MergeRows(c)' /\ MergeLinks(c)'
  BY <1>10 DEF MergeRows, MergeLinks, Moved, Shifted, Linked, Redirected
<1>18. req'[c].pc \in MergePC /\ req'[c].shifted \ req[c].shifted = {}
  BY <1>10 DEF MergePC
<1>19. /\ req'[c].own \subseteq req[c].own \cup WantsOwn(c)
       /\ req'[c].share \subseteq req[c].share \cup WantsShare(c)
       /\ req'[c].pc # "lock" \/ (req[c].pc = "lock" /\ req'[c].item = req[c].item)
  BY <1>1, <1>5, <1>10
<1> QED BY <1>2, <1>11, <1>14, <1>16, <1>17, <1>18, <1>19, MergeKeeps

(* The record of a merge that goes on from pc.                              *)
Goes(c, pc) ==
  /\ req[c].op = "merge" /\ req[c].pc = pc /\ Shape(c) /\ Held(c)
  /\ Statement(c) /\ DOMAIN req'[c] = Fields

LEMMA GoesOn ==
  ASSUME MergeInv, NEW c \in Client, NEW pc \in MergePC \ {"lock", "commit"}, At(c, pc),
         NEW q, Becomes(c, q), DOMAIN q = Fields,
         q.op = req[c].op, q.src = req[c].src, q.dst = req[c].dst, q.new = req[c].new
  PROVE  /\ req'[c] = q /\ Goes(c, pc) /\ MergeTypeOK
         /\ MergeLocks(c) /\ MergeDishes(c) /\ MergeReviews(c) /\ MergeRows(c) /\ MergeLinks(c)
         /\ req[c].src \in Restaurant /\ req[c].dst \in Restaurant
         /\ {req[c].src, req[c].dst} \subseteq req[c].own \cap Live
         /\ UNCHANGED rows /\ Live' = Live
         /\ \A r, s : DishesOf(r)' = DishesOf(r) /\ Colliding(r, s)' = Colliding(r, s)
<1>1. /\ Shape(c) /\ Held(c) /\ req = [e \in Client |-> req[e]] /\ req[c].pc = pc
      /\ WaitsFor(c) = {} /\ MergeTypeOK
  BY DEF MergeInv, At
<1>2. req[c].op = "merge"
  BY <1>1 DEF Shape, Idle, MergePC
<1>3. /\ req'[c] = q /\ UNCHANGED rows /\ count' = count
      /\ req' = [req EXCEPT ![c] = req'[c]]
  BY <1>1 DEF Becomes, rows
<1>4. MergeLocks(c) /\ MergeDishes(c) /\ MergeReviews(c) /\ MergeRows(c) /\ MergeLinks(c)
  BY <1>1, <1>2 DEF Held
<1>5. /\ req[c].src \in Restaurant /\ req[c].dst \in Restaurant
      /\ {req[c].src, req[c].dst} \subseteq req[c].own \cap Live
  BY <1>1, <1>2, <1>4 DEF Shape, MergeLocks, Locked
<1>6. Goes(c, pc)
  BY <1>1, <1>2, <1>3 DEF Goes, Statement
<1>7. /\ Live' = Live
      /\ \A r, s : DishesOf(r)' = DishesOf(r) /\ Colliding(r, s)' = Colliding(r, s)
  BY <1>3 DEF rows, Live, DishesOf, Colliding
<1> QED BY <1>1, <1>3, <1>4, <1>5, <1>6, <1>7

LEMMA GoneOn ==
  ASSUME MergeInv, NEW c \in Client, NEW pc \in MergePC \ {"lock", "commit"}, Goes(c, pc),
         req'[c].pc \in MergePC \ {"lock"},
         req'[c].own \subseteq req[c].own \cup WantsOwn(c),
         req'[c].share \subseteq req[c].share \cup WantsShare(c),
         \A d \in req'[c].shifted \ req[c].shifted : <<req[c].dst, name[d]>> \in NewEntries(c),
         MergeLocks(c)', MergeDishes(c)', MergeReviews(c)', MergeRows(c)', MergeLinks(c)'
  PROVE  MergeInv'
BY MergeKeeps DEF Goes

LEMMA RemapKeeps ==
  ASSUME MergeInv, NEW c \in Client, Remap(c)
  PROVE  MergeInv'
<1> USE MergeAssumption
<1> DEFINE s == req[c].src
           t == req[c].dst
           Twin(d) == CHOOSE e \in DishesOf(t) : name[e] = name[d]
           vs == {v \in Review : on[v] \in Colliding(s, t)}
           q == [Holding(c) EXCEPT !.pc = "drop", !.remapped = {<<v, Twin(on[v])>> : v \in vs},
                                   !.twin = {Twin(on[v]) : v \in vs}]
<1>1. At(c, "remap") /\ Becomes(c, q)
  BY DEF Remap
<1>2. WantsOwn(c) = vs /\ WantsShare(c) = Twins(s, t)
  BY <1>1 DEF At, WantsOwn, WantsShare
<1>3. /\ DOMAIN q = Fields /\ q.op = req[c].op /\ q.src = s /\ q.dst = t /\ q.new = req[c].new
      /\ q.pc = "drop" /\ q.own = req[c].own \cup vs /\ q.share = req[c].share \cup Twins(s, t)
      /\ q.remapped = {<<v, Twin(on[v])>> : v \in vs} /\ q.dropped = req[c].dropped
      /\ q.shifted = req[c].shifted
  <2>1. Shape(c)
    BY DEF MergeInv
  <2> HIDE DEF vs, Twin
  <2> QED BY <1>2, <2>1, HoldingFields DEF Fields
<1> HIDE DEF q
<1>4. /\ req'[c] = q /\ Goes(c, "remap") /\ MergeTypeOK
      /\ MergeLocks(c) /\ MergeDishes(c) /\ {s, t} \subseteq req[c].own \cap Live
      /\ UNCHANGED rows /\ Live' = Live
      /\ \A r, u : DishesOf(r)' = DishesOf(r) /\ Colliding(r, u)' = Colliding(r, u)
  BY <1>1, <1>3, GoesOn DEF MergePC
<1>5. /\ req'[c].src = s /\ req'[c].dst = t /\ on' = on /\ link' = link /\ slug' = slug
      /\ name' = name
  BY <1>3, <1>4 DEF rows
<1>6. req[c].pc = "remap"
  BY <1>1 DEF At
<1>7. MergeLocks(c)'
  <2>1. \A v \in vs : on[v] \in DishesOf(s)
    BY DEF Colliding
  <2>2. Twins(s, t) \subseteq DishesOf(t)
    BY DEF Twins
  <2>3. vs \subseteq Review /\ vs \cap Slug = {}
    OBVIOUS
  <2> HIDE DEF vs
  <2>4. req[c].own \cap Slug = {}
    BY <1>4, <1>6 DEF MergeLocks, Linked
  <2> QED BY <1>3, <1>4, <1>5, <2>1, <2>2, <2>3, <2>4 DEF MergeLocks, Locked, MergePC
<1>8. MergeDishes(c)'
  <2>1. ASSUME NEW v \in vs
        PROVE  Twin(on[v]) \in DishesOf(t) \cap q.share
    <3>1. on[v] \in Colliding(s, t) /\ Twin(on[v]) \in DishesOf(t)
      BY DEF Colliding
    <3>2. name[Twin(on[v])] = name[on[v]]
      BY <3>1 DEF Colliding
    <3>3. Twin(on[v]) \in Twins(s, t)
      BY <3>1, <3>2 DEF Colliding, Twins
    <3> QED BY <1>3, <3>1, <3>3
  <2>2. req[c].shifted = {}
    BY <1>4, <1>6 DEF MergeDishes, Shifted
  <2>3. \A p \in q.remapped : p[1] \in vs /\ p[2] \in DishesOf(t) \cap q.share
    BY <1>3, <2>1
  <2>4. vs \subseteq Review
    OBVIOUS
  <2> HIDE DEF vs
  <2> QED BY <1>3, <1>4, <1>5, <2>2, <2>3, <2>4 DEF MergeDishes, Dropped, Shifted
<1>9. MergeReviews(c)'
  <2>1. ASSUME NEW v \in vs
        PROVE  \E p \in q.remapped : p[1] = v
    <3> HIDE DEF vs, Twin
    <3>1. <<v, Twin(on[v])>> \in q.remapped
      BY <1>3
    <3> QED BY <3>1
  <2>2. Colliding(req[c].src, req[c].dst)' = Colliding(req[c].src, req[c].dst)
    <3>1. PICK u, w : u = s /\ w = t /\ u = req'[c].src /\ w = req'[c].dst
      BY <1>5
    <3>2. Colliding(u, w)' = Colliding(u, w)
      BY <1>4
    <3> QED BY <3>1, <3>2
  <2>3. \A v \in Review : on'[v] \in Colliding(req[c].src, req[c].dst)' => v \in vs
    BY <1>5, <2>2
  <2> HIDE DEF vs, Twin
  <2>4. ~ Dropped(req'[c]) /\ req'[c].remapped = q.remapped
    BY <1>3, <1>4 DEF Dropped
  <2>5. Dropped(req[c])' = Dropped(req'[c])
    BY DEF Dropped
  <2> QED BY <2>1, <2>3, <2>4, <2>5 DEF MergeReviews
<1>10. MergeRows(c)' /\ MergeLinks(c)'
  BY <1>3, <1>4 DEF MergeRows, MergeLinks, Moved, Shifted, Linked, Redirected
<1>11. req'[c].shifted \ req[c].shifted = {}
  BY <1>3, <1>4
<1> QED BY <1>2, <1>3, <1>4, <1>7, <1>8, <1>9, <1>10, <1>11, GoneOn DEF MergePC

LEMMA DropKeeps ==
  ASSUME MergeInv, NEW c \in Client, Drop(c)
  PROVE  MergeInv'
<1> USE MergeAssumption
<1> DEFINE s == req[c].src
           t == req[c].dst
           q == [Holding(c) EXCEPT !.pc = "shift", !.dropped = Colliding(s, t)]
<1>1. At(c, "drop") /\ Becomes(c, q)
  BY DEF Drop
<1>2. WantsOwn(c) = Colliding(s, t) /\ WantsShare(c) = {}
  BY <1>1 DEF At, WantsOwn, WantsShare
<1>3. /\ DOMAIN q = Fields /\ q.op = req[c].op /\ q.src = s /\ q.dst = t /\ q.new = req[c].new
      /\ q.pc = "shift" /\ q.own = req[c].own \cup Colliding(s, t) /\ q.share = req[c].share
      /\ q.remapped = req[c].remapped /\ q.dropped = Colliding(s, t)
      /\ q.shifted = req[c].shifted /\ q.touched = req[c].touched
  <2>1. Shape(c)
    BY DEF MergeInv
  <2> QED BY <1>2, <2>1, HoldingFields DEF Fields
<1> HIDE DEF q
<1>4. /\ req'[c] = q /\ Goes(c, "drop") /\ MergeTypeOK
      /\ MergeLocks(c) /\ MergeDishes(c) /\ MergeReviews(c) /\ {s, t} \subseteq req[c].own \cap Live
      /\ UNCHANGED rows /\ Live' = Live
      /\ \A r, u : DishesOf(r)' = DishesOf(r) /\ Colliding(r, u)' = Colliding(r, u)
  BY <1>1, <1>3, GoesOn DEF MergePC
<1>5. /\ req'[c].src = s /\ req'[c].dst = t /\ on' = on /\ link' = link /\ slug' = slug
      /\ name' = name
  BY <1>3, <1>4 DEF rows
<1>6. req[c].pc = "drop" /\ Colliding(s, t) \subseteq DishesOf(s) /\ DishesOf(s) \subseteq Dish
  BY <1>1 DEF At, Colliding, DishesOf
<1>7. MergeLocks(c)'
  <2>1. req[c].own \cap Slug = {} /\ Colliding(s, t) \cap (Slug \cup Review) = {}
    BY <1>4, <1>6 DEF MergeLocks, Linked
  <2> QED BY <1>3, <1>4, <1>5, <1>6, <2>1 DEF MergeLocks, Locked, MergePC
<1>8. MergeDishes(c)'
  <2>1. req[c].shifted = {}
    BY <1>4, <1>6 DEF MergeDishes, Shifted
  <2> QED BY <1>3, <1>4, <1>5, <1>6, <2>1 DEF MergeDishes, Shifted
<1>9. MergeReviews(c)'
  BY <1>3, <1>4, <1>5, <1>6 DEF MergeReviews
<1>10. MergeRows(c)' /\ MergeLinks(c)'
  BY <1>3, <1>4 DEF MergeRows, MergeLinks, Moved, Shifted, Linked, Redirected
<1>11. req'[c].shifted \ req[c].shifted = {}
  BY <1>3, <1>4
<1> QED BY <1>2, <1>3, <1>4, <1>7, <1>8, <1>9, <1>10, <1>11, GoneOn DEF MergePC

LEMMA ShiftKeeps ==
  ASSUME MergeInv, NEW c \in Client, Shift(c)
  PROVE  MergeInv'
<1> USE MergeAssumption
<1> DEFINE s == req[c].src
           t == req[c].dst
           ds == DishesOf(s) \ req[c].dropped
           q == [Holding(c) EXCEPT !.pc = "rows", !.shifted = ds]
<1>1. At(c, "shift") /\ Becomes(c, q) /\ Colliding(s, t) \subseteq req[c].dropped
  BY DEF Shift
<1>2. /\ WantsOwn(c) = ds /\ WantsShare(c) = {}
      /\ NewEntries(c) = {<<t, name[d]>> : d \in ds}
  BY <1>1 DEF At, WantsOwn, WantsShare, NewEntries
<1>3. /\ DOMAIN q = Fields /\ q.op = req[c].op /\ q.src = s /\ q.dst = t /\ q.new = req[c].new
      /\ q.pc = "rows" /\ q.own = req[c].own \cup ds /\ q.share = req[c].share
      /\ q.remapped = req[c].remapped /\ q.dropped = req[c].dropped
      /\ q.shifted = ds /\ q.touched = req[c].touched
  <2>1. Shape(c)
    BY DEF MergeInv
  <2> HIDE DEF ds
  <2> QED BY <1>2, <2>1, HoldingFields DEF Fields
<1> HIDE DEF q
<1>4. /\ req'[c] = q /\ Goes(c, "shift") /\ MergeTypeOK
      /\ MergeLocks(c) /\ MergeDishes(c) /\ MergeReviews(c) /\ {s, t} \subseteq req[c].own \cap Live
      /\ UNCHANGED rows /\ Live' = Live
      /\ \A r, u : DishesOf(r)' = DishesOf(r) /\ Colliding(r, u)' = Colliding(r, u)
  BY <1>1, <1>3, GoesOn DEF MergePC
<1>5. /\ req'[c].src = s /\ req'[c].dst = t /\ on' = on /\ link' = link /\ slug' = slug
      /\ name' = name
  BY <1>3, <1>4 DEF rows
<1>6. req[c].pc = "shift" /\ DishesOf(s) \subseteq Dish
  BY <1>1 DEF At, DishesOf
<1>7. MergeLocks(c)'
  <2>1. req[c].own \cap Slug = {} /\ ds \cap (Slug \cup Review) = {}
    BY <1>4, <1>6 DEF MergeLocks, Linked
  <2> QED BY <1>3, <1>4, <1>5, <1>6, <2>1 DEF MergeLocks, Locked, MergePC
<1>8. MergeDishes(c)'
  <2>1. req[c].dropped \subseteq DishesOf(s) \cap req[c].own
    BY <1>4, <1>6 DEF MergeDishes, Dropped, MergePC
  <2>2. \A d \in ds, e \in DishesOf(t) : name[d] # name[e]
    BY <1>1 DEF Colliding
  <2> QED BY <1>3, <1>4, <1>5, <1>6, <2>1, <2>2 DEF MergeDishes, Dropped, Shifted, MergePC
<1>9. MergeReviews(c)'
  BY <1>3, <1>4, <1>5, <1>6 DEF MergeReviews, Dropped, MergePC
<1>10. MergeRows(c)' /\ MergeLinks(c)'
  BY <1>3, <1>4 DEF MergeRows, MergeLinks, Moved, Shifted, Linked, Redirected
<1>11. \A d \in req'[c].shifted \ req[c].shifted : <<t, name[d]>> \in NewEntries(c)
  BY <1>2, <1>3, <1>4
<1> QED BY <1>2, <1>3, <1>4, <1>7, <1>8, <1>9, <1>10, <1>11, GoneOn DEF MergePC

LEMMA MoveRowsKeeps ==
  ASSUME MergeInv, NEW c \in Client, MoveRows(c)
  PROVE  MergeInv'
<1> USE MergeAssumption
<1> DEFINE s == req[c].src
           t == req[c].dst
           taken == \E y \in Single : below[y] = t
           mv == {x \in Single \cup Plain : below[x] = s /\ (x \in Single => ~taken)}
           q == [req[c] EXCEPT !.pc = "repoint", !.moved = mv]
<1>1. At(c, "rows") /\ Becomes(c, q)
  BY DEF MoveRows
<1>2. /\ DOMAIN q = Fields /\ q.op = req[c].op /\ q.src = s /\ q.dst = t /\ q.new = req[c].new
      /\ q.pc = "repoint" /\ q.own = req[c].own /\ q.share = req[c].share
      /\ q.remapped = req[c].remapped /\ q.dropped = req[c].dropped
      /\ q.shifted = req[c].shifted /\ q.touched = req[c].touched /\ q.moved = mv
  <2>1. Shape(c)
    BY DEF MergeInv
  <2> HIDE DEF mv
  <2> QED BY <2>1 DEF Shape, Fields
<1> HIDE DEF q
<1>3. /\ req'[c] = q /\ Goes(c, "rows") /\ MergeLocks(c) /\ MergeDishes(c) /\ MergeReviews(c)
      /\ {s, t} \subseteq req[c].own \cap Live
      /\ UNCHANGED rows /\ Live' = Live
      /\ \A r, u : DishesOf(r)' = DishesOf(r) /\ Colliding(r, u)' = Colliding(r, u)
  BY <1>1, <1>2, GoesOn DEF MergePC
<1>4. /\ req'[c].src = s /\ req'[c].dst = t /\ on' = on /\ link' = link /\ slug' = slug
      /\ name' = name /\ below' = below /\ req[c].pc = "rows"
  BY <1>1, <1>2, <1>3 DEF rows, At
<1>5. MergeLocks(c)'
  BY <1>2, <1>3, <1>4 DEF MergeLocks, Locked, Linked, MergePC
<1>6. MergeDishes(c)'
  BY <1>2, <1>3, <1>4 DEF MergeDishes, Dropped, Shifted, MergePC
<1>7. MergeReviews(c)'
  BY <1>2, <1>3, <1>4 DEF MergeReviews, Dropped, MergePC
<1>8. MergeRows(c)' /\ MergeLinks(c)'
  BY <1>2, <1>3, <1>4 DEF MergeRows, MergeLinks, Linked, Redirected
<1>9. req'[c].shifted \ req[c].shifted = {}
  BY <1>2, <1>3
<1> QED BY <1>2, <1>3, <1>5, <1>6, <1>7, <1>8, <1>9, GoneOn DEF MergePC

LEMMA RepointKeeps ==
  ASSUME MergeInv, NEW c \in Client, Repoint(c)
  PROVE  MergeInv'
<1> USE MergeAssumption
<1> DEFINE s == req[c].src
           t == req[c].dst
           xs == {x \in Slug : link[x] = s}
           q == [Holding(c) EXCEPT !.pc = "redirect", !.links = xs]
<1>1. At(c, "repoint") /\ Becomes(c, q)
  BY DEF Repoint
<1>2. WantsOwn(c) = xs /\ WantsShare(c) = {}
  BY <1>1 DEF At, WantsOwn, WantsShare
<1>3. /\ DOMAIN q = Fields /\ q.op = req[c].op /\ q.src = s /\ q.dst = t /\ q.new = req[c].new
      /\ q.pc = "redirect" /\ q.own = req[c].own \cup xs /\ q.share = req[c].share
      /\ q.remapped = req[c].remapped /\ q.dropped = req[c].dropped
      /\ q.shifted = req[c].shifted /\ q.touched = req[c].touched /\ q.moved = req[c].moved
      /\ q.links = xs
  <2>1. Shape(c)
    BY DEF MergeInv
  <2> HIDE DEF xs
  <2> QED BY <1>2, <2>1, HoldingFields DEF Fields
<1> HIDE DEF q
<1>4. /\ req'[c] = q /\ Goes(c, "repoint") /\ MergeLocks(c) /\ MergeDishes(c) /\ MergeReviews(c)
      /\ MergeRows(c) /\ {s, t} \subseteq req[c].own \cap Live
      /\ UNCHANGED rows /\ Live' = Live
      /\ \A r, u : DishesOf(r)' = DishesOf(r) /\ Colliding(r, u)' = Colliding(r, u)
  BY <1>1, <1>3, GoesOn DEF MergePC
<1>5. /\ req'[c].src = s /\ req'[c].dst = t /\ on' = on /\ link' = link /\ slug' = slug
      /\ name' = name /\ below' = below /\ req[c].pc = "repoint"
  BY <1>1, <1>3, <1>4 DEF rows, At
<1>6. xs \subseteq Slug /\ xs \cap Review = {} /\ \A x \in xs : link[x] = s
  OBVIOUS
<1>7. \A x \in Slug : link[x] = s => x \in xs
  OBVIOUS
<1> HIDE DEF xs
<1>8. MergeLocks(c)'
  BY <1>3, <1>4, <1>5, <1>6 DEF MergeLocks, Locked, Linked, MergePC
<1>9. MergeDishes(c)'
  BY <1>3, <1>4, <1>5 DEF MergeDishes, Dropped, Shifted, MergePC
<1>10. MergeReviews(c)'
  BY <1>3, <1>4, <1>5 DEF MergeReviews, Dropped, MergePC
<1>11. MergeRows(c)' /\ MergeLinks(c)'
  BY <1>3, <1>4, <1>5, <1>6, <1>7 DEF MergeRows, Moved, Shifted, MergeLinks, Linked, Redirected, MergePC
<1>12. req'[c].shifted \ req[c].shifted = {}
  BY <1>3, <1>4
<1> QED BY <1>2, <1>3, <1>4, <1>8, <1>9, <1>10, <1>11, <1>12, GoneOn DEF MergePC

LEMMA RedirectKeeps ==
  ASSUME MergeInv, NEW c \in Client, Redirect(c)
  PROVE  MergeInv'
<1> USE MergeAssumption
<1> DEFINE s == req[c].src
           t == req[c].dst
           q == [Holding(c) EXCEPT !.pc = "delete", !.links = @ \cup {slug[s]}]
<1>1. At(c, "redirect") /\ Becomes(c, q)
  BY DEF Redirect
<1>2. WantsOwn(c) = {slug[s]} /\ WantsShare(c) = {}
  BY <1>1 DEF At, WantsOwn, WantsShare
<1>3. /\ DOMAIN q = Fields /\ q.op = req[c].op /\ q.src = s /\ q.dst = t /\ q.new = req[c].new
      /\ q.pc = "delete" /\ q.own = req[c].own \cup {slug[s]} /\ q.share = req[c].share
      /\ q.remapped = req[c].remapped /\ q.dropped = req[c].dropped
      /\ q.shifted = req[c].shifted /\ q.touched = req[c].touched /\ q.moved = req[c].moved
      /\ q.links = req[c].links \cup {slug[s]}
  <2>1. Shape(c)
    BY DEF MergeInv
  <2> QED BY <1>2, <2>1, HoldingFields DEF Fields
<1> HIDE DEF q
<1>4. /\ req'[c] = q /\ Goes(c, "redirect") /\ MergeLocks(c) /\ MergeDishes(c)
      /\ MergeReviews(c) /\ MergeRows(c) /\ MergeLinks(c) /\ MergeTypeOK
      /\ {s, t} \subseteq req[c].own \cap Live
      /\ UNCHANGED rows /\ Live' = Live
      /\ \A r, u : DishesOf(r)' = DishesOf(r) /\ Colliding(r, u)' = Colliding(r, u)
  BY <1>1, <1>3, GoesOn DEF MergePC
<1>5. /\ req'[c].src = s /\ req'[c].dst = t /\ on' = on /\ link' = link /\ slug' = slug
      /\ name' = name /\ below' = below /\ req[c].pc = "redirect"
  BY <1>1, <1>3, <1>4 DEF rows, At
<1>6. slug[s] \in Slug /\ slug[s] \notin Review
  BY <1>4 DEF MergeTypeOK, Database, Live
<1>7. MergeLocks(c)'
  BY <1>3, <1>4, <1>5, <1>6 DEF MergeLocks, Locked, Linked, Redirected, MergePC
<1>8. MergeDishes(c)'
  BY <1>3, <1>4, <1>5 DEF MergeDishes, Dropped, Shifted, MergePC
<1>9. MergeReviews(c)'
  BY <1>3, <1>4, <1>5 DEF MergeReviews, Dropped, MergePC
<1>10. MergeRows(c)' /\ MergeLinks(c)'
  BY <1>3, <1>4, <1>5, <1>6 DEF MergeRows, Moved, Shifted, MergeLinks, Linked, Redirected, MergePC
<1>11. req'[c].shifted \ req[c].shifted = {}
  BY <1>3, <1>4
<1> QED BY <1>2, <1>3, <1>4, <1>7, <1>8, <1>9, <1>10, <1>11, GoneOn DEF MergePC

(* The DELETE and the aggregates change what the merge has locked or where  *)
(* it is, and nothing that it goes by.                                      *)
LEMMA EndKeeps ==
  ASSUME MergeInv, NEW c \in Client, NEW pc \in {"delete", "recompute"}, At(c, pc),
         NEW q, Becomes(c, q), q.pc \in {"recompute", "commit"}, DOMAIN q = Fields,
         \A f \in Fields \ {"pc", "own", "share"} : q[f] = req[c][f],
         q.own = req[c].own, q.share = req[c].share
  PROVE  MergeInv'
<1>1. /\ q.op = req[c].op /\ q.src = req[c].src /\ q.dst = req[c].dst /\ q.new = req[c].new
      /\ q.remapped = req[c].remapped /\ q.dropped = req[c].dropped
      /\ q.shifted = req[c].shifted /\ q.touched = req[c].touched /\ q.moved = req[c].moved
      /\ q.links = req[c].links
  BY DEF Fields
<1>2. /\ req'[c] = q /\ Goes(c, pc) /\ MergeLocks(c) /\ MergeDishes(c)
      /\ MergeReviews(c) /\ MergeRows(c) /\ MergeLinks(c)
      /\ UNCHANGED rows /\ Live' = Live
      /\ \A r, u : DishesOf(r)' = DishesOf(r) /\ Colliding(r, u)' = Colliding(r, u)
  BY <1>1, GoesOn DEF MergePC
<1>3. /\ req'[c].src = req[c].src /\ req'[c].dst = req[c].dst /\ on' = on /\ link' = link
      /\ slug' = slug /\ name' = name /\ below' = below /\ req[c].pc \in {"delete", "recompute"}
  BY <1>1, <1>2 DEF rows, At
<1>4. MergeLocks(c)'
  BY <1>1, <1>2, <1>3 DEF MergeLocks, Locked, Linked, Redirected, MergePC
<1>5. MergeDishes(c)'
  BY <1>1, <1>2, <1>3 DEF MergeDishes, Dropped, Shifted, MergePC
<1>6. MergeReviews(c)'
  BY <1>1, <1>2, <1>3 DEF MergeReviews, Dropped, MergePC
<1>7. MergeRows(c)' /\ MergeLinks(c)'
  BY <1>1, <1>2, <1>3 DEF MergeRows, Moved, Shifted, MergeLinks, Linked, Redirected, MergePC
<1>8. req'[c].shifted \ req[c].shifted = {}
  BY <1>1, <1>2
<1> QED BY <1>1, <1>2, <1>4, <1>5, <1>6, <1>7, <1>8, GoneOn DEF MergePC

LEMMA DeleteSourceKeeps ==
  ASSUME MergeInv, NEW c \in Client, DeleteSource(c)
  PROVE  MergeInv'
<1>1. PICK pc \in {"recompute", "commit"} : Becomes(c, [Holding(c) EXCEPT !.pc = pc])
  BY DEF DeleteSource
<1>2. At(c, "delete") /\ Shape(c) /\ Held(c)
  BY DEF DeleteSource, MergeInv
<1>3. req[c].op = "merge"
  BY <1>2 DEF At, Shape, Idle
<1>4. req[c].src \in req[c].own
  BY <1>2, <1>3 DEF At, Held, MergeLocks, Locked, MergePC
<1>5. WantsOwn(c) = {req[c].src} /\ WantsShare(c) = {}
  BY <1>2 DEF At, WantsOwn, WantsShare
<1> DEFINE q == [Holding(c) EXCEPT !.pc = pc]
<1>6. /\ DOMAIN q = Fields /\ q.pc = pc /\ \A f \in Fields \ {"pc"} : q[f] = Holding(c)[f]
  BY <1>2, HoldingFields DEF Fields
<1>7. q.own = req[c].own /\ q.share = req[c].share
  <2>1. Holding(c).own = req[c].own /\ Holding(c).share = req[c].share
    <3>1. /\ Holding(c).own = req[c].own \cup {req[c].src}
          /\ Holding(c).share = req[c].share \cup {}
      BY <1>2, <1>5, HoldingFields
    <3> QED BY <1>4, <3>1
  <2>2. q.own = Holding(c).own /\ q.share = Holding(c).share
    BY <1>6 DEF Fields
  <2> QED BY <2>1, <2>2
<1>8. \A f \in Fields \ {"pc", "own", "share"} : q[f] = req[c][f]
  BY <1>2, <1>6, HoldingFields
<1>9. Becomes(c, q)
  BY <1>1
<1> HIDE DEF q
<1> QED BY <1>2, <1>6, <1>7, <1>8, <1>9, EndKeeps

LEMMA RecomputeKeeps ==
  ASSUME MergeInv, NEW c \in Client, Recompute(c)
  PROVE  MergeInv'
<1> DEFINE q == [req[c] EXCEPT !.pc = "commit"]
<1>1. At(c, "recompute") /\ Becomes(c, q) /\ Shape(c)
  BY DEF Recompute, MergeInv
<1>2. /\ DOMAIN q = Fields /\ q.pc = "commit" /\ \A f \in Fields \ {"pc"} : q[f] = req[c][f]
      /\ q.own = req[c].own /\ q.share = req[c].share
  BY <1>1 DEF Shape, Fields
<1> HIDE DEF q
<1> QED BY <1>1, <1>2, EndKeeps

(* The statements of the other requests.                                    *)
LEMMA OtherGoes ==
  ASSUME MergeInv, NEW c \in Client, NEW pc, At(c, pc), NEW p,
         Becomes(c, [Holding(c) EXCEPT !.pc = p])
  PROVE  /\ Statement(c) /\ Shape(c) /\ Held(c) /\ req[c].pc = pc /\ WaitsFor(c) = {}
         /\ req'[c].op = req[c].op /\ req'[c].src = req[c].src /\ req'[c].dst = req[c].dst
         /\ req'[c].item = req[c].item /\ req'[c].new = req[c].new
         /\ req'[c].shifted = req[c].shifted /\ req'[c].pc = p /\ DOMAIN req'[c] = Fields
         /\ req'[c].own = req[c].own \cup WantsOwn(c)
         /\ req'[c].share = req[c].share \cup WantsShare(c)
         /\ req' = [req EXCEPT ![c] = req'[c]] /\ UNCHANGED rows
         /\ \A e \in Client \ {c} : req'[e] = req[e]
<1> DEFINE q == [Holding(c) EXCEPT !.pc = p]
<1>1. /\ Shape(c) /\ Held(c) /\ req = [e \in Client |-> req[e]] /\ req[c].pc = pc
      /\ WaitsFor(c) = {}
  BY DEF MergeInv, At
<1>2. /\ DOMAIN q = Fields /\ q.pc = p /\ \A f \in Fields \ {"pc"} : q[f] = Holding(c)[f]
  BY <1>1, HoldingFields DEF Fields
<1>3. Becomes(c, q)
  OBVIOUS
<1> HIDE DEF q
<1>4. /\ q.own = req[c].own \cup WantsOwn(c) /\ q.share = req[c].share \cup WantsShare(c)
      /\ \A f \in Fields \ {"pc", "own", "share"} : q[f] = req[c][f]
  BY <1>1, <1>2, HoldingFields DEF Fields
<1>5. /\ q.op = req[c].op /\ q.src = req[c].src /\ q.dst = req[c].dst
      /\ q.item = req[c].item /\ q.new = req[c].new /\ q.shifted = req[c].shifted
  BY <1>4 DEF Fields
<1>6. /\ req'[c] = q /\ req' = [req EXCEPT ![c] = req'[c]] /\ UNCHANGED rows /\ count' = count
      /\ \A e \in Client \ {c} : req'[e] = req[e]
  BY <1>1, <1>3 DEF Becomes, rows
<1> QED BY <1>1, <1>2, <1>4, <1>5, <1>6 DEF Statement

LEMMA OtherKeeps ==
  ASSUME MergeInv, NEW c \in Client, NEW pc, At(c, pc), NEW p, p # "lock",
         Becomes(c, [Holding(c) EXCEPT !.pc = p]), req[c].op # "merge",
         Entries(c)' \subseteq NewEntries(c), Shape(c)', Held(c)', ItemsApart'
  PROVE  MergeInv'
<1>1. /\ Statement(c) /\ req'[c].pc = p
      /\ req'[c].own = req[c].own \cup WantsOwn(c)
      /\ req'[c].share = req[c].share \cup WantsShare(c)
  BY OtherGoes
<1>2. /\ req'[c].own \subseteq req[c].own \cup WantsOwn(c)
      /\ req'[c].share \subseteq req[c].share \cup WantsShare(c)
      /\ Entries(c)' \subseteq Entries(c) \cup NewEntries(c)
  BY <1>1
<1> QED BY <1>1, <1>2, StatementKeeps

LEMMA InsertKeeps ==
  ASSUME MergeInv, NEW c \in Client, Insert(c)
  PROVE  MergeInv'
<1>1. PICK p \in {"rate", "commit"} : Becomes(c, [Holding(c) EXCEPT !.pc = p])
  BY DEF Insert
<1>2. At(c, "insert") /\ at[req[c].item] # None
  BY DEF Insert
<1>3. /\ Shape(c) /\ Held(c) /\ req[c].pc = "insert"
      /\ req'[c].op = req[c].op /\ req'[c].item = req[c].item /\ req'[c].new = req[c].new
      /\ req'[c].shifted = req[c].shifted /\ req'[c].pc = p /\ DOMAIN req'[c] = Fields
      /\ req'[c].share = req[c].share \cup WantsShare(c)
      /\ req' = [req EXCEPT ![c] = req'[c]] /\ UNCHANGED rows
  BY <1>1, <1>2, OtherGoes
<1>4. req[c].op = "review"
  BY <1>3 DEF Shape, Idle, MergePC
<1>5. WantsShare(c) = {req[c].item}
  BY <1>3 DEF WantsShare
<1>6. Shape(c)'
  BY <1>3, <1>4 DEF Shape
<1>7. Held(c)'
  BY <1>2, <1>3, <1>4, <1>5 DEF Held, ReviewAt, rows
<1>8. Entries(c)' = {}
  BY <1>3, <1>4 DEF Entries
<1>9. ItemsApart'
  BY <1>3, <1>4, SameItems
<1> QED BY <1>1, <1>2, <1>4, <1>6, <1>7, <1>8, <1>9, OtherKeeps

LEMMA RateKeeps ==
  ASSUME MergeInv, NEW c \in Client, Rate(c)
  PROVE  MergeInv'
<1>1. At(c, "rate") /\ Becomes(c, [Holding(c) EXCEPT !.pc = "commit"])
  BY DEF Rate
<1>2. /\ Shape(c) /\ Held(c) /\ req[c].pc = "rate"
      /\ req'[c].op = req[c].op /\ req'[c].item = req[c].item /\ req'[c].new = req[c].new
      /\ req'[c].shifted = req[c].shifted /\ req'[c].pc = "commit" /\ DOMAIN req'[c] = Fields
      /\ req'[c].share = req[c].share \cup WantsShare(c)
      /\ req' = [req EXCEPT ![c] = req'[c]] /\ UNCHANGED rows
  BY <1>1, OtherGoes
<1>3. req[c].op = "review"
  BY <1>2 DEF Shape, Idle, MergePC
<1>4. Shape(c)'
  BY <1>2, <1>3 DEF Shape
<1>5. Held(c)'
  BY <1>2, <1>3 DEF Held, ReviewAt, rows
<1>6. Entries(c)' = {}
  BY <1>2, <1>3 DEF Entries
<1>7. ItemsApart'
  BY <1>2, <1>3, SameItems
<1> QED BY <1>1, <1>3, <1>4, <1>5, <1>6, <1>7, OtherKeeps

LEMMA RenameKeeps ==
  ASSUME MergeInv, NEW c \in Client, Rename(c)
  PROVE  MergeInv'
<1>1. /\ At(c, "rename") /\ Becomes(c, [Holding(c) EXCEPT !.pc = "commit"])
      /\ at[req[c].item] # None
      /\ \A e \in DishesOf(at[req[c].item]) \ {req[c].item} : name[e] # req[c].new
  BY DEF Rename
<1>0. At(c, "rename") /\ Becomes(c, [Holding(c) EXCEPT !.pc = "commit"])
  BY <1>1
<1>2. /\ Shape(c) /\ Held(c) /\ req[c].pc = "rename"
      /\ req'[c].op = req[c].op /\ req'[c].item = req[c].item /\ req'[c].new = req[c].new
      /\ req'[c].shifted = req[c].shifted /\ req'[c].pc = "commit" /\ DOMAIN req'[c] = Fields
      /\ req'[c].own = req[c].own \cup WantsOwn(c)
      /\ req' = [req EXCEPT ![c] = req'[c]] /\ UNCHANGED rows
  BY <1>0, OtherGoes
<1>3. req[c].op = "rename"
  BY <1>2 DEF Shape, Idle, MergePC
<1>4. WantsOwn(c) = {req[c].item} /\ NewEntries(c) = {<<at[req[c].item], req[c].new>>}
  BY <1>2 DEF WantsOwn, NewEntries
<1>5. Shape(c)'
  BY <1>2, <1>3 DEF Shape
<1>6. Held(c)'
  BY <1>1, <1>2, <1>3, <1>4 DEF Held, RenameAt, rows, DishesOf
<1>7. Entries(c)' \subseteq NewEntries(c)
  BY <1>2, <1>3, <1>4 DEF Entries, rows
<1>8. ItemsApart'
  BY <1>2, <1>3, SameItems
<1> QED BY <1>1, <1>3, <1>5, <1>6, <1>7, <1>8, OtherKeeps

LEMMA AttachKeeps ==
  ASSUME MergeInv, NEW c \in Client, Attach(c)
  PROVE  MergeInv'
<1>1. /\ At(c, "attach") /\ Becomes(c, [Holding(c) EXCEPT !.pc = "commit"])
      /\ slug[req[c].src] # None
      /\ req[c].item \in Single => \A y \in Single : below[y] # req[c].src
  BY DEF Attach
<1>2. /\ Shape(c) /\ Held(c) /\ req[c].pc = "attach" /\ WaitsFor(c) = {}
      /\ req'[c].op = req[c].op /\ req'[c].item = req[c].item /\ req'[c].new = req[c].new
      /\ req'[c].src = req[c].src
      /\ req'[c].shifted = req[c].shifted /\ req'[c].pc = "commit" /\ DOMAIN req'[c] = Fields
      /\ req'[c].share = req[c].share \cup WantsShare(c)
      /\ req' = [req EXCEPT ![c] = req'[c]] /\ UNCHANGED rows
      /\ \A e \in Client \ {c} : req'[e] = req[e]
  BY <1>1, OtherGoes
<1>3. req[c].op = "attach"
  BY <1>2 DEF Shape, Idle, MergePC
<1>4. WantsShare(c) = {req[c].src}
  BY <1>2 DEF WantsShare
<1>5. Shape(c)'
  BY <1>2, <1>3 DEF Shape
<1>6. Held(c)'
  BY <1>1, <1>2, <1>3, <1>4 DEF Held, AttachAt, rows, Live, Shape
<1>7. Entries(c)' = {}
  BY <1>2, <1>3 DEF Entries
<1>8. ItemsApart'
  <2>1. ASSUME NEW e \in Client \ {c}, req[e].op = "attach"
        PROVE  /\ req[c].item # req[e].item
               /\ req[e].pc = "commit" /\ req[c].item \in Single /\ req[e].item \in Single
                  => req[c].src # req[e].src
    <3>1. req[c].item # req[e].item
      BY <1>3, <2>1 DEF MergeInv, ItemsApart
    <3>2. e \notin WaitsFor(c)
      BY <1>2
    <3> QED BY <1>2, <2>1, <3>1, <3>2 DEF WaitsFor, Others
  <2>2. ItemsApart
    BY DEF MergeInv
  <2> QED BY <1>2, <1>3, <2>1, <2>2 DEF ItemsApart
<1> QED BY <1>1, <1>3, <1>5, <1>6, <1>7, <1>8, OtherKeeps

LEMMA EraseKeeps ==
  ASSUME MergeInv, NEW c \in Client, Erase(c)
  PROVE  MergeInv'
<1>1. /\ At(c, "erase") /\ Becomes(c, [Holding(c) EXCEPT !.pc = "cascade"])
      /\ slug[req[c].src] # None
  BY DEF Erase
<1>2. /\ Shape(c) /\ Held(c) /\ req[c].pc = "erase"
      /\ req'[c].op = req[c].op /\ req'[c].src = req[c].src
      /\ req'[c].shifted = req[c].shifted /\ req'[c].pc = "cascade" /\ DOMAIN req'[c] = Fields
      /\ req'[c].own = req[c].own \cup WantsOwn(c)
      /\ req' = [req EXCEPT ![c] = req'[c]] /\ UNCHANGED rows
  BY <1>1, OtherGoes
<1>3. req[c].op = "delete"
  BY <1>2 DEF Shape, Idle, MergePC
<1>4. WantsOwn(c) = {req[c].src}
  BY <1>2 DEF WantsOwn
<1>5. Shape(c)'
  BY <1>2, <1>3 DEF Shape
<1>6. Held(c)'
  BY <1>1, <1>2, <1>3, <1>4 DEF Held, DeleteAt, rows, Live, Shape
<1>7. Entries(c)' = {}
  BY <1>2, <1>3 DEF Entries
<1>8. ItemsApart'
  BY <1>2, <1>3, SameItems
<1> QED BY <1>1, <1>3, <1>5, <1>6, <1>7, <1>8, OtherKeeps

LEMMA CascadeKeeps ==
  ASSUME MergeInv, NEW c \in Client, Cascade(c)
  PROVE  MergeInv'
<1>1. /\ At(c, "cascade") /\ Becomes(c, [Holding(c) EXCEPT !.pc = "commit"])
  BY DEF Cascade
<1>2. /\ Shape(c) /\ Held(c) /\ req[c].pc = "cascade"
      /\ req'[c].op = req[c].op /\ req'[c].src = req[c].src
      /\ req'[c].shifted = req[c].shifted /\ req'[c].pc = "commit" /\ DOMAIN req'[c] = Fields
      /\ req'[c].own = req[c].own \cup WantsOwn(c)
      /\ req' = [req EXCEPT ![c] = req'[c]] /\ UNCHANGED rows
  BY <1>1, OtherGoes
<1>3. req[c].op = "delete"
  BY <1>2 DEF Shape, Idle, MergePC
<1>4. DishesOf(req[c].src) \cup {x \in Slug : link[x] = req[c].src} \subseteq WantsOwn(c)
  BY <1>2 DEF WantsOwn
<1>5. Shape(c)'
  BY <1>2, <1>3 DEF Shape
<1>6. Held(c)'
  <2>1. req'[c].src \in req'[c].own \cap Live'
    BY <1>2, <1>3 DEF Held, DeleteAt, rows, Live
  <2>2. /\ DishesOf(req[c].src)' \subseteq req'[c].own
        /\ \A x \in Slug : link'[x] = req[c].src => x \in req'[c].own
    BY <1>2, <1>4 DEF DishesOf, rows
  <2> QED BY <1>2, <1>3, <2>1, <2>2 DEF Held, DeleteAt
<1>7. Entries(c)' = {}
  BY <1>2, <1>3 DEF Entries
<1>8. ItemsApart'
  BY <1>2, <1>3, SameItems
<1> QED BY <1>1, <1>3, <1>5, <1>6, <1>7, <1>8, OtherKeeps

------------------------------------------------------------------------------
(* The commits.                                                             *)
LEMMA SomeoneElse ==
  ASSUME MergeInv, NEW c \in Client, NEW e \in Client \ {c}
  PROVE  /\ Shape(e) /\ Held(e) /\ req[c].own \cap (req[e].own \cup req[e].share) = {}
         /\ req[e].own \cap (req[c].own \cup req[c].share) = {}
         /\ Entries(c) \cap Entries(e) = {} /\ None \notin req[e].own
         /\ \A n : <<None, n>> \notin Entries(e)
<1> USE MergeAssumption
<1>1. Shape(e) /\ Held(e)
  BY DEF MergeInv
<1>2. ASSUME NEW n, <<None, n>> \in Entries(e)
      PROVE  FALSE
  <2>1. CASE req[e].op = "rename" /\ req[e].pc = "commit"
    BY <1>1, <1>2, <2>1 DEF Entries, Held, RenameAt
  <2>2. CASE req[e].op = "merge"
    BY <1>1, <1>2, <2>2 DEF Entries, Shape
  <2>3. CASE req[e].op # "merge" /\ ~(req[e].op = "rename" /\ req[e].pc = "commit")
    BY <1>2, <2>3 DEF Entries
  <2> QED BY <2>1, <2>2, <2>3
<1> QED BY <1>1, <1>2 DEF MergeInv, LocksApart, EntriesApart

(* The reviews that a merge has locked are of dishes of its source.         *)
LEMMA ReviewsLocked ==
  ASSUME MergeInv, NEW e \in Client, req[e].op = "merge", NEW v \in req[e].own \cap Review
  PROVE  on[v] \in DishesOf(req[e].src) /\ req[e].src \in req[e].own
<1>1. Shape(e) /\ MergeLocks(e)
  BY DEF MergeInv, Held
<1>2. CASE req[e].pc = "lock"
  <2>1. v \in Restaurant
    BY <1>1, <1>2 DEF MergeLocks, Live
  <2> QED BY <2>1, MergeAssumption
<1>3. CASE req[e].pc # "lock"
  BY <1>1, <1>3 DEF MergeLocks, Locked, Shape
<1> QED BY <1>2, <1>3

(* A restaurant goes: what was at it is gone before.                        *)
LEMMA LeavesTyped ==
  ASSUME MergeTypeOK, NEW s \in Live, slug' = [slug EXCEPT ![s] = None]
  PROVE  /\ slug' \in [Restaurant -> Slug \cup {None}] /\ Live' = Live \ {s}
         /\ \A r, u \in Live' : slug'[r] = slug'[u] => r = u
<1> USE MergeAssumption
<1>1. slug \in [Restaurant -> Slug \cup {None}] /\ s \in Restaurant
  BY DEF MergeTypeOK, Database, Live
<1>2. slug' \in [Restaurant -> Slug \cup {None}]
  BY <1>1
<1>3. Live' = Live \ {s}
  BY <1>1 DEF Live
<1> QED BY <1>1, <1>2, <1>3 DEF MergeTypeOK, Database, Live

LEMMA CommitMergeKeeps ==
  ASSUME MergeInv, NEW c \in Client, CommitMerge(c)
  PROVE  MergeInv'
<1> USE MergeAssumption
<1> DEFINE q == req[c]
           s == q.src
           t == q.dst
           gone == q.dropped \cup (DishesOf(s) \ q.shifted)
           NewDish(v) == {p[2] : p \in {m \in q.remapped : m[1] = v}}
<1>1. /\ MergeTypeOK /\ Shape(c) /\ req[c].op = "merge" /\ req[c].pc = "commit"
      /\ MergeLocks(c) /\ MergeDishes(c) /\ MergeReviews(c) /\ MergeRows(c) /\ MergeLinks(c)
      /\ req = [e \in Client |-> req[e]]
  BY DEF MergeInv, CommitMerge, Held
<1>2. /\ {s, t} \subseteq q.own \cap Live /\ s # t /\ {s, t} \subseteq Restaurant
      /\ gone = q.dropped /\ DishesOf(s) = q.dropped \cup q.shifted
      /\ q.dropped \cap q.shifted = {} /\ q.dropped \cup q.shifted \subseteq q.own
      /\ \A d \in q.shifted, e \in DishesOf(t) : name[d] # name[e]
      /\ \A p \in q.remapped : p[1] \in q.own \cap Review /\ p[2] \in DishesOf(t) \cap q.share
  <2>1. {s, t} \subseteq q.own \cap Live /\ s # t /\ {s, t} \subseteq Restaurant
    BY <1>1 DEF MergeLocks, Locked, MergePC, Shape
  <2>2. /\ DishesOf(s) = q.dropped \cup q.shifted
        /\ q.dropped \cap q.shifted = {} /\ q.dropped \cup q.shifted \subseteq q.own
        /\ \A d \in q.shifted, e \in DishesOf(t) : name[d] # name[e]
    BY <1>1 DEF MergeDishes, Dropped, Shifted, MergePC
  <2>3. \A p \in q.remapped : p[1] \in q.own \cap Review /\ p[2] \in DishesOf(t) \cap q.share
    BY <1>1 DEF MergeDishes
  <2> QED BY <2>1, <2>2, <2>3
<1>3. /\ q.moved \subseteq {x \in Single \cup Plain : below[x] = s}
      /\ q.moved \cap Single # {} => \A y \in Single : below[y] # t
      /\ q.links \subseteq q.own \cap Slug /\ \A x \in Slug : link[x] = s => x \in q.links
  BY <1>1 DEF MergeRows, Moved, Shifted, MergePC, MergeLinks, Linked
<1>4. /\ slug' = [slug EXCEPT ![s] = None]
      /\ link' = [x \in Slug |-> IF x \in q.links THEN t
                                 ELSE IF link[x] = s THEN None ELSE link[x]]
      /\ at' = [d \in Dish |-> IF d \in gone THEN None ELSE IF d \in q.shifted THEN t ELSE at[d]]
      /\ on' = [v \in Review |-> IF NewDish(v) # {} THEN CHOOSE d \in NewDish(v) : TRUE
                                 ELSE IF on[v] \in gone THEN None ELSE on[v]]
      /\ below' = [x \in Row |-> IF x \in q.moved THEN t
                                 ELSE IF below[x] = s THEN None ELSE below[x]]
      /\ req' = [req EXCEPT ![c] = Idle] /\ name' = name /\ count' = count
  BY DEF CommitMerge
<1>5. \A v \in Review :
        \/ \E p \in q.remapped : p[1] = v /\ on'[v] = p[2]
        \/ on[v] \in q.dropped /\ on'[v] = None
        \/ on[v] \notin q.dropped /\ on'[v] = on[v]
  <2>1. ASSUME NEW v \in Review, NewDish(v) # {}
        PROVE  \E p \in q.remapped : p[1] = v /\ on'[v] = p[2]
    <3>1. on'[v] \in NewDish(v)
      BY <1>4, <2>1
    <3> QED BY <3>1
  <2>2. ASSUME NEW v \in Review, NewDish(v) = {}
        PROVE  \/ on[v] \in q.dropped /\ on'[v] = None
               \/ on[v] \notin q.dropped /\ on'[v] = on[v]
    <3> HIDE DEF NewDish
    <3> QED BY <1>2, <1>4, <2>2
  <2> QED BY <2>1, <2>2
<1>6. \A d \in Dish : \/ d \in q.dropped /\ at[d] = s /\ at'[d] = None
                      \/ d \in q.shifted /\ d \notin q.dropped /\ at[d] = s /\ at'[d] = t
                      \/ d \notin q.dropped \cup q.shifted /\ at[d] # s /\ at'[d] = at[d]
  BY <1>2, <1>4 DEF DishesOf
<1>7. \A x \in Row : \/ x \in q.moved /\ below[x] = s /\ below'[x] = t
                     \/ x \notin q.moved /\ below[x] = s /\ below'[x] = None
                     \/ x \notin q.moved /\ below[x] # s /\ below'[x] = below[x]
  BY <1>3, <1>4
<1>8. MergeTypeOK'
  <2>1. /\ slug' \in [Restaurant -> Slug \cup {None}] /\ Live' = Live \ {s}
        /\ \A r, u \in Live' : slug'[r] = slug'[u] => r = u
    BY <1>1, <1>2, <1>4, LeavesTyped
  <2>2. link' \in [Slug -> Live' \cup {None}]
    BY <1>1, <1>2, <1>3, <1>4, <2>1 DEF MergeTypeOK, Database
  <2>3. at' \in [Dish -> Live' \cup {None}]
    <3>1. \A d \in Dish : at'[d] \in Live' \cup {None}
      BY <1>1, <1>2, <1>6, <2>1 DEF MergeTypeOK, Database
    <3>2. at' = [d \in Dish |-> at'[d]]
      BY <1>4
    <3> QED BY <3>1, <3>2
  <2>4. on' \in [Review -> {d \in Dish : at'[d] # None} \cup {None}]
    <3>1. ASSUME NEW v \in Review
          PROVE  on'[v] \in {d \in Dish : at'[d] # None} \cup {None}
      <4>1. CASE \E p \in q.remapped : p[1] = v /\ on'[v] = p[2]
        <5>1. on'[v] \in Dish /\ at[on'[v]] = t
          BY <1>2, <4>1 DEF DishesOf
        <5> QED BY <1>2, <1>6, <5>1
      <4>2. CASE on[v] \in q.dropped /\ on'[v] = None
        BY <4>2
      <4>3. CASE on[v] \notin q.dropped /\ on'[v] = on[v]
        <5>1. on[v] \in {d \in Dish : at[d] # None} \cup {None}
          BY <1>1 DEF MergeTypeOK, Database
        <5>2. CASE on[v] = None
          BY <4>3, <5>2
        <5>3. CASE on[v] \in Dish /\ at[on[v]] # None
          BY <1>2, <1>6, <4>3, <5>3
        <5> QED BY <5>1, <5>2, <5>3
      <4> QED BY <1>5, <4>1, <4>2, <4>3
    <3>2. on' = [v \in Review |-> on'[v]]
      <4> HIDE DEF NewDish
      <4> QED BY <1>4
    <3> QED BY <3>1, <3>2
  <2>5. below' \in [Row -> Live' \cup {None}]
    <3>1. \A x \in Row : below'[x] \in Live' \cup {None}
      BY <1>1, <1>2, <1>7, <2>1 DEF MergeTypeOK, Database
    <3>2. below' = [x \in Row |-> below'[x]]
      BY <1>4
    <3> QED BY <3>1, <3>2
  <2>6. ASSUME NEW d \in Dish, NEW e \in Dish, at'[d] = at'[e], at'[d] # None, name'[d] = name'[e]
        PROVE  d = e
    <3>1. name[d] = name[e]
      BY <1>4, <2>6
    <3>2. CASE d \in q.shifted \/ e \in q.shifted
      BY <1>2, <1>6, <2>6, <3>1, <3>2, <1>1 DEF MergeTypeOK, Database, DishesOf
    <3>3. CASE d \notin q.shifted /\ e \notin q.shifted
      BY <1>6, <2>6, <3>1, <3>3, <1>1 DEF MergeTypeOK, Database
    <3> QED BY <3>2, <3>3
  <2>7. ASSUME NEW x \in Single, NEW y \in Single, below'[x] = below'[y], below'[x] # None
        PROVE  x = y
    <3>1. x \in Row /\ y \in Row
      BY DEF Row
    <3>2. CASE x \in q.moved \/ y \in q.moved
      BY <1>2, <1>3, <1>7, <2>7, <3>1, <3>2, <1>1 DEF MergeTypeOK, Database, Live
    <3>3. CASE x \notin q.moved /\ y \notin q.moved
      BY <1>7, <2>7, <3>1, <3>3, <1>1 DEF MergeTypeOK, Database
    <3> QED BY <3>2, <3>3
  <2> QED BY <1>1, <1>4, <2>1, <2>2, <2>3, <2>4, <2>5, <2>6, <2>7 DEF MergeTypeOK, Database
<1> HIDE DEF NewDish
<1>9. ASSUME NEW e \in Client \ {c}
      PROVE  Rely(e) /\ Stays(e)
  <2>1. /\ Shape(e) /\ Held(e) /\ q.own \cap (req[e].own \cup req[e].share) = {}
        /\ req[e].own \cap (q.own \cup q.share) = {}
        /\ Entries(c) \cap Entries(e) = {} /\ None \notin req[e].own
        /\ \A n : <<None, n>> \notin Entries(e)
    BY SomeoneElse
  <2>2. Stays(e)
    BY <1>4, <2>1 DEF Stays, Shape
  <2>3. \A r \in Restaurant : slug'[r] # slug[r] => r \notin req[e].own \cup req[e].share
    BY <1>1, <1>2, <1>4, <2>1 DEF MergeTypeOK, Database
  <2>4. \A x \in Slug : link'[x] # link[x] => x \notin req[e].own /\ link'[x] \notin req[e].own
    BY <1>2, <1>3, <1>4, <2>1
  <2>5. ASSUME NEW d \in Dish, at'[d] # at[d]
        PROVE  /\ d \notin req[e].own \cup req[e].share /\ at[d] \notin req[e].own
               /\ at'[d] \notin req[e].own /\ <<at'[d], name'[d]>> \notin Entries(e)
    <3>1. d \in q.dropped \cup q.shifted /\ at[d] = s /\ at'[d] \in {None, t}
      BY <1>6, <2>5
    <3>2. at'[d] = t => <<at'[d], name'[d]>> \in Entries(c)
      BY <1>1, <1>2, <1>4, <1>6, <2>5 DEF Entries
    <3> QED BY <1>2, <2>1, <3>1, <3>2
  <2>6. ASSUME NEW v \in Review, on'[v] # on[v]
        PROVE  /\ req[e].op = "merge" => v \notin req[e].own /\ on'[v] \notin req[e].own
               /\ req[e].op = "review" => v # req[e].new
               /\ on'[v] = None \/ (on'[v] \in Dish /\ at[on'[v]] \notin req[e].own)
    <3>1. CASE \E p \in q.remapped : p[1] = v /\ on'[v] = p[2]
      <4>1. v \in q.own \cap Review /\ on'[v] \in DishesOf(t) \cap q.share
        BY <1>2, <3>1
      <4>2. on[v] \in DishesOf(s)
        BY <1>1, <4>1, ReviewsLocked
      <4>3. on[v] # None
        BY <4>2 DEF DishesOf
      <4> QED BY <1>2, <2>1, <4>1, <4>3 DEF DishesOf, Held, ReviewAt
    <3>2. CASE on[v] \in q.dropped /\ on'[v] = None
      <4>1. on[v] \in Dish /\ at[on[v]] = s
        BY <1>2, <3>2 DEF DishesOf
      <4>2. req[e].op = "merge" => v \notin req[e].own
        BY <1>2, <2>1, <4>1, ReviewsLocked DEF DishesOf
      <4> QED BY <2>1, <3>2, <4>1, <4>2 DEF Held, ReviewAt
    <3> QED BY <1>5, <2>6, <3>1, <3>2
  <2>7. ASSUME NEW x \in Row, below'[x] # below[x]
        PROVE  /\ below[x] \notin req[e].own /\ below'[x] \notin req[e].own
               /\ req[e].op = "attach" => x # req[e].item
               /\ req[e].op = "attach" /\ req[e].pc = "commit" /\ req[e].item \in Single
                    /\ x \in Single => below'[x] # req[e].src
    <3>1. below[x] = s /\ below'[x] \in {None, t}
      BY <1>7, <2>7
    <3>2. req[e].op = "attach" => below[req[e].item] = None
      BY <2>1 DEF Held, AttachAt
    <3>3. req[e].op = "attach" /\ req[e].pc = "commit" =>
            req[e].src \in req[e].share /\ req[e].src # None
      BY <2>1 DEF Held, AttachAt, Shape
    <3> QED BY <1>2, <2>1, <3>1, <3>2, <3>3
  <2> QED BY <1>4, <2>2, <2>3, <2>4, <2>5, <2>6, <2>7 DEF Rely
<1>10. req' = [e \in Client |-> req'[e]] /\ req'[c] = Idle
  BY <1>1, <1>4
<1> QED BY <1>8, <1>9, <1>10, RelyKeeps

LEMMA CommitDeleteKeeps ==
  ASSUME MergeInv, NEW c \in Client, CommitDelete(c)
  PROVE  MergeInv'
<1> USE MergeAssumption
<1> DEFINE s == req[c].src
<1>1. /\ MergeTypeOK /\ Shape(c) /\ req[c].op = "delete" /\ req[c].pc = "commit"
      /\ DeleteAt(c) /\ req = [e \in Client |-> req[e]]
  BY DEF MergeInv, CommitDelete, Held
<1>2. /\ s \in req[c].own \cap Live /\ s \in Restaurant
      /\ DishesOf(s) \subseteq req[c].own /\ \A x \in Slug : link[x] = s => x \in req[c].own
  BY <1>1 DEF DeleteAt, Shape
<1>3. /\ slug' = [slug EXCEPT ![s] = None]
      /\ link' = [x \in Slug |-> IF link[x] = s THEN None ELSE link[x]]
      /\ at' = [d \in Dish |-> IF at[d] = s THEN None ELSE at[d]]
      /\ on' = [v \in Review |-> IF on[v] \in DishesOf(s) THEN None ELSE on[v]]
      /\ below' = [x \in Row |-> IF below[x] = s THEN None ELSE below[x]]
      /\ req' = [req EXCEPT ![c] = Idle] /\ name' = name /\ count' = count
  BY DEF CommitDelete
<1>4. MergeTypeOK'
  <2>1. /\ slug' \in [Restaurant -> Slug \cup {None}] /\ Live' = Live \ {s}
        /\ \A r, u \in Live' : slug'[r] = slug'[u] => r = u
    BY <1>1, <1>2, <1>3, LeavesTyped
  <2>2. /\ link' \in [Slug -> Live' \cup {None}] /\ at' \in [Dish -> Live' \cup {None}]
        /\ below' \in [Row -> Live' \cup {None}]
    BY <1>1, <1>3, <2>1 DEF MergeTypeOK, Database
  <2>3. on' \in [Review -> {d \in Dish : at'[d] # None} \cup {None}]
    <3>1. ASSUME NEW v \in Review
          PROVE  on'[v] \in {d \in Dish : at'[d] # None} \cup {None}
      <4>1. on[v] \in {d \in Dish : at[d] # None} \cup {None}
        BY <1>1 DEF MergeTypeOK, Database
      <4> QED BY <1>3, <4>1 DEF DishesOf
    <3>2. on' = [v \in Review |-> on'[v]]
      BY <1>3
    <3> QED BY <3>1, <3>2
  <2>4. \A d, e \in Dish : at'[d] = at'[e] /\ at'[d] # None /\ name'[d] = name'[e] => d = e
    BY <1>1, <1>3 DEF MergeTypeOK, Database
  <2>5. \A x, y \in Single : below'[x] = below'[y] /\ below'[x] # None => x = y
    BY <1>1, <1>3 DEF MergeTypeOK, Database, Row
  <2> QED BY <1>1, <1>3, <2>1, <2>2, <2>3, <2>4, <2>5 DEF MergeTypeOK, Database
<1>5. ASSUME NEW e \in Client \ {c}
      PROVE  Rely(e) /\ Stays(e)
  <2>1. /\ Shape(e) /\ Held(e) /\ req[c].own \cap (req[e].own \cup req[e].share) = {}
        /\ None \notin req[e].own
        /\ \A n : <<None, n>> \notin Entries(e)
    BY SomeoneElse
  <2>2. Stays(e)
    BY <1>3, <2>1 DEF Stays, Shape
  <2>3. \A r \in Restaurant : slug'[r] # slug[r] => r \notin req[e].own \cup req[e].share
    BY <1>1, <1>2, <1>3, <2>1 DEF MergeTypeOK, Database
  <2>4. \A x \in Slug : link'[x] # link[x] => x \notin req[e].own /\ link'[x] \notin req[e].own
    BY <1>2, <1>3, <2>1
  <2>5. ASSUME NEW d \in Dish, at'[d] # at[d]
        PROVE  /\ d \notin req[e].own \cup req[e].share /\ at[d] \notin req[e].own
               /\ at'[d] \notin req[e].own /\ <<at'[d], name'[d]>> \notin Entries(e)
    <3>1. d \in DishesOf(s) /\ at[d] = s /\ at'[d] = None
      BY <1>3, <2>5 DEF DishesOf
    <3> QED BY <1>2, <2>1, <3>1
  <2>6. ASSUME NEW v \in Review, on'[v] # on[v]
        PROVE  /\ req[e].op = "merge" => v \notin req[e].own /\ on'[v] \notin req[e].own
               /\ req[e].op = "review" => v # req[e].new
               /\ on'[v] = None
    <3>1. on[v] \in Dish /\ at[on[v]] = s /\ on'[v] = None
      BY <1>3, <2>6 DEF DishesOf
    <3>2. req[e].op = "merge" => v \notin req[e].own
      BY <1>2, <2>1, <3>1, ReviewsLocked DEF DishesOf
    <3> QED BY <2>1, <3>1, <3>2 DEF Held, ReviewAt
  <2>7. ASSUME NEW x \in Row, below'[x] # below[x]
        PROVE  /\ below[x] \notin req[e].own /\ below'[x] \notin req[e].own
               /\ req[e].op = "attach" => x # req[e].item
               /\ req[e].op = "attach" /\ req[e].pc = "commit" /\ req[e].item \in Single
                    /\ x \in Single => below'[x] # req[e].src
    <3>1. below[x] = s /\ below'[x] = None
      BY <1>3, <2>7
    <3>2. req[e].op = "attach" => below[req[e].item] = None /\ req[e].src # None
      BY <2>1 DEF Held, AttachAt, Shape
    <3> QED BY <1>2, <2>1, <3>1, <3>2
  <2> QED BY <1>3, <2>2, <2>3, <2>4, <2>5, <2>6, <2>7 DEF Rely
<1>6. req' = [e \in Client |-> req'[e]] /\ req'[c] = Idle
  BY <1>1, <1>3
<1> QED BY <1>4, <1>5, <1>6, RelyKeeps

LEMMA CommitAttachKeeps ==
  ASSUME MergeInv, NEW c \in Client, CommitAttach(c)
  PROVE  MergeInv'
<1> USE MergeAssumption
<1> DEFINE s == req[c].src
           i == req[c].item
<1>1. /\ MergeTypeOK /\ Shape(c) /\ req[c].op = "attach" /\ req[c].pc = "commit"
      /\ AttachAt(c) /\ req = [e \in Client |-> req[e]] /\ ItemsApart
  BY DEF MergeInv, CommitAttach, Held
<1>2. /\ s \in req[c].share \cap Live /\ i \in Row /\ below[i] = None
      /\ i \in Single => \A y \in Single : below[y] # s
  BY <1>1 DEF AttachAt, Shape
<1>3. /\ below' = [below EXCEPT ![i] = s]
      /\ req' = [req EXCEPT ![c] = Idle] /\ UNCHANGED <<slug, link, at, name, on, count>>
  BY DEF CommitAttach
<1>4. MergeTypeOK'
  <2>1. Live' = Live
    BY <1>3 DEF Live
  <2>2. below' \in [Row -> Live' \cup {None}]
    BY <1>1, <1>2, <1>3, <2>1 DEF MergeTypeOK, Database
  <2>3. \A x, y \in Single : below'[x] = below'[y] /\ below'[x] # None => x = y
    BY <1>1, <1>2, <1>3 DEF MergeTypeOK, Database, Row
  <2> QED BY <1>1, <1>3, <2>1, <2>2, <2>3 DEF MergeTypeOK, Database
<1>5. ASSUME NEW e \in Client \ {c}
      PROVE  Rely(e) /\ Stays(e)
  <2>1. /\ Shape(e) /\ req[e].own \cap (req[c].own \cup req[c].share) = {}
        /\ None \notin req[e].own
    BY SomeoneElse
  <2>2. Stays(e)
    BY <1>3, <2>1 DEF Stays, Shape
  <2>3. ASSUME NEW x \in Row, below'[x] # below[x]
        PROVE  /\ below[x] \notin req[e].own /\ below'[x] \notin req[e].own
               /\ req[e].op = "attach" => x # req[e].item
               /\ req[e].op = "attach" /\ req[e].pc = "commit" /\ req[e].item \in Single
                    /\ x \in Single => below'[x] # req[e].src
    <3>1. x = i /\ below'[x] = s
      BY <1>1, <1>3, <2>3 DEF MergeTypeOK, Database
    <3> QED BY <1>1, <1>2, <2>1, <3>1 DEF ItemsApart
  <2> QED BY <1>3, <2>2, <2>3 DEF Rely
<1>6. req' = [e \in Client |-> req'[e]] /\ req'[c] = Idle
  BY <1>1, <1>3
<1> QED BY <1>4, <1>5, <1>6, RelyKeeps

(* What the others learn of a commit that touches a dish.                   *)
LEMMA FinishStays ==
  ASSUME MergeInv, NEW c \in Client, NEW n, Finish(c, n), NEW e \in Client \ {c}
  PROVE  Stays(e) /\ (req[e].pc = "drop" => n \in req'[e].touched)
<1>1. Shape(e) /\ req'[e] = IF req[e].pc = "drop"
                            THEN [req[e] EXCEPT !.touched = @ \cup {n}] ELSE req[e]
  BY DEF MergeInv, Finish
<1>2. CASE req[e].pc = "drop"
  <2>1. req[e].op = "merge"
    BY <1>1, <1>2 DEF Shape, Idle
  <2>2. /\ DOMAIN req'[e] = Fields /\ \A f \in Fields \ {"touched"} : req'[e][f] = req[e][f]
        /\ req'[e].touched = req[e].touched \cup {n}
    BY <1>1, <1>2 DEF Shape, Fields
  <2> QED BY <2>1, <2>2 DEF Stays
<1>3. CASE req[e].pc # "drop"
  BY <1>1, <1>3 DEF Stays, Shape
<1> QED BY <1>2, <1>3

LEMMA CommitReviewKeeps ==
  ASSUME MergeInv, NEW c \in Client, CommitReview(c)
  PROVE  MergeInv'
<1> USE MergeAssumption
<1> DEFINE v == req[c].new
           i == req[c].item
<1>1. /\ MergeTypeOK /\ Shape(c) /\ req[c].op = "review" /\ req[c].pc = "commit"
      /\ ReviewAt(c) /\ ItemsApart
  BY DEF MergeInv, CommitReview, Held
<1>2. v \in Review /\ i \in Dish /\ on[v] = None /\ i \in req[c].share /\ at[i] # None
  BY <1>1 DEF ReviewAt, Shape
<1>3. /\ on' = [on EXCEPT ![v] = i] /\ Finish(c, name[i])
      /\ UNCHANGED <<slug, link, at, name, below, count>>
  BY DEF CommitReview
<1>4. MergeTypeOK'
  <2>1. Live' = Live
    BY <1>3 DEF Live
  <2>2. on' \in [Review -> {d \in Dish : at'[d] # None} \cup {None}]
    BY <1>1, <1>2, <1>3 DEF MergeTypeOK, Database
  <2> QED BY <1>1, <1>3, <2>1, <2>2 DEF MergeTypeOK, Database
<1>5. ASSUME NEW e \in Client \ {c}
      PROVE  Rely(e) /\ Stays(e)
  <2>1. /\ Shape(e) /\ Held(e) /\ req[e].own \cap (req[c].own \cup req[c].share) = {}
    BY SomeoneElse
  <2>2. Stays(e) /\ (req[e].pc = "drop" => name[i] \in req'[e].touched)
    BY <1>3, FinishStays
  <2>3. ASSUME NEW w \in Review, on'[w] # on[w]
        PROVE  /\ req[e].op = "merge" => w \notin req[e].own /\ on'[w] \notin req[e].own
               /\ req[e].op = "review" => w # req[e].new
               /\ req[e].pc = "drop" => name'[on'[w]] \in req'[e].touched
    <3>1. w = v /\ on'[w] = i
      BY <1>1, <1>3, <2>3 DEF MergeTypeOK, Database
    <3>2. req[e].op = "merge" => w \notin req[e].own
      BY <1>2, <3>1, ReviewsLocked DEF DishesOf
    <3> QED BY <1>1, <1>2, <1>3, <2>1, <2>2, <3>1, <3>2 DEF ItemsApart
  <2> QED BY <1>3, <2>2, <2>3 DEF Rely
<1>6. req' = [e \in Client |-> req'[e]] /\ req'[c] = Idle
  BY <1>3 DEF Finish
<1> QED BY <1>4, <1>5, <1>6, RelyKeeps

LEMMA CommitRenameKeeps ==
  ASSUME MergeInv, NEW c \in Client, CommitRename(c)
  PROVE  MergeInv'
<1> USE MergeAssumption
<1> DEFINE n == req[c].new
           i == req[c].item
<1>1. /\ MergeTypeOK /\ Shape(c) /\ req[c].op = "rename" /\ req[c].pc = "commit"
      /\ RenameAt(c)
  BY DEF MergeInv, CommitRename, Held
<1>2. /\ n \in Name /\ i \in Dish /\ i \in req[c].own /\ at[i] # None
      /\ \A e \in DishesOf(at[i]) \ {i} : name[e] # n
  BY <1>1 DEF RenameAt, Shape
<1>3. /\ name' = [name EXCEPT ![i] = n] /\ Finish(c, n)
      /\ UNCHANGED <<slug, link, at, on, below, count>>
  BY DEF CommitRename
<1>4. MergeTypeOK'
  <2>1. Live' = Live
    BY <1>3 DEF Live
  <2>2. name' \in [Dish -> Name]
    BY <1>1, <1>2, <1>3 DEF MergeTypeOK, Database
  <2>3. \A d, e \in Dish : at'[d] = at'[e] /\ at'[d] # None /\ name'[d] = name'[e] => d = e
    BY <1>1, <1>2, <1>3 DEF MergeTypeOK, Database, DishesOf
  <2> QED BY <1>1, <1>3, <2>1, <2>2, <2>3 DEF MergeTypeOK, Database
<1>5. ASSUME NEW e \in Client \ {c}
      PROVE  Rely(e) /\ Stays(e)
  <2>1. /\ Shape(e) /\ Held(e) /\ req[c].own \cap (req[e].own \cup req[e].share) = {}
        /\ Entries(c) \cap Entries(e) = {}
    BY SomeoneElse
  <2>2. Stays(e) /\ (req[e].pc = "drop" => n \in req'[e].touched)
    BY <1>3, FinishStays
  <2>3. ASSUME NEW d \in Dish, name'[d] # name[d]
        PROVE  /\ d \notin req[e].own \cup req[e].share /\ at'[d] = at[d]
               /\ <<at[d], name'[d]>> \notin Entries(e)
               /\ req[e].pc = "drop" => name'[d] \in req'[e].touched
    <3>1. d = i /\ name'[d] = n
      BY <1>1, <1>3, <2>3 DEF MergeTypeOK, Database
    <3>2. <<at[i], n>> \in Entries(c)
      BY <1>1 DEF Entries
    <3> QED BY <1>2, <1>3, <2>1, <2>2, <3>1, <3>2
  <2> QED BY <1>3, <2>2, <2>3 DEF Rely
<1>6. req' = [e \in Client |-> req'[e]] /\ req'[c] = Idle
  BY <1>3 DEF Finish
<1> QED BY <1>4, <1>5, <1>6, RelyKeeps

LEMMA TakeSlugKeeps ==
  ASSUME MergeInv, NEW r \in Restaurant, NEW x \in Slug, TakeSlug(r, x)
  PROVE  MergeInv'
<1> USE MergeAssumption
<1>1. /\ MergeTypeOK /\ req = [e \in Client |-> req[e]]
      /\ \A e \in Client : Shape(e)
  BY DEF MergeInv
<1>2. /\ slug' = [slug EXCEPT ![r] = x] /\ count < MaxRequests /\ count' = count + 1
      /\ \A s \in Restaurant : slug[s] # x
      /\ \A e \in Client : r \notin req[e].own \cup req[e].share
      /\ UNCHANGED <<link, at, name, on, below, req>>
  BY DEF TakeSlug
<1>3. MergeTypeOK'
  <2>1. Live' = Live \cup {r}
    BY <1>1, <1>2 DEF MergeTypeOK, Database, Live
  <2>2. slug' \in [Restaurant -> Slug \cup {None}]
    BY <1>1, <1>2 DEF MergeTypeOK, Database
  <2>3. \A s, t \in Live' : slug'[s] = slug'[t] => s = t
    BY <1>1, <1>2, <2>1 DEF MergeTypeOK, Database, Live
  <2>4. count' \in 0 .. MaxRequests
    BY <1>1, <1>2 DEF MergeTypeOK, Database
  <2> QED BY <1>1, <1>2, <2>1, <2>2, <2>3, <2>4 DEF MergeTypeOK, Database
<1>4. ASSUME NEW e \in Client
      PROVE  Rely(e) /\ Stays(e)
  <2>1. Stays(e)
    BY <1>1, <1>2 DEF Stays, Shape
  <2>2. \A s \in Restaurant : slug'[s] # slug[s] => s \notin req[e].own \cup req[e].share
    BY <1>1, <1>2 DEF MergeTypeOK, Database
  <2> QED BY <1>2, <2>1, <2>2 DEF Rely
<1>5. req' = [e \in Client |-> req'[e]]
  BY <1>1, <1>2
<1> QED BY <1>3, <1>4, <1>5, RelyKeeps

(* A request raises; or nothing happens.                                    *)
LEMMA AbortKeeps ==
  ASSUME MergeInv, UNCHANGED <<rows, count>>,
         UNCHANGED req \/ \E c \in Client : req' = [req EXCEPT ![c] = Idle]
  PROVE  MergeInv'
<1>1. /\ MergeTypeOK /\ \A e \in Client : Shape(e)
      /\ slug' = slug /\ link' = link /\ at' = at /\ name' = name /\ on' = on /\ below' = below
      /\ count' = count
  BY DEF MergeInv, rows
<1>2. req = [e \in Client |-> req[e]]
  BY DEF MergeInv
<1>3. MergeTypeOK'
  BY <1>1 DEF MergeTypeOK, Database, Live
<1>4. ASSUME NEW e \in Client
      PROVE  req'[e] = Idle \/ (Rely(e) /\ Stays(e))
  <2>1. req'[e] = Idle \/ req'[e] = req[e]
    BY <1>2
  <2>2. ASSUME req'[e] = req[e]
        PROVE  Rely(e) /\ Stays(e)
    BY <1>1, <2>2 DEF Rely, Stays, Shape
  <2> QED BY <2>1, <2>2
<1>5. req' = [e \in Client |-> req'[e]]
  BY <1>2
<1> QED BY <1>3, <1>4, <1>5, RelyKeeps

------------------------------------------------------------------------------
LEMMA MergeInvInit == Init => MergeInv
<1> SUFFICES ASSUME Init
             PROVE  MergeInv
  OBVIOUS
<1> USE MergeAssumption
<1>1. Database /\ count = 0 /\ req = [c \in Client |-> Idle]
  BY DEF Init
<1>2. MergeTypeOK
  BY <1>1 DEF MergeTypeOK
<1>3. \A c \in Client : req[c] = Idle /\ Shape(c) /\ Held(c) /\ Entries(c) = {}
  BY <1>1, IdleHeld
<1>4. Idle.own = {} /\ Idle.share = {} /\ Idle.op = "none" /\ Idle.pc = "idle"
  BY DEF Idle
<1>5. LocksApart /\ EntriesApart /\ ItemsApart
  BY <1>3, <1>4 DEF LocksApart, EntriesApart, ItemsApart
<1>6. req = [c \in Client |-> req[c]]
  BY <1>1
<1> QED BY <1>2, <1>3, <1>5, <1>6 DEF MergeInv

LEMMA MergeInvNext == MergeInv /\ [Next]_vars => MergeInv'
<1> SUFFICES ASSUME MergeInv, [Next]_vars
             PROVE  MergeInv'
  OBVIOUS
<1>1. CASE UNCHANGED vars
  BY <1>1, AbortKeeps DEF vars, rows
<1>2. ASSUME NEW r \in Restaurant, NEW x \in Slug, TakeSlug(r, x)
      PROVE  MergeInv'
  BY <1>2, TakeSlugKeeps
<1>3. ASSUME NEW c \in Client,
             \/ \E s, t \in Restaurant : \E first \in {s, t} : BeginMerge(c, s, t, first)
             \/ Lock(c) \/ Remap(c) \/ Drop(c) \/ Shift(c) \/ MoveRows(c) \/ Repoint(c)
             \/ Redirect(c) \/ DeleteSource(c) \/ Recompute(c) \/ CommitMerge(c)
      PROVE  MergeInv'
  BY <1>3, BeginMergeKeeps, LockKeeps, RemapKeeps, DropKeeps, ShiftKeeps, MoveRowsKeeps,
     RepointKeeps, RedirectKeeps, DeleteSourceKeeps, RecomputeKeeps, CommitMergeKeeps
<1>4. ASSUME NEW c \in Client,
             \/ \E v \in Review, d \in Dish : BeginReview(c, v, d)
             \/ Insert(c) \/ Rate(c) \/ CommitReview(c)
             \/ \E d \in Dish, n \in Name : BeginRename(c, d, n)
             \/ Rename(c) \/ CommitRename(c)
      PROVE  MergeInv'
  BY <1>4, BeginReviewKeeps, InsertKeeps, RateKeeps, CommitReviewKeeps, BeginRenameKeeps,
     RenameKeeps, CommitRenameKeeps
<1>5. ASSUME NEW c \in Client,
             \/ \E x \in Row, r \in Restaurant : BeginAttach(c, x, r)
             \/ Attach(c) \/ CommitAttach(c)
             \/ \E r \in Restaurant : BeginDelete(c, r)
             \/ Erase(c) \/ Cascade(c) \/ CommitDelete(c)
      PROVE  MergeInv'
  BY <1>5, BeginAttachKeeps, AttachKeeps, CommitAttachKeeps, BeginDeleteKeeps, EraseKeeps,
     CascadeKeeps, CommitDeleteKeeps
<1>6. ASSUME NEW c \in Client, Abort(c)
      PROVE  MergeInv'
  BY <1>6, AbortKeeps DEF Abort, Becomes
<1> QED BY <1>1, <1>2, <1>3, <1>4, <1>5, <1>6 DEF Next

LEMMA MergeInvAlways == Spec => []MergeInv
BY MergeInvInit, MergeInvNext, PTL DEF Spec

(* Whatever is merged, deleted, renamed and inserted at the same time, the  *)
(* database stays as its schema demands: every foreign key leads to a row,  *)
(* and no two rows have the slug, the name or the restaurant of which there *)
(* can be one.  merge_restaurants moves rows without a look at who inserts. *)
THEOREM MergeTypeCorrect == Spec => []MergeTypeOK
<1>1. MergeInv => MergeTypeOK
  BY DEF MergeInv
<1> QED BY <1>1, MergeInvAlways, PTL

------------------------------------------------------------------------------
(* What a step writes.                                                      *)
LEMMA StepWrites ==
  ASSUME [Next]_vars
  PROVE  \/ UNCHANGED rows
         \/ \E c \in Client : \/ CommitMerge(c) \/ CommitReview(c) \/ CommitRename(c)
                              \/ CommitAttach(c) \/ CommitDelete(c)
         \/ \E r \in Restaurant, x \in Slug : TakeSlug(r, x)
<1>1. CASE UNCHANGED vars
  BY <1>1 DEF vars, rows
<1>2. ASSUME NEW c \in Client,
             \/ \E s, t \in Restaurant : \E first \in {s, t} : BeginMerge(c, s, t, first)
             \/ \E v \in Review, d \in Dish : BeginReview(c, v, d)
             \/ \E d \in Dish, n \in Name : BeginRename(c, d, n)
             \/ \E x \in Row, r \in Restaurant : BeginAttach(c, x, r)
             \/ \E r \in Restaurant : BeginDelete(c, r)
      PROVE  UNCHANGED rows
  BY <1>2 DEF BeginMerge, BeginReview, BeginRename, BeginAttach, BeginDelete, Begin
<1>3. ASSUME NEW c \in Client,
             \/ Lock(c) \/ Remap(c) \/ Drop(c) \/ Shift(c) \/ MoveRows(c) \/ Repoint(c)
             \/ Redirect(c) \/ DeleteSource(c) \/ Recompute(c)
             \/ Insert(c) \/ Rate(c) \/ Rename(c) \/ Attach(c) \/ Erase(c) \/ Cascade(c)
             \/ Abort(c)
      PROVE  UNCHANGED rows
  BY <1>3 DEF Lock, Remap, Drop, Shift, MoveRows, Repoint, Redirect, DeleteSource, Recompute,
              Insert, Rate, Rename, Attach, Erase, Cascade, Abort, Becomes
<1> QED BY <1>1, <1>2, <1>3 DEF Next

(* A slug leads to the one restaurant that has it, or else where it links.  *)
LEMMA Resolves ==
  ASSUME MergeTypeOK, NEW x \in Slug
  PROVE  /\ \A r \in Live : slug[r] = x => Resolve(x) = r
         /\ (\A r \in Live : slug[r] # x) => Resolve(x) = link[x]
BY DEF MergeTypeOK, Database, Resolve

LEMMA ResolvesNext ==
  ASSUME MergeTypeOK', NEW x \in Slug
  PROVE  /\ \A r \in Live' : slug'[r] = x => Resolve(x)' = r
         /\ (\A r \in Live' : slug'[r] # x) => Resolve(x)' = link'[x]
BY DEF MergeTypeOK, Database, Resolve

LEMMA MergeFollows ==
  ASSUME MergeInv, MergeInv', NEW c \in Client, CommitMerge(c), NEW x \in Slug,
         Resolve(x) # None, Resolve(x)' # Resolve(x)
  PROVE  Resolve(x) = req[c].src /\ Resolve(x)' = req[c].dst
<1> USE MergeAssumption
<1> DEFINE s == req[c].src
           t == req[c].dst
<1>1. /\ MergeTypeOK /\ MergeTypeOK' /\ MergeLocks(c) /\ MergeLinks(c) /\ req[c].pc = "commit"
  BY DEF MergeInv, Held, CommitMerge
<1>2. /\ s \in Live /\ slug[s] \in req[c].links /\ req[c].links \subseteq req[c].own \cap Slug
      /\ \A y \in Slug : link[y] = s => y \in req[c].links
      /\ \A y \in req[c].own \cap Slug : link[y] = s \/ y = slug[s]
  BY <1>1 DEF MergeLocks, MergeLinks, Locked, Linked, Redirected, MergePC
<1>3. /\ slug' = [slug EXCEPT ![s] = None]
      /\ link' = [y \in Slug |-> IF y \in req[c].links THEN t
                                 ELSE IF link[y] = s THEN None ELSE link[y]]
  BY DEF CommitMerge
<1>4. /\ slug \in [Restaurant -> Slug \cup {None}] /\ Live' = Live \ {s}
      /\ \A r \in Live' : slug'[r] = slug[r] /\ r \in Live
  BY <1>1, <1>2, <1>3, LeavesTyped DEF MergeTypeOK, Database, Live
<1>5. CASE \E r \in Live : slug[r] = x
  <2>1. PICK r \in Live : slug[r] = x
    BY <1>5
  <2>2. Resolve(x) = r
    BY <1>1, <2>1, Resolves
  <2>3. CASE r # s
    <3>1. r \in Live' /\ slug'[r] = x
      BY <1>4, <2>1, <2>3
    <3> QED BY <1>1, <2>2, <3>1, ResolvesNext
  <2>4. CASE r = s
    <3>1. \A u \in Live' : slug'[u] # x
      BY <1>1, <1>4, <2>1, <2>4 DEF MergeTypeOK, Database
    <3>2. Resolve(x)' = link'[x]
      BY <1>1, <3>1, ResolvesNext
    <3> QED BY <1>2, <1>3, <2>1, <2>2, <2>4, <3>2
  <2> QED BY <2>3, <2>4
<1>6. CASE \A r \in Live : slug[r] # x
  <2>1. Resolve(x) = link[x]
    BY <1>1, <1>6, Resolves
  <2>2. \A u \in Live' : slug'[u] # x
    BY <1>4, <1>6
  <2>3. Resolve(x)' = link'[x]
    BY <1>1, <2>2, ResolvesNext
  <2> QED BY <1>2, <1>3, <1>6, <2>1, <2>3
<1> QED BY <1>5, <1>6

LEMMA DeleteFollows ==
  ASSUME MergeInv, MergeInv', NEW c \in Client, CommitDelete(c), NEW x \in Slug,
         Resolve(x) # None, Resolve(x)' # Resolve(x)
  PROVE  Resolve(x) = req[c].src
<1> USE MergeAssumption
<1> DEFINE s == req[c].src
<1>1. /\ MergeTypeOK /\ MergeTypeOK' /\ s \in Live
  BY DEF MergeInv, Held, DeleteAt, CommitDelete
<1>2. /\ slug' = [slug EXCEPT ![s] = None]
      /\ link' = [y \in Slug |-> IF link[y] = s THEN None ELSE link[y]]
  BY DEF CommitDelete
<1>3. /\ slug \in [Restaurant -> Slug \cup {None}] /\ Live' = Live \ {s}
      /\ \A r \in Live' : slug'[r] = slug[r] /\ r \in Live
  BY <1>1, <1>2, LeavesTyped DEF MergeTypeOK, Database, Live
<1>4. CASE \E r \in Live : slug[r] = x
  <2>1. PICK r \in Live : slug[r] = x
    BY <1>4
  <2>2. Resolve(x) = r
    BY <1>1, <2>1, Resolves
  <2>3. r # s => r \in Live' /\ slug'[r] = x
    BY <1>3, <2>1
  <2> QED BY <1>1, <2>2, <2>3, ResolvesNext
<1>5. CASE \A r \in Live : slug[r] # x
  <2>1. Resolve(x) = link[x]
    BY <1>1, <1>5, Resolves
  <2>2. \A u \in Live' : slug'[u] # x
    BY <1>3, <1>5
  <2>3. Resolve(x)' = link'[x]
    BY <1>1, <2>2, ResolvesNext
  <2> QED BY <1>2, <2>1, <2>3
<1> QED BY <1>4, <1>5

LEMMA TakeFollows ==
  ASSUME MergeInv, MergeInv', NEW q \in Restaurant, NEW y \in Slug, TakeSlug(q, y),
         NEW x \in Slug, Resolve(x) # None, Resolve(x)' # Resolve(x)
  PROVE  \/ slug[Resolve(x)] = x /\ slug'[Resolve(x)] \notin {x, None}
         \/ Resolve(x)' # None /\ slug'[Resolve(x)'] = x /\ slug[Resolve(x)'] # x
<1> USE MergeAssumption
<1>1. MergeTypeOK /\ MergeTypeOK'
  BY DEF MergeInv
<1>2. /\ slug' = [slug EXCEPT ![q] = y] /\ link' = link /\ \A s \in Restaurant : slug[s] # y
  BY DEF TakeSlug
<1>3. /\ slug \in [Restaurant -> Slug \cup {None}] /\ Live \subseteq Restaurant
      /\ Live' = Live \cup {q} /\ q \in Live' /\ slug'[q] = y /\ q # None /\ y # None
      /\ \A r \in Restaurant \ {q} : slug'[r] = slug[r]
  BY <1>1, <1>2 DEF MergeTypeOK, Database, Live
<1>4. CASE \E r \in Live : slug[r] = x
  <2>1. PICK r \in Live : slug[r] = x
    BY <1>4
  <2>2. Resolve(x) = r /\ x # y
    BY <1>1, <1>2, <1>3, <2>1, Resolves
  <2>3. CASE r = q
    BY <1>3, <2>1, <2>2, <2>3
  <2>4. CASE r # q
    <3>1. r \in Live' /\ slug'[r] = x
      BY <1>3, <2>1, <2>4
    <3> QED BY <1>1, <2>2, <3>1, ResolvesNext
  <2> QED BY <2>3, <2>4
<1>5. CASE \A r \in Live : slug[r] # x
  <2>1. Resolve(x) = link[x]
    BY <1>1, <1>5, Resolves
  <2>2. CASE x = y
    <3>1. Resolve(x)' = q
      BY <1>1, <1>3, <2>2, ResolvesNext
    <3> QED BY <1>2, <1>3, <2>2, <3>1
  <2>3. CASE x # y
    <3>1. \A u \in Live' : slug'[u] # x
      BY <1>3, <1>5, <2>3
    <3>2. Resolve(x)' = link'[x]
      BY <1>1, <3>1, ResolvesNext
    <3> QED BY <1>2, <2>1, <3>2
  <2> QED BY <2>2, <2>3
<1> QED BY <1>4, <1>5

LEMMA Commits ==
  ASSUME NEW c \in Client, NEW op, req[c].op = op, req[c].pc = "commit", req'[c] = Idle,
         rows' # rows
  PROVE  c \in Committing(op)
BY DEF Committing

LEMMA CommitEnds ==
  ASSUME MergeInv, NEW c \in Client,
         CommitMerge(c) \/ CommitDelete(c)
  PROVE  /\ req[c].pc = "commit" /\ req'[c] = Idle
         /\ (CommitMerge(c) => req[c].op = "merge")
         /\ (CommitDelete(c) => req[c].op = "delete")
         /\ rows' # rows
<1>1. req = [e \in Client |-> req[e]] /\ slug \in [Restaurant -> Slug \cup {None}]
  BY DEF MergeInv, MergeTypeOK, Database
<1>2. /\ req[c].pc = "commit" /\ req'[c] = Idle
      /\ (CommitMerge(c) => req[c].op = "merge")
      /\ (CommitDelete(c) => req[c].op = "delete")
      /\ slug' = [slug EXCEPT ![req[c].src] = None]
  BY <1>1 DEF CommitMerge, CommitDelete
<1>3. req[c].src \in Live
  BY <1>2 DEF MergeInv, Held, MergeLocks, Locked, MergePC, DeleteAt, CommitMerge, CommitDelete
<1>4. slug'[req[c].src] # slug[req[c].src]
  BY <1>1, <1>2, <1>3 DEF Live
<1> QED BY <1>2, <1>4 DEF rows, CommitMerge, CommitDelete

(* Old links keep working: what a link leads to is left only when it is     *)
(* deleted or changes its slug, or is shadowed; a merge sends the link to   *)
(* its target at once (step 8 of merge_restaurants), however many merges    *)
(* came before.                                                             *)
THEOREM LinksKeepWorking == Spec => LinksFollow
<1>1. ASSUME MergeInv, MergeInv', [Next]_vars, NEW x \in Slug,
             Resolve(x) # None, Resolve(x)' # Resolve(x)
      PROVE  \/ \E c \in Committing("merge") : Resolve(x) = req[c].src /\ Resolve(x)' = req[c].dst
             \/ \E c \in Committing("delete") : Resolve(x) = req[c].src
             \/ slug[Resolve(x)] = x /\ slug'[Resolve(x)] \notin {x, None}
             \/ Resolve(x)' # None /\ slug'[Resolve(x)'] = x /\ slug[Resolve(x)'] # x
  <2>1. CASE slug' = slug /\ link' = link
    <3>1. Resolve(x)' = Resolve(x)
      BY <2>1 DEF Resolve, Live
    <3> QED BY <1>1, <3>1
  <2>2. ASSUME NEW c \in Client, CommitMerge(c)
        PROVE  \E d \in Committing("merge") : Resolve(x) = req[d].src /\ Resolve(x)' = req[d].dst
    <3>1. Resolve(x) = req[c].src /\ Resolve(x)' = req[c].dst
      BY <1>1, <2>2, MergeFollows
    <3>2. c \in Committing("merge")
      BY <1>1, <2>2, CommitEnds, Commits
    <3> QED BY <3>1, <3>2
  <2>3. ASSUME NEW c \in Client, CommitDelete(c)
        PROVE  \E d \in Committing("delete") : Resolve(x) = req[d].src
    <3>1. Resolve(x) = req[c].src
      BY <1>1, <2>3, DeleteFollows
    <3>2. c \in Committing("delete")
      BY <1>1, <2>3, CommitEnds, Commits
    <3> QED BY <3>1, <3>2
  <2>4. ASSUME NEW r \in Restaurant, NEW y \in Slug, TakeSlug(r, y)
        PROVE  \/ slug[Resolve(x)] = x /\ slug'[Resolve(x)] \notin {x, None}
               \/ Resolve(x)' # None /\ slug'[Resolve(x)'] = x /\ slug[Resolve(x)'] # x
    BY <1>1, <2>4, TakeFollows
  <2>5. ASSUME NEW c \in Client, CommitReview(c) \/ CommitRename(c) \/ CommitAttach(c)
        PROVE  slug' = slug /\ link' = link
    BY <2>5 DEF CommitReview, CommitRename, CommitAttach
  <2>6. UNCHANGED rows => slug' = slug /\ link' = link
    BY DEF rows
  <2> QED BY <1>1, <2>1, <2>2, <2>3, <2>4, <2>5, <2>6, StepWrites
<1>2. MergeInv /\ MergeInv' /\ [Next]_vars =>
        \A x \in Slug :
          LET r == Resolve(x)  s == Resolve(x)' IN
          r # None /\ s # r =>
            \/ \E c \in Committing("merge") : r = req[c].src /\ s = req[c].dst
            \/ \E c \in Committing("delete") : r = req[c].src
            \/ slug[r] = x /\ slug'[r] \notin {x, None}
            \/ s # None /\ slug'[s] = x /\ slug[s] # x
  BY <1>1
<1> QED BY <1>2, MergeInvAlways, PTL DEF Spec, LinksFollow

------------------------------------------------------------------------------
LEMMA MergeLoses ==
  ASSUME MergeInv, NEW c \in Client, CommitMerge(c)
  PROVE  /\ \A v \in Review : on[v] # None /\ on'[v] = None => name[on[v]] \in req[c].touched
         /\ \A x \in Single \cup Plain :
              below[x] # None /\ below'[x] = None =>
                x \in Single /\ \E y \in Single : below[y] = req[c].dst
<1> USE MergeAssumption
<1> DEFINE q == req[c]
           s == q.src
           t == q.dst
           gone == q.dropped \cup (DishesOf(s) \ q.shifted)
           NewDish(v) == {p[2] : p \in {m \in q.remapped : m[1] = v}}
<1>1. /\ MergeTypeOK /\ Shape(c) /\ req[c].op = "merge" /\ req[c].pc = "commit"
      /\ MergeLocks(c) /\ MergeDishes(c) /\ MergeReviews(c) /\ MergeRows(c)
  BY DEF MergeInv, CommitMerge, Held
<1>2. /\ gone = q.dropped /\ t \in Restaurant
      /\ \A p \in q.remapped : p[2] \in Dish
  <2>1. DishesOf(s) = q.dropped \cup q.shifted
    BY <1>1 DEF MergeDishes, Shifted, MergePC
  <2>2. \A p \in q.remapped : p[2] \in Dish
    BY <1>1 DEF MergeDishes, DishesOf
  <2> QED BY <1>1, <2>1, <2>2 DEF Shape
<1>3. /\ on' = [v \in Review |-> IF NewDish(v) # {} THEN CHOOSE d \in NewDish(v) : TRUE
                                 ELSE IF on[v] \in gone THEN None ELSE on[v]]
      /\ below' = [x \in Row |-> IF x \in q.moved THEN t
                                 ELSE IF below[x] = s THEN None ELSE below[x]]
  BY DEF CommitMerge
<1>4. ASSUME NEW v \in Review, on[v] # None, on'[v] = None
      PROVE  name[on[v]] \in q.touched
  <2>1. NewDish(v) = {}
    <3>1. SUFFICES ASSUME NewDish(v) # {}
                   PROVE  FALSE
      OBVIOUS
    <3>2. on'[v] \in NewDish(v)
      BY <1>3, <3>1
    <3>3. on'[v] \in Dish
      BY <1>2, <3>2
    <3> QED BY <1>4, <3>3
  <2>2. ~ \E p \in q.remapped : p[1] = v
    BY <2>1
  <2>3. on[v] \in q.dropped
    <3> HIDE DEF NewDish
    <3> QED BY <1>2, <1>3, <1>4, <2>1
  <2> QED BY <1>1, <2>2, <2>3 DEF MergeReviews, Dropped, MergePC
<1>5. ASSUME NEW x \in Single \cup Plain, below[x] # None, below'[x] = None
      PROVE  x \in Single /\ \E y \in Single : below[y] = t
  <2>1. x \notin q.moved /\ below[x] = s
    BY <1>2, <1>3, <1>5 DEF Row
  <2>2. Moved(req[c])
    BY <1>1 DEF Moved, Shifted, MergePC
  <2> QED BY <1>1, <2>1, <2>2 DEF MergeRows
<1> QED BY <1>4, <1>5

(* A merge loses no review but of a colliding dish that was touched between *)
(* steps 1a and 1b of merge_restaurants, and no row that it moves but what  *)
(* the target has one of already.                                           *)
THEOREM MergeLosesNothing == Spec => NothingLost
<1>1. ASSUME MergeInv, [Next]_vars, NEW v \in Review, on[v] # None, on'[v] = None
      PROVE  \/ Committing("delete") # {}
             \/ \E c \in Committing("merge") : name[on[v]] \in req[c].touched
  <2>1. on' # on
    BY <1>1
  <2>2. ASSUME NEW c \in Client, CommitMerge(c)
        PROVE  \E d \in Committing("merge") : name[on[v]] \in req[d].touched
    <3>1. c \in Committing("merge")
      BY <1>1, <2>2, CommitEnds, Commits
    <3>2. name[on[v]] \in req[c].touched
      BY <1>1, <2>2, MergeLoses
    <3> QED BY <3>1, <3>2
  <2>3. ASSUME NEW c \in Client, CommitDelete(c)
        PROVE  Committing("delete") # {}
    BY <1>1, <2>3, CommitEnds, Commits
  <2>4. ASSUME NEW c \in Client, CommitReview(c)
        PROVE  FALSE
    <3>1. on' = [on EXCEPT ![req[c].new] = req[c].item] /\ on \in [Review -> Dish \cup {None}]
      BY <1>1, <2>4 DEF CommitReview, MergeInv, MergeTypeOK, Database
    <3>2. req[c].item \in Dish
      BY <1>1, <2>4 DEF CommitReview, MergeInv, Shape
    <3> QED BY <1>1, <3>1, <3>2, MergeAssumption
  <2>5. ASSUME NEW c \in Client, CommitRename(c) \/ CommitAttach(c)
        PROVE  FALSE
    BY <2>1, <2>5 DEF CommitRename, CommitAttach
  <2>6. ASSUME NEW r \in Restaurant, NEW x \in Slug, TakeSlug(r, x)
        PROVE  FALSE
    BY <2>1, <2>6 DEF TakeSlug
  <2> QED BY <1>1, <2>1, <2>2, <2>3, <2>4, <2>5, <2>6, StepWrites DEF rows
<1>2. ASSUME MergeInv, [Next]_vars, NEW x \in Single \cup Plain, below[x] # None, below'[x] = None
      PROVE  \/ Committing("delete") # {}
             \/ \E c \in Committing("merge") :
                  x \in Single /\ \E y \in Single : below[y] = req[c].dst
  <2>1. below' # below
    BY <1>2
  <2>2. ASSUME NEW c \in Client, CommitMerge(c)
        PROVE  \E d \in Committing("merge") :
                 x \in Single /\ \E y \in Single : below[y] = req[d].dst
    <3>1. c \in Committing("merge")
      BY <1>2, <2>2, CommitEnds, Commits
    <3>2. x \in Single /\ \E y \in Single : below[y] = req[c].dst
      BY <1>2, <2>2, MergeLoses
    <3> QED BY <3>1, <3>2
  <2>3. ASSUME NEW c \in Client, CommitDelete(c)
        PROVE  Committing("delete") # {}
    BY <1>2, <2>3, CommitEnds, Commits
  <2>4. ASSUME NEW c \in Client, CommitAttach(c)
        PROVE  FALSE
    <3>1. /\ below' = [below EXCEPT ![req[c].item] = req[c].src]
          /\ below \in [Row -> Live \cup {None}]
      BY <1>2, <2>4 DEF CommitAttach, MergeInv, MergeTypeOK, Database
    <3>2. req[c].src \in Restaurant
      BY <1>2, <2>4 DEF CommitAttach, MergeInv, Shape
    <3> QED BY <1>2, <3>1, <3>2, MergeAssumption DEF Row
  <2>5. ASSUME NEW c \in Client, CommitRename(c) \/ CommitReview(c)
        PROVE  FALSE
    BY <2>1, <2>5 DEF CommitRename, CommitReview
  <2>6. ASSUME NEW r \in Restaurant, NEW y \in Slug, TakeSlug(r, y)
        PROVE  FALSE
    BY <2>1, <2>6 DEF TakeSlug
  <2> QED BY <1>2, <2>1, <2>2, <2>3, <2>4, <2>5, <2>6, StepWrites DEF rows
<1>3. MergeInv /\ [Next]_vars =>
        \A v \in Review :
          on[v] # None /\ on'[v] = None =>
            \/ Committing("delete") # {}
            \/ \E c \in Committing("merge") : name[on[v]] \in req[c].touched
  BY <1>1
<1>4. MergeInv /\ [Next]_vars =>
        \A x \in Single \cup Plain :
          below[x] # None /\ below'[x] = None =>
            \/ Committing("delete") # {}
            \/ \E c \in Committing("merge") :
                 x \in Single /\ \E y \in Single : below[y] = req[c].dst
  BY <1>2
<1> QED BY <1>3, <1>4, MergeInvAlways, PTL DEF Spec, NothingLost, ReviewsKept, RowsKept

------------------------------------------------------------------------------
(* Whom a merge waits for.  What it wants of dishes and reviews is at its   *)
(* own restaurants, where no other merge has a lock.                        *)
LEMMA MergeHas ==
  ASSUME MergeInv, NEW e \in Client, req[e].op = "merge"
  PROVE  /\ \A d \in req[e].own \cap Dish : at[d] = req[e].src /\ req[e].src \in req[e].own
         /\ \A v \in req[e].own \cap Review :
              on[v] \in Dish /\ at[on[v]] = req[e].src /\ req[e].src \in req[e].own
         /\ \A x \in req[e].own \cap Slug :
              \/ link[x] = req[e].src /\ req[e].src \in req[e].own
              \/ Redirected(req[e])
         /\ \A d \in req[e].share : d \in Dish /\ at[d] = req[e].dst /\ req[e].dst \in req[e].own
         /\ \A n \in Entries(e) : \E m : n = <<req[e].dst, m>> /\ req[e].dst \in req[e].own
<1> USE MergeAssumption
<1>1. Shape(e) /\ MergeLocks(e) /\ MergeDishes(e)
  BY DEF MergeInv, Held
<1>2. CASE req[e].pc = "lock"
  <2>1. req[e].own \subseteq Restaurant /\ req[e].share = {}
    BY <1>1, <1>2 DEF MergeLocks, Live
  <2>2. Entries(e) = {}
    BY <1>1, <1>2 DEF Entries, MergeDishes, Shifted
  <2> QED BY <2>1, <2>2
<1>3. CASE req[e].pc # "lock"
  <2>1. {req[e].src, req[e].dst} \subseteq req[e].own /\ {req[e].src, req[e].dst} \subseteq Restaurant
    BY <1>1, <1>3 DEF MergeLocks, Locked, Shape
  <2>2. \A d \in req[e].own \cap Dish : d \in DishesOf(req[e].src)
    BY <1>1, <2>1 DEF MergeLocks
  <2>3. \A x \in req[e].own \cap Slug : link[x] = req[e].src \/ Redirected(req[e])
    BY <1>1 DEF MergeLocks
  <2>4. \A d \in req[e].share : d \in DishesOf(req[e].dst)
    BY <1>1 DEF MergeLocks
  <2>5. \A n \in Entries(e) : \E m : n = <<req[e].dst, m>>
    BY DEF Entries
  <2> QED BY <2>1, <2>2, <2>3, <2>4, <2>5, ReviewsLocked DEF DishesOf
<1> QED BY <1>2, <1>3

LEMMA MergeWaits ==
  ASSUME MergeInv, NEW c \in Client, NEW e \in Client, req[c].op = "merge", req[e].op = "merge",
         req[c].pc # "redirect", e \in WaitsFor(c)
  PROVE  /\ ~ Redirected(req[c])
         /\ Redirected(req[e]) \/ (req[c].pc = "lock" /\ NextLock(c) \in req[e].own)
<1> USE MergeAssumption
<1> DEFINE s == req[c].src
           t == req[c].dst
<1>1. /\ Shape(c) /\ MergeLocks(c) /\ c # e /\ s \in Restaurant /\ t \in Restaurant
      /\ req[c].own \cap (req[e].own \cup req[e].share) = {}
  BY DEF MergeInv, Held, WaitsFor, Others, LocksApart, Shape
<1>2. \/ req[e].own \cap (WantsOwn(c) \cup WantsShare(c)) # {}
      \/ req[e].share \cap WantsOwn(c) # {}
      \/ Entries(e) \cap NewEntries(c) # {}
  BY <1>1 DEF WaitsFor, Shape, MergePC
<1>3. /\ \A d \in req[e].own \cap Dish : at[d] = req[e].src /\ req[e].src \in req[e].own
      /\ \A v \in req[e].own \cap Review :
           on[v] \in Dish /\ at[on[v]] = req[e].src /\ req[e].src \in req[e].own
      /\ \A x \in req[e].own \cap Slug :
           \/ link[x] = req[e].src /\ req[e].src \in req[e].own
           \/ Redirected(req[e])
      /\ \A d \in req[e].share : d \in Dish /\ at[d] = req[e].dst /\ req[e].dst \in req[e].own
      /\ \A n \in Entries(e) : \E m : n = <<req[e].dst, m>> /\ req[e].dst \in req[e].own
  BY MergeHas
<1>4. CASE req[c].pc = "lock"
  <2>1. WantsOwn(c) = {NextLock(c)} /\ WantsShare(c) = {} /\ NewEntries(c) = {}
    BY <1>4 DEF WantsOwn, WantsShare, NewEntries
  <2>2. NextLock(c) \in Restaurant
    BY <1>1, <1>4 DEF Shape, NextLock, Second
  <2> QED BY <1>2, <1>3, <1>4, <2>1, <2>2 DEF Redirected
<1>5. req[c].pc # "lock" => s \in req[c].own /\ t \in req[c].own
  BY <1>1 DEF MergeLocks, Locked, Shape
<1>6. CASE req[c].pc = "remap"
  <2>1. WantsOwn(c) = {v \in Review : on[v] \in Colliding(s, t)}
    BY <1>6 DEF WantsOwn
  <2>2. WantsShare(c) = Twins(s, t) /\ NewEntries(c) = {}
    BY <1>6 DEF WantsShare, NewEntries
  <2>3. \A v \in WantsOwn(c) : v \in Review /\ on[v] \in Dish /\ at[on[v]] = s
    BY <2>1 DEF Colliding, DishesOf
  <2>4. \A d \in WantsShare(c) : d \in Dish /\ at[d] = t
    BY <2>2 DEF Twins, DishesOf
  <2> QED BY <1>1, <1>2, <1>3, <1>5, <1>6, <2>2, <2>3, <2>4
<1>7. CASE req[c].pc \in {"drop", "shift"}
  <2>1. WantsShare(c) = {} /\ \A d \in WantsOwn(c) : d \in Dish /\ at[d] = s
    BY <1>7 DEF WantsOwn, WantsShare, Colliding, DishesOf
  <2>2. \A n \in NewEntries(c) : \E m : n = <<t, m>>
    BY <1>7 DEF NewEntries
  <2> QED BY <1>1, <1>2, <1>3, <1>5, <1>7, <2>1, <2>2
<1>8. CASE req[c].pc = "repoint"
  <2>1. WantsOwn(c) = {x \in Slug : link[x] = s} /\ WantsShare(c) = {} /\ NewEntries(c) = {}
    BY <1>8 DEF WantsOwn, WantsShare, NewEntries
  <2> QED BY <1>1, <1>2, <1>3, <1>5, <1>8, <2>1 DEF Redirected
<1>9. CASE req[c].pc = "delete"
  <2>1. WantsOwn(c) = {s} /\ WantsShare(c) = {} /\ NewEntries(c) = {}
    BY <1>9 DEF WantsOwn, WantsShare, NewEntries
  <2> QED BY <1>1, <1>2, <1>5, <1>9, <2>1
<1>10. CASE req[c].pc \in {"rows", "recompute", "commit"}
  <2>1. WantsOwn(c) = {} /\ WantsShare(c) = {} /\ NewEntries(c) = {}
    BY <1>10 DEF WantsOwn, WantsShare, NewEntries
  <2> QED BY <1>2, <2>1
<1>11. req[c].pc \in MergePC
  BY <1>1 DEF Shape
<1> QED BY <1>4, <1>6, <1>7, <1>8, <1>9, <1>10, <1>11 DEF MergePC, Redirected

(* However many merges wait for each other in a circle: if one order of the *)
(* restaurants agreed with the order in which each locks its two, the       *)
(* restaurant that each wants next would be further in it than the one that *)
(* the merge before it wants.                                               *)
THEOREM MergesInOrder == Spec => []OneOrderNoDeadlock
<1>1. ASSUME MergeInv, NEW S \in SUBSET Client, MergeCircle(S),
             NEW rank \in [Restaurant -> 1 .. Cardinality(Restaurant)],
             \A c \in S : Ordered(rank, req[c])
      PROVE  FALSE
  <2>1. /\ S # {}
        /\ \A c \in S : /\ req[c].op = "merge" /\ req[c].pc # "redirect"
                         /\ \E e \in S : e \in WaitsFor(c)
    BY <1>1 DEF MergeCircle
  <2>2. \A c \in S : ~ Redirected(req[c])
    BY <1>1, <2>1, MergeWaits
  <2>3. \A c \in S : \E e \in S : req[c].pc = "lock" /\ NextLock(c) \in req[e].own
    BY <1>1, <2>1, <2>2, MergeWaits
  <2>4. ASSUME NEW c \in S
        PROVE  NextLock(c) \in Restaurant
    <3>1. Shape(c)
      BY <1>1 DEF MergeInv
    <3> QED BY <2>1, <2>3, <3>1 DEF Shape, NextLock, Second
  <2>5. ASSUME NEW c \in S
        PROVE  \E e \in S : rank[NextLock(c)] < rank[NextLock(e)]
    <3>1. PICK e \in S : NextLock(c) \in req[e].own
      BY <2>3
    <3>2. req[e].pc = "lock" /\ MergeLocks(e)
      BY <1>1, <2>1, <2>3 DEF MergeInv, Held
    <3>3. NextLock(c) = req[e].item /\ NextLock(e) = Second(req[e])
      BY <3>1, <3>2 DEF MergeLocks, NextLock
    <3> QED BY <1>1, <3>2, <3>3 DEF Ordered
  <2> DEFINE n == Cardinality(Restaurant)
             T == {n - rank[NextLock(c)] : c \in S}
             R == {ss \in Nat \X Nat : ss[1] < ss[2]}
  <2>6. n \in Nat
    BY FS_CardinalityType, MergeAssumption
  <2>7. \A c \in S : rank[NextLock(c)] \in 1 .. n
    BY <1>1, <2>4
  <2>8. T \subseteq Nat /\ T # {}
    <3> HIDE DEF n
    <3> QED BY <2>1, <2>6, <2>7
  <2>9. IsWellFoundedOn(R, Nat)
    BY NatLessThanWellFounded DEF OpToRel
  <2>10. PICK m \in T : \A k \in T : ~ (<<k, m>> \in R)
    <3> HIDE DEF T, R
    <3> QED BY <2>8, <2>9, WFMin
  <2>11. PICK c \in S : m = n - rank[NextLock(c)]
    BY <2>10
  <2>12. PICK e \in S : rank[NextLock(c)] < rank[NextLock(e)]
    BY <2>5
  <2> HIDE DEF n
  <2>13. n - rank[NextLock(e)] < m /\ n - rank[NextLock(e)] \in Nat /\ m \in Nat
    BY <2>6, <2>7, <2>11, <2>12
  <2>14. n - rank[NextLock(e)] \in T
    OBVIOUS
  <2> QED BY <2>10, <2>13, <2>14
<1>2. MergeInv => OneOrderNoDeadlock
  BY <1>1 DEF OneOrderNoDeadlock
<1> QED BY <1>2, MergeInvAlways, PTL

================================================================================
