----------------------- MODULE RatingAggregatesProofs -----------------------
(***************************************************************************)
(* Theorems about RatingAggregates for any number of requests in flight and *)
(* of requests in all, of reviews, dishes and scores.                       *)
(***************************************************************************)
EXTENDS RatingAggregates, FiniteSetTheorems, TLAPS

------------------------------------------------------------------------------
(* What a request still has to recompute, and what it recomputes in all.    *)
Pending(q) == {q.todo[i] : i \in 1 .. Len(q.todo)}

Renaming(q) == q.op = "update" /\ q.from # q.to

Aims(q) ==
  IF q.op \in OneReview THEN ({q.from, q.to} \ {NoDish}) \cup {Restaurant}
  ELSE IF q.op = "merge" THEN {q.to} ELSE {}

(* The lists of targets that its todo goes through.                         *)
Todos(q) ==
  IF q.op \in {"none", "drop"} THEN {<<>>}
  ELSE IF q.op = "merge" THEN {<<q.to>>, <<>>}
  ELSE IF q.op = "delete" THEN {<<q.from, Restaurant>>, <<Restaurant>>, <<>>}
  ELSE {<<q.to, Restaurant>>, <<Restaurant>>, <<>>}
         \cup (IF Renaming(q) THEN {<<q.from, q.to, Restaurant>>} ELSE {})

Fields ==
  {"op", "pc", "review", "from", "to", "score", "was", "todo", "cache", "held",
   "victims", "locked", "wrote", "rows", "value", "missed", "touched"}

(* The variables of a request have these values.                            *)
Typed(q) ==
  /\ DOMAIN q = Fields
  /\ q.op \in Op /\ q.pc \in PC
  /\ DOMAIN q.cache \subseteq Target /\ q.held \subseteq DOMAIN q.cache
  /\ DOMAIN q.rows \subseteq Aims(q) \ Pending(q)
  /\ \A k \in DOMAIN q.rows : DOMAIN q.rows[k] \subseteq Column
  /\ DOMAIN q.value = Column
  /\ q.victims \subseteq Review /\ q.wrote \subseteq Review
  /\ q.locked \subseteq Target /\ q.touched \subseteq Target
  /\ q.missed \subseteq Target \X Column
  /\ q.todo \in Todos(q)

(* What it was asked.                                                       *)
Asked(q) ==
  /\ q.op = "none" => q = Idle
  /\ q.op = "create" => q.review \in Review /\ q.from = NoDish /\ q.to \in Dish
                          /\ q.score \in Score /\ q.was = 0
  /\ q.op = "update" => q.review \in Review /\ q.from \in Dish /\ q.to \in Dish
                          /\ q.score \in Score /\ q.was \in Score
  /\ q.op = "delete" => q.review \in Review /\ q.from \in Dish /\ q.to = NoDish
                          /\ q.score = 0 /\ q.was = 0
  /\ q.op = "merge" => q.review = NoReview /\ q.from \in Dish /\ q.to \in Dish
                          /\ q.from # q.to /\ q.score = 0 /\ q.was = 0
  /\ q.op = "drop" => q.review = NoReview /\ q.from \in Dish /\ q.to = NoDish
                          /\ q.score = 0 /\ q.was = 0

Recomputing == {"rate", "count", "load", "store"}

(* Where it is, and what it has done by then.                               *)
Placed(q) ==
  /\ q.pc = "idle" <=> q.op = "none"
  /\ q.pc = "classify" => q.op = "create"
  /\ q.pc = "lock" => /\ q.op = "merge" /\ q.locked \subseteq {q.from, q.to}
                       /\ q.locked # {q.from, q.to}
  /\ q.pc = "unlink" => q.op = "drop"
  /\ q.pc \in Recomputing => q.op \in OneReview \cup {"merge"}
  /\ q.pc = "find" => q.op = "update" /\ q.todo = <<Restaurant>>
  /\ q.op = "drop" => q.pc \in {"write", "unlink", "commit"}
  /\ q.op \notin {"none", "drop"} => (q.pc = "commit" <=> q.todo = <<>>)
  /\ q.pc \in {"classify", "lock", "write"} =>
       q.wrote = {} /\ DOMAIN q.rows = {} /\ Aims(q) \subseteq Pending(q)
  /\ q.pc = "store" => Head(q.todo) \in DOMAIN q.cache
  /\ DOMAIN q.cache \subseteq q.held \cup (IF q.pc = "store" THEN {Head(q.todo)} ELSE {})
  /\ q.op \in OneReview => q.wrote \subseteq {q.review} /\ q.locked \subseteq {Restaurant}
  /\ q.op \in OneReview /\ q.pc \notin {"classify", "write"} =>
       q.wrote = {q.review} \/ (q.op = "update" /\ q.from = q.to /\ q.score = q.was)
  /\ q.op = "merge" /\ q.pc # "lock" => q.locked = {q.from, q.to}
  /\ q.op = "drop" => q.locked = IF q.pc = "commit" THEN {q.from} ELSE {}

Shape(q) == Typed(q) /\ Asked(q) /\ Placed(q)

AllShaped == req = [c \in Client |-> req[c]] /\ \A c \in Client : Shape(req[c])

LEMMA IdleShape == Shape(Idle)
BY DEF Shape, Typed, Asked, Placed, Idle, Fields, OneReview, Op, PC, Aims, Todos, Renaming, Pending,
       Recomputing, Zero, Column

(* What the database holds: reviews of dishes that exist, with scores, and  *)
(* two columns in every row; a dish that does not exist has no rating.      *)
References ==
  /\ live \subseteq Dish
  /\ dishOf \in [Review -> live \cup {NoDish}]
  /\ score \in [Review -> Score \cup {0}]
  /\ \A r \in Review : dishOf[r] = NoDish <=> score[r] = 0
  /\ DOMAIN agg = Target /\ \A k \in Target : agg[k] = [col \in Column |-> agg[k][col]]
  /\ \A d \in Dish \ live : agg[d] = Zero

(* A request begins.                                                        *)
Begun(c) ==
  /\ req' = [req EXCEPT ![c] = req'[c]]
  /\ req[c] = Idle
  /\ DOMAIN req'[c] = Fields /\ req'[c].pc \in {"classify", "lock", "write"}
  /\ req'[c].wrote = {} /\ req'[c].rows = <<>> /\ req'[c].locked = {}
  /\ req'[c].missed = {} /\ req'[c].touched = {} /\ req'[c].value = Zero
  /\ req'[c].cache = [k \in req'[c].held |-> agg[k]]
  /\ UNCHANGED data

LEMMA BeginShape ==
  ASSUME AllShaped, References, NEW c \in Client,
         \/ \E r \in Review, d \in Dish, s \in Score, b \in BOOLEAN :
              BeginCreate(c, r, d, s, b) \/ BeginUpdate(c, r, d, s, b)
         \/ \E r \in Review : BeginDelete(c, r)
         \/ \E s, t \in Dish : BeginMerge(c, s, t)
         \/ \E d \in Dish : BeginDrop(c, d)
  PROVE  Begun(c) /\ Shape(req'[c])
<1> USE AggregatesAssumption
<1>1. ASSUME NEW r \in Review, NEW d \in Dish, NEW s \in Score, NEW b \in BOOLEAN,
             BeginCreate(c, r, d, s, b)
      PROVE  Begun(c) /\ Shape(req'[c])
  <2>1. Begun(c)
    BY <1>1 DEF BeginCreate, Begun, Begin, Rows, AllShaped, Idle, Fields
  <2>2. /\ req'[c].op = "create" /\ req'[c].pc = (IF b THEN "classify" ELSE "write")
        /\ req'[c].review = r /\ req'[c].from = NoDish /\ req'[c].to = d
        /\ req'[c].score = s /\ req'[c].was = 0 /\ req'[c].todo = <<d, Restaurant>>
        /\ req'[c].held = {d, Restaurant} /\ req'[c].victims = {}
    BY <1>1 DEF BeginCreate, Begin, Rows, AllShaped, Idle
  <2>4. Typed(req'[c])
    BY <2>1, <2>2
    DEF Begun, Typed, Fields, OneReview, Op, PC, Aims, Todos, Renaming, Pending, Target, Zero,
        Column
  <2>5. Asked(req'[c]) /\ Placed(req'[c])
    BY <2>1, <2>2 DEF Begun, Asked, Placed, OneReview, Recomputing, Aims, Pending
  <2> QED BY <2>1, <2>4, <2>5 DEF Shape
<1>2. ASSUME NEW r \in Review, NEW d \in Dish, NEW s \in Score, NEW b \in BOOLEAN,
             BeginUpdate(c, r, d, s, b)
      PROVE  Begun(c) /\ Shape(req'[c])
  <2>1. Begun(c)
    BY <1>2 DEF BeginUpdate, Begun, Begin, Rows, AllShaped, Idle, Fields
  <2>2. /\ req'[c].op = "update" /\ req'[c].pc = "write" /\ req'[c].review = r
        /\ req'[c].from = dishOf[r] /\ req'[c].to = d /\ req'[c].score = s
        /\ req'[c].was = score[r]
        /\ req'[c].todo = IF dishOf[r] = d THEN <<d, Restaurant>>
                          ELSE <<dishOf[r], d, Restaurant>>
        /\ req'[c].held = (IF b THEN {dishOf[r], d} ELSE {}) /\ req'[c].victims = {}
    BY <1>2 DEF BeginUpdate, Begin, Rows, AllShaped, Idle
  <2>3. dishOf[r] \in Dish /\ score[r] \in Score
    BY <1>2 DEF BeginUpdate, References
  <2>4. Typed(req'[c])
    BY <2>1, <2>2, <2>3
    DEF Begun, Typed, Fields, OneReview, Op, PC, Aims, Todos, Renaming, Pending, Target, Zero,
        Column
  <2>5. Asked(req'[c]) /\ Placed(req'[c])
    BY <2>1, <2>2, <2>3 DEF Begun, Asked, Placed, OneReview, Recomputing, Aims, Pending
  <2> QED BY <2>1, <2>4, <2>5 DEF Shape
<1>3. ASSUME NEW r \in Review,
             BeginDelete(c, r)
      PROVE  Begun(c) /\ Shape(req'[c])
  <2>1. Begun(c)
    BY <1>3 DEF BeginDelete, Begun, Begin, Rows, AllShaped, Idle, Fields
  <2>2. /\ req'[c].op = "delete" /\ req'[c].pc = "write" /\ req'[c].review = r
        /\ req'[c].from = dishOf[r] /\ req'[c].to = NoDish /\ req'[c].score = 0
        /\ req'[c].was = 0 /\ req'[c].todo = <<dishOf[r], Restaurant>>
        /\ req'[c].held = {dishOf[r]} /\ req'[c].victims = {}
    BY <1>3 DEF BeginDelete, Begin, Rows, AllShaped, Idle
  <2>3. dishOf[r] \in Dish
    BY <1>3 DEF BeginDelete, References
  <2>4. Typed(req'[c])
    BY <2>1, <2>2, <2>3
    DEF Begun, Typed, Fields, OneReview, Op, PC, Aims, Todos, Renaming, Pending, Target, Zero,
        Column
  <2>5. Asked(req'[c]) /\ Placed(req'[c])
    BY <2>1, <2>2, <2>3 DEF Begun, Asked, Placed, OneReview, Recomputing, Aims, Pending
  <2> QED BY <2>1, <2>4, <2>5 DEF Shape
<1>4. ASSUME NEW s \in Dish, NEW t \in Dish,
             BeginMerge(c, s, t)
      PROVE  Begun(c) /\ Shape(req'[c])
  <2>1. Begun(c)
    BY <1>4 DEF BeginMerge, Begun, Begin, Rows, AllShaped, Idle, Fields
  <2>2. /\ req'[c].op = "merge" /\ req'[c].pc = "lock" /\ req'[c].review = NoReview
        /\ req'[c].from = s /\ req'[c].to = t /\ req'[c].score = 0 /\ req'[c].was = 0
        /\ req'[c].todo = <<t>> /\ req'[c].held = {} /\ req'[c].victims = {}
    BY <1>4 DEF BeginMerge, Begin, Rows, AllShaped, Idle
  <2>3. s # t
    BY <1>4 DEF BeginMerge
  <2>4. Typed(req'[c])
    BY <2>1, <2>2, <2>3
    DEF Begun, Typed, Fields, OneReview, Op, PC, Aims, Todos, Renaming, Pending, Target, Zero,
        Column
  <2>5. Asked(req'[c]) /\ Placed(req'[c])
    BY <2>1, <2>2, <2>3 DEF Begun, Asked, Placed, OneReview, Recomputing, Aims, Pending
  <2> QED BY <2>1, <2>4, <2>5 DEF Shape
<1>5. ASSUME NEW d \in Dish,
             BeginDrop(c, d)
      PROVE  Begun(c) /\ Shape(req'[c])
  <2>1. Begun(c)
    BY <1>5 DEF BeginDrop, Begun, Begin, Rows, AllShaped, Idle, Fields
  <2>2. /\ req'[c].op = "drop" /\ req'[c].pc = "write" /\ req'[c].review = NoReview
        /\ req'[c].from = d /\ req'[c].to = NoDish /\ req'[c].score = 0 /\ req'[c].was = 0
        /\ req'[c].todo = <<>> /\ req'[c].held = {} /\ req'[c].victims = ReviewsOf(d)
    BY <1>5 DEF BeginDrop, Begin, Rows, AllShaped, Idle
  <2>3. ReviewsOf(d) \subseteq Review
    BY DEF ReviewsOf
  <2>4. Typed(req'[c])
    BY <2>1, <2>2, <2>3
    DEF Begun, Typed, Fields, OneReview, Op, PC, Aims, Todos, Renaming, Pending, Target, Zero,
        Column
  <2>5. Asked(req'[c]) /\ Placed(req'[c])
    BY <2>1, <2>2, <2>3 DEF Begun, Asked, Placed, OneReview, Recomputing, Aims, Pending
  <2> QED BY <2>1, <2>4, <2>5 DEF Shape
<1> QED BY <1>1, <1>2, <1>3, <1>4, <1>5

(* The list of targets of a shaped request, seen from its head.             *)
LEMMA TodoShape ==
  ASSUME NEW q, Shape(q), q.todo # <<>>
  PROVE  /\ Head(q.todo) \in Pending(q) /\ Head(q.todo) \in Target
         /\ Pending(q) \subseteq Aims(q) /\ Aims(q) \subseteq Target
         /\ Tail(q.todo) \in Todos(q)
         /\ {Tail(q.todo)[i] : i \in 1 .. Len(Tail(q.todo))} = Pending(q) \ {Head(q.todo)}
         /\ Len(q.todo) = 1 <=> Tail(q.todo) = <<>>
         /\ q.op = "update" /\ Head(q.todo) = q.to => Tail(q.todo) = <<Restaurant>>
<1> USE AggregatesAssumption
<1>1. /\ q.op \in Op /\ q.todo \in Todos(q) /\ Asked(q)
  BY DEF Shape, Typed
<1>s. \/ q.op = "merge" /\ q.todo = <<q.to>>
      \/ q.op = "delete" /\ q.todo = <<q.from, Restaurant>>
      \/ q.op \in OneReview /\ q.todo = <<Restaurant>>
      \/ q.op \in {"create", "update"} /\ q.todo = <<q.to, Restaurant>>
      \/ Renaming(q) /\ q.todo = <<q.from, q.to, Restaurant>>
  <2>1. q.op \in {"none", "drop", "merge", "delete", "create", "update"}
    BY <1>1 DEF Op
  <2>2. CASE q.op \in {"none", "drop"}
    BY <2>2, <1>1 DEF Todos
  <2>3. CASE q.op = "merge"
    BY <2>3, <1>1 DEF Todos
  <2>4. CASE q.op = "delete"
    BY <2>4, <1>1 DEF Todos, OneReview
  <2>5. CASE q.op \in {"create", "update"}
    BY <2>5, <1>1 DEF Todos, OneReview
  <2> QED BY <2>1, <2>2, <2>3, <2>4, <2>5
<1>3. /\ q.op \in OneReview => Aims(q) = ({q.from, q.to} \ {NoDish}) \cup {Restaurant}
      /\ q.op = "merge" => Aims(q) = {q.to}
      /\ q.op = "merge" => Todos(q) = {<<q.to>>, <<>>}
      /\ q.op = "delete" => Todos(q) = {<<q.from, Restaurant>>, <<Restaurant>>, <<>>}
      /\ q.op \in {"create", "update"} => {<<q.to, Restaurant>>, <<Restaurant>>, <<>>} \subseteq Todos(q)
      /\ q.op \in {"create", "update"} => q.to \in Dish /\ q.from \in Dish \cup {NoDish}
      /\ q.op = "update" => q.from \in Dish
      /\ q.op = "delete" => q.from \in Dish /\ q.to = NoDish
      /\ q.op = "merge" => q.to \in Dish
  BY <1>1 DEF Aims, Todos, Asked, OneReview
<1>a. CASE q.op = "merge" /\ q.todo = <<q.to>>
  <2>1. Tail(q.todo) = <<>>
    BY <1>a
  <2> QED BY <2>1, <1>a, <1>3 DEF Pending, Target, OneReview
<1>b. CASE q.op = "delete" /\ q.todo = <<q.from, Restaurant>>
  <2>1. Tail(q.todo) = <<Restaurant>>
    BY <1>b
  <2> QED BY <2>1, <1>b, <1>3 DEF Pending, Target, OneReview
<1>c. CASE q.op \in OneReview /\ q.todo = <<Restaurant>>
  <2>1. Tail(q.todo) = <<>>
    BY <1>c
  <2> QED BY <2>1, <1>c, <1>3 DEF Pending, Target, OneReview
<1>d. CASE q.op \in {"create", "update"} /\ q.todo = <<q.to, Restaurant>>
  <2>1. Tail(q.todo) = <<Restaurant>>
    BY <1>d
  <2> QED BY <2>1, <1>d, <1>3 DEF Pending, Target, OneReview
<1>e. CASE Renaming(q) /\ q.todo = <<q.from, q.to, Restaurant>>
  <2>1. Tail(q.todo) = <<q.to, Restaurant>>
    BY <1>e
  <2> QED BY <2>1, <1>e, <1>3 DEF Pending, Target, OneReview, Renaming
<1> QED BY <1>s, <1>a, <1>b, <1>c, <1>d, <1>e

LEMMA PutAt ==
  ASSUME NEW f, NEW k, NEW v
  PROVE  /\ DOMAIN Put(f, k, v) = DOMAIN f \cup {k} /\ Put(f, k, v)[k] = v
         /\ \A x \in DOMAIN f : x # k => Put(f, k, v)[x] = f[x]
BY DEF Put

(* What a request was asked never changes.                                  *)
Request(c) ==
  <<req[c].op, req[c].review, req[c].from, req[c].to, req[c].score, req[c].was,
    req[c].victims>>

(* A statement changes nothing but the request that takes it.               *)
Steps(c) ==
  \/ Classify(c) \/ Lock(c) \/ WriteReview(c) \/ WriteReviews(c) \/ Unlink(c)
  \/ Rate(c) \/ Count(c) \/ Load(c) \/ Store(c) \/ Find(c)

LEMMA StepAlone ==
  ASSUME AllShaped, NEW c \in Client, Steps(c)
  PROVE  /\ req' = [req EXCEPT ![c] = req'[c]] /\ UNCHANGED <<data, begun>>
         /\ req[c].op # "none"
<1>1. req' = [req EXCEPT ![c] = req'[c]] /\ UNCHANGED <<data, begun>>
  BY DEF AllShaped, Steps, Classify, Lock, WriteReview, WriteReviews, Unlink, Rate, Count, Compute,
         Load, Store, Find, Becomes
<1>2. req[c].pc # "idle"
  BY DEF Steps, Classify, Lock, WriteReview, WriteReviews, Unlink, Rate, Count, Load, Store,
         Find, At
<1> QED BY <1>1, <1>2 DEF AllShaped, Shape, Placed

(* What each statement does to the request.                                 *)
LEMMA LockStep ==
  ASSUME AllShaped, NEW c \in Client, Classify(c) \/ Lock(c) \/ Unlink(c)
  PROVE  /\ DOMAIN req'[c] = Fields /\ Request(c)' = Request(c)
         /\ req'[c].todo = req[c].todo /\ req'[c].cache = req[c].cache
         /\ req'[c].held = req[c].held /\ req'[c].rows = req[c].rows
         /\ req'[c].value = req[c].value /\ req'[c].missed = req[c].missed
         /\ req'[c].touched = req[c].touched
         /\ \/ /\ Classify(c) /\ req'[c].pc = "write" /\ req'[c].locked = {Restaurant}
               /\ req'[c].wrote = req[c].wrote
            \/ /\ Lock(c) /\ req'[c].locked = req[c].locked \cup {NextLock(c)}
               /\ NextLock(c) \in live
               /\ req'[c].wrote = req[c].wrote
               /\ req'[c].pc = IF req'[c].locked = {req[c].from, req[c].to}
                                  THEN "write" ELSE "lock"
            \/ /\ Unlink(c) /\ req'[c].locked = {req[c].from} /\ req'[c].pc = "commit"
               /\ req'[c].wrote = req[c].wrote \cup ReviewsOf(req[c].from)
<1>1. DOMAIN req[c] = Fields
  BY DEF AllShaped, Shape, Typed
<1>2. CASE Classify(c)
  BY <1>1, <1>2 DEF Classify, Becomes, AllShaped, Fields, Request
<1>3. CASE Lock(c)
  BY <1>1, <1>3 DEF Lock, Becomes, AllShaped, Fields, Request
<1>4. CASE Unlink(c)
  BY <1>1, <1>4 DEF Unlink, Becomes, AllShaped, Fields, Request
<1> QED BY <1>2, <1>3, <1>4

LEMMA WriteStep ==
  ASSUME AllShaped, NEW c \in Client, WriteReview(c) \/ WriteReviews(c)
  PROVE  /\ DOMAIN req'[c] = Fields /\ Request(c)' = Request(c) /\ req[c].pc = "write"
         /\ req'[c].todo = req[c].todo /\ req'[c].cache = req[c].cache
         /\ req'[c].held = req[c].held /\ req'[c].rows = req[c].rows
         /\ req'[c].value = req[c].value /\ req'[c].missed = req[c].missed
         /\ req'[c].touched = req[c].touched /\ req'[c].locked = req[c].locked
         /\ \/ /\ WriteReview(c) /\ req[c].op \in OneReview /\ req'[c].pc = "rate"
               /\ req[c].op = "create" \/ Renames(c) => req[c].to \in live
               /\ \/ /\ req'[c].wrote = {req[c].review}
                     /\ req[c].op = "update" => dishOf[req[c].review] # NoDish
                  \/ /\ req'[c].wrote = req[c].wrote /\ req[c].op = "update"
                     /\ ~Renames(c) /\ req[c].score = req[c].was
            \/ /\ WriteReviews(c) /\ req[c].op = "merge" /\ req'[c].pc = "rate"
               /\ req'[c].wrote = ReviewsOf(req[c].from)
            \/ /\ WriteReviews(c) /\ req[c].op = "drop" /\ req'[c].pc = "unlink"
               /\ req'[c].wrote = req[c].victims
<1>1. DOMAIN req[c] = Fields
  BY DEF AllShaped, Shape, Typed
<1> DEFINE Writes(w, pc) ==
      Becomes(c, [req[c] EXCEPT !.wrote = w, !.pc = pc])
<1>2. ASSUME NEW w, NEW pc, Writes(w, pc)
      PROVE  /\ DOMAIN req'[c] = Fields /\ Request(c)' = Request(c)
             /\ req'[c].todo = req[c].todo /\ req'[c].cache = req[c].cache
             /\ req'[c].held = req[c].held /\ req'[c].rows = req[c].rows
             /\ req'[c].value = req[c].value /\ req'[c].missed = req[c].missed
             /\ req'[c].touched = req[c].touched /\ req'[c].locked = req[c].locked
             /\ req'[c].wrote = w /\ req'[c].pc = pc
  BY <1>1, <1>2 DEF Becomes, AllShaped, Fields, Request
<1>3. WriteReview(c) => /\ req[c].op \in OneReview /\ req[c].pc = "write"
                        /\ req[c].op = "create" \/ Renames(c) => req[c].to \in live
                        /\ \/ /\ Writes({req[c].review}, "rate")
                              /\ req[c].op = "update" => dishOf[req[c].review] # NoDish
                           \/ /\ Writes(req[c].wrote, "rate") /\ req[c].op = "update"
                              /\ ~Renames(c) /\ req[c].score = req[c].was
  <2>1. Becomes(c, [req[c] EXCEPT !.pc = "rate"]) => Writes(req[c].wrote, "rate")
    BY <1>1 DEF Becomes, Fields
  <2> HIDE DEF Writes
  <2>2. Becomes(c, [req[c] EXCEPT !.wrote = {req[c].review}, !.pc = "rate"])
          => Writes({req[c].review}, "rate")
    BY DEF Writes
  <2> QED BY <2>1, <2>2 DEF WriteReview, At
<1>4. WriteReviews(c) => \/ /\ Writes(ReviewsOf(req[c].from), "rate") /\ req[c].op = "merge"
                            /\ req[c].pc = "write"
                         \/ /\ Writes(req[c].victims, "unlink") /\ req[c].op = "drop"
                            /\ req[c].pc = "write"
  BY DEF WriteReviews, At
<1> HIDE DEF Writes
<1> QED BY <1>2, <1>3, <1>4

LEMMA ComputeStep ==
  ASSUME AllShaped, NEW c \in Client, Rate(c) \/ Count(c)
  PROVE  /\ DOMAIN req'[c] = Fields /\ Request(c)' = Request(c)
         /\ req'[c].todo = req[c].todo /\ req'[c].cache = req[c].cache
         /\ req'[c].held = req[c].held /\ req'[c].rows = req[c].rows
         /\ req'[c].touched = req[c].touched /\ req'[c].locked = req[c].locked
         /\ req'[c].wrote = req[c].wrote
         /\ \E col \in Column :
              /\ \/ col = "rating" /\ req[c].pc = "rate" /\ req'[c].pc = "count"
                 \/ col = "count" /\ req[c].pc = "count" /\ req'[c].pc = "load"
              /\ req'[c].value = [req[c].value EXCEPT ![col] = Computed(c, Current(c))[col]]
              /\ req'[c].missed = req[c].missed \ {<<Current(c), col>>}
<1>1. DOMAIN req[c] = Fields /\ {"rating", "count"} = Column
  BY DEF AllShaped, Shape, Typed, Column
<1>2. CASE Rate(c)
  BY <1>1, <1>2 DEF Rate, Compute, Becomes, AllShaped, Fields, Request, At
<1>3. CASE Count(c)
  BY <1>1, <1>3 DEF Count, Compute, Becomes, AllShaped, Fields, Request, At
<1> QED BY <1>2, <1>3

LEMMA LoadStep ==
  ASSUME AllShaped, NEW c \in Client, Load(c)
  PROVE  /\ DOMAIN req'[c] = Fields /\ Request(c)' = Request(c)
         /\ req[c].pc = "load"
         /\ req'[c].held = req[c].held /\ req'[c].rows = req[c].rows
         /\ req'[c].missed = req[c].missed /\ req'[c].locked = req[c].locked
         /\ req'[c].wrote = req[c].wrote
         /\ \/ /\ Current(c) \in Dish \ live
               /\ req'[c].todo = Tail(req[c].todo) /\ req'[c].value = Zero
               /\ req'[c].pc = AfterTarget(c) /\ req'[c].cache = req[c].cache
               /\ req'[c].touched = req[c].touched
            \/ /\ Current(c) \notin Dish \ live /\ Current(c) \in DOMAIN req[c].cache
               /\ req'[c].todo = req[c].todo /\ req'[c].value = req[c].value
               /\ req'[c].pc = "store" /\ req'[c].cache = req[c].cache
               /\ req'[c].touched = req[c].touched
            \/ /\ Current(c) \notin Dish \ live /\ Current(c) \notin DOMAIN req[c].cache
               /\ req'[c].todo = req[c].todo /\ req'[c].value = req[c].value
               /\ req'[c].pc = "store"
               /\ req'[c].cache = Put(req[c].cache, Current(c), Stored(c, Current(c)))
               /\ req'[c].touched = req[c].touched \ {Current(c)}
<1>1. DOMAIN req[c] = Fields
  BY DEF AllShaped, Shape, Typed
<1> QED BY <1>1 DEF Load, NextTarget, Becomes, AllShaped, Fields, Request, At

LEMMA StoreStep ==
  ASSUME AllShaped, NEW c \in Client, Store(c)
  PROVE  /\ DOMAIN req'[c] = Fields /\ Request(c)' = Request(c)
         /\ req[c].pc = "store" /\ (Changes(c) # {} /\ Current(c) \in Dish => Current(c) \in live)
         /\ req'[c].held = req[c].held /\ req'[c].missed = req[c].missed
         /\ req'[c].locked = req[c].locked /\ req'[c].wrote = req[c].wrote
         /\ req'[c].touched = req[c].touched
         /\ req'[c].todo = Tail(req[c].todo) /\ req'[c].value = Zero
         /\ req'[c].pc = AfterTarget(c)
         /\ req'[c].rows = IF Changes(c) = {} THEN req[c].rows
                           ELSE Put(req[c].rows, Current(c),
                                    [col \in Changes(c) |-> req[c].value[col]])
         /\ req'[c].cache =
              IF Current(c) \in req[c].held
                 THEN [req[c].cache EXCEPT ![Current(c)] = req[c].value]
                 ELSE [h \in DOMAIN req[c].cache \ {Current(c)} |-> req[c].cache[h]]
<1>1. DOMAIN req[c] = Fields
  BY DEF AllShaped, Shape, Typed
<1> QED BY <1>1 DEF Store, NextTarget, Becomes, AllShaped, Fields, Request, At

LEMMA FindStep ==
  ASSUME AllShaped, NEW c \in Client, Find(c)
  PROVE  /\ DOMAIN req'[c] = Fields /\ Request(c)' = Request(c)
         /\ req[c].pc = "find" /\ req'[c].pc = "rate" /\ req[c].to \in live
         /\ req'[c].rows = req[c].rows /\ req'[c].missed = req[c].missed
         /\ req'[c].locked = req[c].locked /\ req'[c].wrote = req[c].wrote
         /\ req'[c].touched = req[c].touched /\ req'[c].todo = req[c].todo
         /\ req'[c].value = req[c].value
         /\ req'[c].held = req[c].held \cup {req[c].to}
         /\ req'[c].cache = Put(req[c].cache, req[c].to, RowSeen(c, req[c].to))
<1>1. DOMAIN req[c] = Fields
  BY DEF AllShaped, Shape, Typed
<1> QED BY <1>1 DEF Find, Becomes, AllShaped, Fields, Request, At

LEMMA LockShape ==
  ASSUME AllShaped, NEW c \in Client, Classify(c) \/ Lock(c) \/ Unlink(c)
  PROVE  Shape(req'[c])
<1> DEFINE q == req[c]
           p == req'[c]
<1> USE AggregatesAssumption
<1>1. Shape(q)
  BY DEF AllShaped
<1>2. /\ DOMAIN p = Fields
      /\ p.op = q.op /\ p.review = q.review /\ p.from = q.from /\ p.to = q.to
      /\ p.score = q.score /\ p.was = q.was /\ p.victims = q.victims
      /\ p.todo = q.todo /\ p.cache = q.cache /\ p.held = q.held /\ p.rows = q.rows
      /\ p.value = q.value /\ p.missed = q.missed /\ p.touched = q.touched
  BY LockStep DEF Request
<1>3. \/ /\ q.pc = "classify" /\ p.pc = "write" /\ p.locked = {Restaurant} /\ p.wrote = q.wrote
      \/ /\ q.pc = "lock" /\ p.wrote = q.wrote /\ p.locked = q.locked \cup {NextLock(c)}
         /\ p.pc = IF p.locked = {q.from, q.to} THEN "write" ELSE "lock"
      \/ /\ q.pc = "unlink" /\ p.pc = "commit" /\ p.locked = {q.from}
         /\ p.wrote = q.wrote \cup ReviewsOf(q.from)
  BY LockStep DEF Classify, Lock, Unlink, At
<1>4. q.pc = "lock" => NextLock(c) \in {q.from, q.to}
  BY <1>1 DEF NextLock, Shape, Placed
<1>5. /\ Aims(p) = Aims(q) /\ Pending(p) = Pending(q) /\ Todos(p) = Todos(q)
      /\ Renaming(p) <=> Renaming(q)
  BY <1>2 DEF Aims, Pending, Todos, Renaming
<1>6. ReviewsOf(q.from) \subseteq Review
  BY DEF ReviewsOf
<1> HIDE DEF p, q
<1>7. Asked(p)
  <2>1. Asked(q) /\ (q.op = "none" <=> q.pc = "idle")
    BY <1>1 DEF Shape, Placed
  <2>2. q.op # "none"
    BY <1>3, <2>1
  <2> QED BY <1>2, <2>1, <2>2 DEF Asked
<1>8. Typed(p)
  BY <1>1, <1>2, <1>3, <1>4, <1>5, <1>6 DEF Shape, Typed, Placed, Asked, Target, PC, Op
<1>9. Placed(p)
  BY <1>1, <1>2, <1>3, <1>4, <1>5 DEF Shape, Placed, OneReview, Recomputing, Typed
<1> QED BY <1>7, <1>8, <1>9 DEF Shape, p

LEMMA WriteShape ==
  ASSUME AllShaped, NEW c \in Client, WriteReview(c) \/ WriteReviews(c)
  PROVE  Shape(req'[c])
<1> DEFINE q == req[c]
           p == req'[c]
<1> USE AggregatesAssumption
<1>1. Shape(q)
  BY DEF AllShaped
<1>2. /\ DOMAIN p = Fields /\ q.pc = "write"
      /\ p.op = q.op /\ p.review = q.review /\ p.from = q.from /\ p.to = q.to
      /\ p.score = q.score /\ p.was = q.was /\ p.victims = q.victims
      /\ p.todo = q.todo /\ p.cache = q.cache /\ p.held = q.held /\ p.rows = q.rows
      /\ p.value = q.value /\ p.missed = q.missed /\ p.touched = q.touched
      /\ p.locked = q.locked
  BY WriteStep DEF Request
<1>3. \/ /\ q.op \in OneReview /\ p.pc = "rate"
         /\ \/ p.wrote = {q.review}
            \/ p.wrote = q.wrote /\ q.op = "update" /\ q.from = q.to /\ q.score = q.was
      \/ /\ q.op = "merge" /\ p.pc = "rate" /\ p.wrote = ReviewsOf(q.from)
      \/ /\ q.op = "drop" /\ p.pc = "unlink" /\ p.wrote = q.victims
  BY WriteStep DEF Renames
<1>5. /\ Aims(p) = Aims(q) /\ Pending(p) = Pending(q) /\ Todos(p) = Todos(q)
      /\ Renaming(p) <=> Renaming(q)
  BY <1>2 DEF Aims, Pending, Todos, Renaming
<1>6. ReviewsOf(q.from) \subseteq Review
  BY DEF ReviewsOf
<1> HIDE DEF p, q
<1>7. Asked(p)
  BY <1>1, <1>2, <1>3 DEF Asked, Shape, Placed, OneReview
<1>a. q.op \in OneReview => q.review \in Review
  BY <1>1 DEF Shape, Asked, OneReview
<1>8. Typed(p)
  BY <1>1, <1>2, <1>3, <1>5, <1>6, <1>a DEF Shape, Typed, PC, Op
<1>9. Placed(p)
  BY <1>1, <1>2, <1>3, <1>5 DEF Shape, Placed, OneReview, Recomputing, Typed
<1> QED BY <1>7, <1>8, <1>9 DEF Shape, p

LEMMA ComputeShape ==
  ASSUME AllShaped, NEW c \in Client, Rate(c) \/ Count(c)
  PROVE  Shape(req'[c])
<1> DEFINE q == req[c]
           p == req'[c]
<1>1. Shape(q)
  BY DEF AllShaped
<1>2. /\ DOMAIN p = Fields
      /\ p.op = q.op /\ p.review = q.review /\ p.from = q.from /\ p.to = q.to
      /\ p.score = q.score /\ p.was = q.was /\ p.victims = q.victims
      /\ p.todo = q.todo /\ p.cache = q.cache /\ p.held = q.held /\ p.rows = q.rows
      /\ p.touched = q.touched /\ p.locked = q.locked /\ p.wrote = q.wrote
  BY ComputeStep DEF Request
<1>3. /\ q.pc \in {"rate", "count"} /\ p.pc \in {"count", "load"}
      /\ DOMAIN p.value = DOMAIN q.value /\ p.missed \subseteq q.missed
  BY ComputeStep
<1>5. /\ Aims(p) = Aims(q) /\ Pending(p) = Pending(q) /\ Todos(p) = Todos(q)
      /\ Renaming(p) <=> Renaming(q)
  BY <1>2 DEF Aims, Pending, Todos, Renaming
<1> HIDE DEF p, q
<1>7. Asked(p)
  BY <1>1, <1>2, <1>3 DEF Asked, Shape, Placed
<1>8. Typed(p)
  BY <1>1, <1>2, <1>3, <1>5 DEF Shape, Typed, PC, Op
<1>9. Placed(p)
  BY <1>1, <1>2, <1>3, <1>5 DEF Shape, Placed, OneReview, Recomputing, Typed
<1> QED BY <1>7, <1>8, <1>9 DEF Shape, p

LEMMA PendingTail ==
  ASSUME NEW q, NEW p, Shape(q), q.todo # <<>>, p.todo = Tail(q.todo)
  PROVE  Pending(p) = Pending(q) \ {Head(q.todo)}
BY TodoShape DEF Pending

(* The request goes on to its next target.                                  *)
LEMMA NextShape ==
  ASSUME NEW q, NEW p, Shape(q), q.pc \in {"load", "store"}, DOMAIN p = Fields,
         p.op = q.op, p.review = q.review, p.from = q.from, p.to = q.to,
         p.score = q.score, p.was = q.was, p.victims = q.victims,
         p.todo = Tail(q.todo), p.locked = q.locked, p.wrote = q.wrote,
         p.value = Zero, p.missed = q.missed, p.touched = q.touched,
         p.held = q.held,
         p.pc = IF Len(q.todo) = 1 THEN "commit"
                ELSE IF q.op = "update" /\ Head(q.todo) = q.to THEN "find" ELSE "rate",
         DOMAIN p.cache \subseteq DOMAIN q.cache,
         p.held \subseteq DOMAIN p.cache, DOMAIN p.cache \subseteq p.held,
         DOMAIN p.rows \subseteq DOMAIN q.rows \cup {Head(q.todo)},
         \A k \in DOMAIN p.rows : DOMAIN p.rows[k] \subseteq Column
  PROVE  Shape(p)
<1> USE AggregatesAssumption
<1>1. q.todo # <<>> /\ q.op \notin {"none", "drop"}
  BY DEF Shape, Placed, Recomputing, OneReview
<1>2. /\ Aims(p) = Aims(q) /\ Todos(p) = Todos(q)
      /\ Renaming(p) <=> Renaming(q)
  BY DEF Aims, Todos, Renaming
<1>3. Pending(p) = Pending(q) \ {Head(q.todo)} /\ p.todo \in Todos(q)
  BY <1>1, TodoShape DEF Pending
<1>4. /\ Len(q.todo) = 1 <=> p.todo = <<>>
      /\ q.op = "update" /\ Head(q.todo) = q.to => p.todo = <<Restaurant>>
      /\ Head(q.todo) \in Aims(q)
  BY <1>1, TodoShape
<1>7. Asked(p)
  BY <1>1 DEF Asked, Shape
<1>8. Typed(p)
  <2>1. DOMAIN p.rows \subseteq Aims(p) \ Pending(p)
    BY <1>2, <1>3, <1>4 DEF Shape, Typed
  <2> QED BY <1>2, <1>3, <2>1 DEF Shape, Typed, PC, Op, Zero, Column
<1>9. Placed(p)
  BY <1>1, <1>2, <1>3, <1>4 DEF Shape, Placed, OneReview, Recomputing, Typed
<1> QED BY <1>7, <1>8, <1>9 DEF Shape

LEMMA LoadShape ==
  ASSUME AllShaped, NEW c \in Client, Load(c)
  PROVE  Shape(req'[c])
<1> DEFINE q == req[c]
           p == req'[c]
           k == Current(c)
<1>1. Shape(q) /\ q.pc = "load" /\ k = Head(q.todo)
  BY LoadStep DEF AllShaped, Current
<1>2. /\ DOMAIN p = Fields
      /\ p.op = q.op /\ p.review = q.review /\ p.from = q.from /\ p.to = q.to
      /\ p.score = q.score /\ p.was = q.was /\ p.victims = q.victims
      /\ p.held = q.held /\ p.rows = q.rows
      /\ p.missed = q.missed /\ p.locked = q.locked /\ p.wrote = q.wrote
  BY LoadStep DEF Request
<1>3. \/ /\ p.todo = Tail(q.todo) /\ p.value = Zero /\ p.pc = AfterTarget(c)
         /\ p.cache = q.cache /\ p.touched = q.touched
      \/ /\ p.todo = q.todo /\ p.value = q.value /\ p.pc = "store"
         /\ p.touched \subseteq q.touched /\ DOMAIN p.cache = DOMAIN q.cache \cup {k}
  <2>1. DOMAIN Put(q.cache, k, Stored(c, k)) = DOMAIN q.cache \cup {k}
    BY PutAt
  <2>2. k \in DOMAIN q.cache => DOMAIN q.cache = DOMAIN q.cache \cup {k}
    OBVIOUS
  <2> QED BY <2>1, <2>2, LoadStep
<1>4. AfterTarget(c) = IF Len(q.todo) = 1 THEN "commit"
                       ELSE IF q.op = "update" /\ Head(q.todo) = q.to THEN "find" ELSE "rate"
  BY DEF AfterTarget, Current
<1>5. DOMAIN q.cache = q.held /\ \A x \in DOMAIN q.rows : DOMAIN q.rows[x] \subseteq Column
  BY <1>1 DEF Shape, Typed, Placed
<1> HIDE DEF p, q, k
<1>a. CASE /\ p.todo = Tail(q.todo) /\ p.value = Zero /\ p.pc = AfterTarget(c)
           /\ p.cache = q.cache /\ p.touched = q.touched
  BY <1>1, <1>2, <1>4, <1>5, <1>a, NextShape DEF p
<1>b. CASE /\ p.todo = q.todo /\ p.value = q.value /\ p.pc = "store"
           /\ p.touched \subseteq q.touched /\ DOMAIN p.cache = DOMAIN q.cache \cup {k}
  <2>1. q.todo # <<>> /\ q.op \notin {"none", "drop"}
    BY <1>1 DEF Shape, Placed, Recomputing, OneReview
  <2>2. k \in Target
    BY <1>1, <2>1, TodoShape
  <2>3. /\ Aims(p) = Aims(q) /\ Pending(p) = Pending(q) /\ Todos(p) = Todos(q)
        /\ Renaming(p) <=> Renaming(q)
    BY <1>2, <1>b DEF Aims, Pending, Todos, Renaming
  <2>7. Asked(p)
    BY <1>1, <1>2, <2>1 DEF Asked, Shape
  <2>8. Typed(p)
    BY <1>1, <1>2, <1>b, <2>2, <2>3 DEF Shape, Typed, PC, Op
  <2>9. Placed(p)
    BY <1>1, <1>2, <1>5, <1>b, <2>3 DEF Shape, Placed, OneReview, Recomputing, Typed
  <2> QED BY <2>7, <2>8, <2>9 DEF Shape, p
<1> QED BY <1>3, <1>a, <1>b

LEMMA StoreShape ==
  ASSUME AllShaped, NEW c \in Client, Store(c)
  PROVE  Shape(req'[c])
<1> DEFINE q == req[c]
           p == req'[c]
           k == Current(c)
<1>1. Shape(q) /\ q.pc = "store" /\ k = Head(q.todo)
  BY StoreStep DEF AllShaped, Current
<1>2. /\ DOMAIN p = Fields
      /\ p.op = q.op /\ p.review = q.review /\ p.from = q.from /\ p.to = q.to
      /\ p.score = q.score /\ p.was = q.was /\ p.victims = q.victims
      /\ p.held = q.held /\ p.touched = q.touched
      /\ p.missed = q.missed /\ p.locked = q.locked /\ p.wrote = q.wrote
      /\ p.todo = Tail(q.todo) /\ p.value = Zero /\ p.pc = AfterTarget(c)
  BY StoreStep DEF Request
<1>3. /\ p.rows = IF Changes(c) = {} THEN q.rows
                  ELSE Put(q.rows, k, [col \in Changes(c) |-> q.value[col]])
      /\ p.cache = IF k \in q.held THEN [q.cache EXCEPT ![k] = q.value]
                   ELSE [h \in DOMAIN q.cache \ {k} |-> q.cache[h]]
      /\ Changes(c) \subseteq Column
  BY StoreStep DEF Changes
<1>4. AfterTarget(c) = IF Len(q.todo) = 1 THEN "commit"
                       ELSE IF q.op = "update" /\ Head(q.todo) = q.to THEN "find" ELSE "rate"
  BY DEF AfterTarget, Current
<1>5. /\ q.held \subseteq DOMAIN q.cache /\ DOMAIN q.cache \subseteq q.held \cup {k}
      /\ \A x \in DOMAIN q.rows : DOMAIN q.rows[x] \subseteq Column
  BY <1>1 DEF Shape, Typed, Placed
<1> HIDE DEF p, q, k
<1>6. /\ DOMAIN p.rows \subseteq DOMAIN q.rows \cup {k}
      /\ \A x \in DOMAIN p.rows : DOMAIN p.rows[x] \subseteq Column
  BY <1>3, <1>5 DEF Put
<1>7. /\ DOMAIN p.cache \subseteq DOMAIN q.cache
      /\ q.held \subseteq DOMAIN p.cache /\ DOMAIN p.cache \subseteq q.held
  BY <1>3, <1>5
<1> QED BY <1>1, <1>2, <1>4, <1>6, <1>7, NextShape DEF p

LEMMA FindShape ==
  ASSUME AllShaped, NEW c \in Client, Find(c)
  PROVE  Shape(req'[c])
<1> DEFINE q == req[c]
           p == req'[c]
<1> USE AggregatesAssumption
<1>1. Shape(q) /\ q.pc = "find" /\ q.op = "update" /\ q.to \in Dish
  BY FindStep DEF AllShaped, Shape, Placed, Asked
<1>2. /\ DOMAIN p = Fields /\ p.pc = "rate"
      /\ p.op = q.op /\ p.review = q.review /\ p.from = q.from /\ p.to = q.to
      /\ p.score = q.score /\ p.was = q.was /\ p.victims = q.victims
      /\ p.rows = q.rows /\ p.touched = q.touched /\ p.missed = q.missed
      /\ p.locked = q.locked /\ p.wrote = q.wrote /\ p.todo = q.todo
      /\ p.value = q.value
  BY FindStep DEF Request
<1>3. DOMAIN p.cache = DOMAIN q.cache \cup {q.to} /\ p.held = q.held \cup {q.to}
  BY FindStep DEF Put
<1>5. /\ Aims(p) = Aims(q) /\ Pending(p) = Pending(q) /\ Todos(p) = Todos(q)
      /\ Renaming(p) <=> Renaming(q)
  BY <1>2 DEF Aims, Pending, Todos, Renaming
<1> HIDE DEF p, q
<1>7. Asked(p)
  BY <1>1, <1>2 DEF Asked, Shape
<1>8. Typed(p)
  BY <1>1, <1>2, <1>3, <1>5 DEF Shape, Typed, PC, Op, Target
<1>9. Placed(p)
  BY <1>1, <1>2, <1>3, <1>5 DEF Shape, Placed, OneReview, Recomputing, Typed
<1> QED BY <1>7, <1>8, <1>9 DEF Shape, p

LEMMA StepShape ==
  ASSUME AllShaped, NEW c \in Client, Steps(c)
  PROVE  Shape(req'[c])
BY LockShape, WriteShape, ComputeShape, LoadShape, StoreShape, FindShape DEF Steps

------------------------------------------------------------------------------
(* Locks.  No review is written by two requests, and no row locked by one   *)
(* that another holds in a mode that conflicts.                             *)
WroteApart ==
  \A c, e \in Client : c # e => req[c].wrote \cap req[e].wrote = {}

LocksApart ==
  \A c, e \in Client : c # e =>
    /\ req[c].locked \cap req[e].locked = {}
    /\ req[c].locked \cap (Updated(e) \cup Shared(e)) = {}
    /\ Updated(c) \cap Updated(e) = {}

(* Once a merge has moved the reviews of its source, or a deletion has      *)
(* deleted its dish, all reviews of that dish are its own; and the review   *)
(* that an update has written exists.                                       *)
EmptiedAt(c) ==
  /\ req[c].op = "merge" /\ req[c].pc \notin {"lock", "write"} =>
       req[c].wrote = ReviewsOf(req[c].from)
  /\ req[c].op = "drop" /\ req[c].pc = "commit" => ReviewsOf(req[c].from) \subseteq req[c].wrote
  /\ req[c].op = "update" => \A r \in req[c].wrote : dishOf[r] # NoDish

(* The dishes that a request gives reviews to exist until it ends.          *)
AliveAt(c) ==
  /\ req[c].op = "merge" => req[c].locked \subseteq live
  /\ Shared(c) \subseteq live

LockInv ==
  /\ AllShaped /\ References /\ WroteApart /\ LocksApart
  /\ \A c \in Client : EmptiedAt(c) /\ AliveAt(c)

(* A request whose next statement waits for nobody.                         *)
LEMMA FreeAt ==
  ASSUME NEW c \in Client, Free(c), NEW e \in Client, e # c
  PROVE  /\ req[c].pc = "classify" /\ Restaurant \notin req[c].locked \cup Updated(c) =>
              Restaurant \notin req[e].locked \cup Updated(e)
         /\ req[c].pc = "lock" =>
              NextLock(c) \notin req[e].locked \cup Updated(e) \cup Shared(e)
         /\ req[c].pc = "write" /\ req[c].op = "merge" =>
              req[e].wrote \cap ReviewsOf(req[c].from) = {}
         /\ req[c].pc = "write" /\ req[c].op = "drop" =>
              req[e].wrote \cap req[c].victims = {}
         /\ req[c].pc = "write" /\ req[c].op \in OneReview => req[c].review \notin req[e].wrote
         /\ req[c].pc = "write" /\ (req[c].op = "create" \/ Renames(c)) =>
              req[c].to \notin req[e].locked
         /\ req[c].pc = "unlink" =>
              /\ req[c].from \notin req[e].locked \cup Updated(e) \cup Shared(e)
              /\ req[e].wrote \cap ReviewsOf(req[c].from) = {}
         /\ req[c].pc = "store" /\ Changes(c) # {}
              /\ Current(c) \notin req[c].locked \cup Updated(c) =>
              Current(c) \notin req[e].locked \cup Updated(e)
<1>1. e \in Others(c) /\ e \notin WaitsFor(c)
  BY DEF Free, Others
<1>2. /\ ~ (req[c].pc = "classify" /\ e \in BlockedOnUpdate(c, Restaurant))
      /\ ~ (req[c].pc = "lock" /\ e \in BlockedOnLock(c, NextLock(c)))
      /\ ~ (req[c].pc = "write" /\ req[c].op = "merge"
              /\ e \in BlockedOnReviews(c, ReviewsOf(req[c].from)))
      /\ ~ (req[c].pc = "write" /\ req[c].op = "drop"
              /\ e \in BlockedOnReviews(c, req[c].victims))
      /\ ~ (req[c].pc = "write" /\ req[c].op \in OneReview
              /\ e \in BlockedOnReviews(c, {req[c].review}))
      /\ ~ (req[c].pc = "write" /\ (req[c].op = "create" \/ Renames(c))
              /\ e \in BlockedOnShare(c, req[c].to))
      /\ ~ (req[c].pc = "unlink" /\ e \in BlockedOnLock(c, req[c].from))
      /\ ~ (req[c].pc = "unlink" /\ e \in BlockedOnReviews(c, ReviewsOf(req[c].from)))
      /\ ~ (req[c].pc = "store" /\ Changes(c) # {} /\ e \in BlockedOnUpdate(c, Current(c)))
  BY <1>1 DEF WaitsFor
<1>3. ASSUME NEW k
      PROVE  /\ e \notin BlockedOnShare(c, k) => k \notin req[e].locked
             /\ e \notin BlockedOnLock(c, k) =>
                  k \notin req[e].locked \cup Updated(e) \cup Shared(e)
             /\ e \notin BlockedOnUpdate(c, k) /\ k \notin req[c].locked \cup Updated(c) =>
                  k \notin req[e].locked \cup Updated(e)
             /\ e \notin BlockedOnReviews(c, k) => req[e].wrote \cap k = {}
  BY <1>1 DEF BlockedOnShare, BlockedOnLock, BlockedOnUpdate, BlockedOnReviews
<1> QED BY <1>2, <1>3

(* What a statement takes, nobody else holds.                               *)
Taken(c, e) ==
  /\ \A x \in req'[c].locked \ req[c].locked :
       x \notin req[e].locked \cup Updated(e) \cup Shared(e)
  /\ \A r \in req'[c].wrote \ req[c].wrote : r \notin req[e].wrote
  /\ \A x \in Updated(c)' \ Updated(c) : x \notin req[e].locked \cup Updated(e)
  /\ \A x \in Shared(c)' \ Shared(c) : x \notin req[e].locked

LEMMA SharedSame ==
  ASSUME NEW c \in Client, Request(c)' = Request(c), req'[c].wrote = req[c].wrote
  PROVE  Shared(c)' = Shared(c)
BY DEF Shared, Request, Renames

LEMMA TakenFree ==
  ASSUME LockInv, NEW c \in Client, Steps(c), NEW e \in Client, e # c
  PROVE  Taken(c, e)
<1> USE AggregatesAssumption
<1>1. Shape(req[c]) /\ Shape(req[e])
  BY DEF LockInv, AllShaped
<1>2. Restaurant \notin Shared(e)
  BY <1>1 DEF Shared, Shape, Asked, Renames
<1>3. Free(c)
  BY DEF Steps, Classify, Lock, WriteReview, WriteReviews, Unlink, Rate, Count, Load, Store,
         Find, At
<1>4. CASE Classify(c) \/ Lock(c) \/ Unlink(c)
  <2>1. AllShaped
    BY DEF LockInv
  <2>2. Updated(c)' = Updated(c)
    BY <1>4, <2>1, LockStep DEF Updated
  <2>3. CASE req[c].pc = "classify" /\ req'[c].locked = {Restaurant}
             /\ req'[c].wrote = req[c].wrote
    <3>1. Shared(c)' = Shared(c)
      BY <1>4, <2>1, <2>3, LockStep, SharedSame
    <3>2. Updated(c) = {}
      BY <1>1, <2>3 DEF Shape, Placed, Updated
    <3> QED BY <1>2, <1>3, <2>2, <2>3, <3>1, <3>2, FreeAt DEF Taken
  <2>4. CASE req[c].pc = "lock" /\ req'[c].locked = req[c].locked \cup {NextLock(c)}
             /\ req'[c].wrote = req[c].wrote
    <3>1. Shared(c)' = Shared(c)
      BY <1>4, <2>1, <2>4, LockStep, SharedSame
    <3> QED BY <1>3, <2>2, <2>4, <3>1, FreeAt DEF Taken
  <2>5. CASE req[c].pc = "unlink" /\ req'[c].locked = {req[c].from}
             /\ req'[c].wrote = req[c].wrote \cup ReviewsOf(req[c].from)
    <3>1. req[c].op = "drop"
      BY <1>1, <2>5 DEF Shape, Placed
    <3>2. Shared(c)' = {}
      BY <1>4, <2>1, <3>1, LockStep DEF Shared, Request, Renames
    <3> QED BY <1>3, <2>2, <2>5, <3>2, FreeAt DEF Taken
  <2> QED
    <3>1. \/ req[c].pc = "classify" /\ Classify(c)
          \/ req[c].pc = "lock" /\ Lock(c)
          \/ req[c].pc = "unlink" /\ Unlink(c)
      BY <1>4 DEF Classify, Lock, Unlink, At
    <3>2. /\ Classify(c) => req[c].pc = "classify"
          /\ Lock(c) => req[c].pc = "lock"
          /\ Unlink(c) => req[c].pc = "unlink"
      BY DEF Classify, Lock, Unlink, At
    <3> QED BY <3>1, <3>2, <2>1, <2>3, <2>4, <2>5, LockStep
<1>5. CASE WriteReview(c) \/ WriteReviews(c)
  <2>1. AllShaped
    BY DEF LockInv
  <2>2. Updated(c)' = Updated(c) /\ req'[c].locked = req[c].locked /\ req[c].pc = "write"
    BY <1>5, <2>1, WriteStep DEF Updated
  <2>3. Shared(c)' \subseteq IF req[c].op = "create" \/ Renames(c) THEN {req[c].to} ELSE {}
    BY <1>5, <2>1, WriteStep DEF Shared, Request, Renames
  <2>4. \A x \in Shared(c)' : x \notin req[e].locked
    BY <1>3, <2>2, <2>3, FreeAt
  <2>5. \A r \in req'[c].wrote \ req[c].wrote : r \notin req[e].wrote
    BY <1>3, <1>5, <2>1, <2>2, WriteStep, FreeAt
  <2> QED BY <2>2, <2>4, <2>5 DEF Taken
<1>6. CASE Rate(c) \/ Count(c)
  BY <1>6, ComputeStep, SharedSame DEF Taken, LockInv, Updated
<1>7. CASE Load(c)
  BY <1>7, LoadStep, SharedSame DEF Taken, LockInv, Updated
<1>8. CASE Find(c)
  BY <1>8, FindStep, SharedSame DEF Taken, LockInv, Updated
<1>9. CASE Store(c)
  <2>1. AllShaped /\ LocksApart
    BY DEF LockInv
  <2>2. req'[c].locked = req[c].locked /\ req'[c].wrote = req[c].wrote /\ req[c].pc = "store"
    BY <1>9, <2>1, StoreStep
  <2>3. Shared(c)' = Shared(c)
    BY <1>9, <2>1, <2>2, StoreStep, SharedSame
  <2>4. Updated(c)' \subseteq Updated(c) \cup (IF Changes(c) = {} THEN {} ELSE {Current(c)})
    <3>1. CASE Changes(c) = {}
      BY <1>9, <2>1, <3>1, StoreStep DEF Updated
    <3>2. CASE Changes(c) # {}
      <4>1. req'[c].rows = Put(req[c].rows, Current(c),
                               [col \in Changes(c) |-> req[c].value[col]])
        BY <1>9, <2>1, <3>2, StoreStep
      <4> QED BY <4>1, <3>2, SMT DEF Updated, Put
    <3> QED BY <3>1, <3>2
  <2>5. Current(c) \in req[c].locked => Current(c) \notin req[e].locked \cup Updated(e)
    BY <2>1 DEF LocksApart
  <2> QED BY <1>3, <2>2, <2>3, <2>4, <2>5, FreeAt DEF Taken
<1> QED BY <1>4, <1>5, <1>6, <1>7, <1>8, <1>9 DEF Steps

LEMMA ApartAfterStep ==
  ASSUME LockInv, NEW c \in Client, Steps(c)
  PROVE  WroteApart' /\ LocksApart'
<1>1. \A e \in Client : e # c => Taken(c, e)
  BY TakenFree
<1>2. \A e \in Client : e # c => req'[e] = req[e]
  BY StepAlone DEF LockInv, AllShaped
<1>3. \A e \in Client : e # c => Updated(e)' = Updated(e) /\ Shared(e)' = Shared(e)
  BY <1>2 DEF Updated, Shared, Renames
<1>4. WroteApart /\ LocksApart
  BY DEF LockInv
<1>5. WroteApart'
  BY <1>1, <1>2, <1>4 DEF WroteApart, Taken
<1>6. \A e \in Client : e # c =>
        /\ req'[c].locked \cap req[e].locked = {}
        /\ req'[c].locked \cap (Updated(e) \cup Shared(e)) = {}
        /\ req[e].locked \cap (Updated(c)' \cup Shared(c)') = {}
        /\ Updated(c)' \cap Updated(e) = {}
  BY <1>1, <1>4 DEF LocksApart, Taken
<1>7. LocksApart'
  BY <1>2, <1>3, <1>4, <1>6 DEF LocksApart
<1> QED BY <1>5, <1>7

(* A statement keeps the invariant of the locks.                            *)
LEMMA LockInvStep ==
  ASSUME LockInv, NEW c \in Client, Steps(c)
  PROVE  LockInv'
<1> USE AggregatesAssumption
<1>1. AllShaped /\ Shape(req[c]) /\ EmptiedAt(c) /\ AliveAt(c)
  BY DEF LockInv, AllShaped
<1>2. /\ req' = [req EXCEPT ![c] = req'[c]] /\ UNCHANGED data /\ req[c].op # "none"
      /\ \A e \in Client : e # c => req'[e] = req[e]
  BY <1>1, StepAlone DEF AllShaped
<1>3. AllShaped'
  BY <1>1, <1>2, StepShape DEF AllShaped
<1>4. References'
  BY <1>2 DEF LockInv, References, data
<1>5. ASSUME NEW e \in Client, e # c
      PROVE  EmptiedAt(e)' /\ AliveAt(e)'
  <2>1. req'[e] = req[e] /\ dishOf' = dishOf /\ live' = live
    BY <1>2, <1>5 DEF data
  <2>2. EmptiedAt(e) /\ AliveAt(e)
    BY DEF LockInv
  <2> QED BY <2>1, <2>2 DEF EmptiedAt, AliveAt, ReviewsOf, Shared, Renames
<1>6. EmptiedAt(c)' /\ AliveAt(c)'
  <2>2. /\ dishOf' = dishOf /\ live' = live
        /\ \A d : ReviewsOf(d)' = ReviewsOf(d)
    BY <1>2 DEF data, ReviewsOf
  <2>3. Request(c)' = Request(c)
    BY <1>1, LockStep, WriteStep, ComputeStep, LoadStep, StoreStep, FindStep DEF Steps
  <2>4. /\ req'[c].op = req[c].op /\ req'[c].from = req[c].from /\ req'[c].to = req[c].to
        /\ ReviewsOf(req[c].from)' = {r \in Review : dishOf'[r] = req'[c].from}
        /\ ReviewsOf(req[c].from) = {r \in Review : dishOf[r] = req[c].from}
    BY <2>3 DEF Request, ReviewsOf
  <2>a. CASE Rate(c) \/ Count(c) \/ Load(c) \/ Store(c) \/ Find(c)
    <3>1. /\ req'[c].wrote = req[c].wrote /\ req'[c].locked = req[c].locked
      BY <1>1, <2>a, ComputeStep, LoadStep, StoreStep, FindStep
    <3>2. req[c].pc \notin {"lock", "write"} /\ req[c].op # "drop"
      <4>1. req[c].pc \in {"rate", "count", "load", "store", "find"}
        BY <2>a DEF Rate, Count, Load, Store, Find, At
      <4> QED BY <1>1, <4>1 DEF Shape, Placed
    <3>3. Shared(c)' = Shared(c)
      BY <2>3, <3>1, SharedSame
    <3> QED BY <1>1, <2>2, <2>4, <3>1, <3>2, <3>3 DEF EmptiedAt, AliveAt, ReviewsOf
  <2>b. CASE Classify(c) \/ Lock(c) \/ Unlink(c)
    <3>1. CASE req[c].pc = "classify" /\ req'[c].wrote = req[c].wrote
      <4>1. req[c].op = "create"
        BY <1>1, <3>1 DEF Shape, Placed
      <4>2. Shared(c)' = Shared(c)
        BY <2>3, <3>1, SharedSame
      <4> QED BY <1>1, <2>2, <2>4, <4>1, <4>2 DEF EmptiedAt, AliveAt
    <3>2. CASE /\ req[c].pc = "lock" /\ req'[c].wrote = req[c].wrote
               /\ req'[c].pc \in {"lock", "write"}
               /\ req'[c].locked = req[c].locked \cup {NextLock(c)} /\ NextLock(c) \in live
      <4>1. req[c].op = "merge"
        BY <1>1, <3>2 DEF Shape, Placed
      <4>2. Shared(c)' = Shared(c)
        BY <2>3, <3>2, SharedSame
      <4> QED BY <1>1, <2>2, <2>4, <3>2, <4>1, <4>2 DEF EmptiedAt, AliveAt
    <3>3. CASE /\ req[c].pc = "unlink" /\ req'[c].pc = "commit"
               /\ req'[c].wrote = req[c].wrote \cup ReviewsOf(req[c].from)
      <4>1. req[c].op = "drop"
        BY <1>1, <3>3 DEF Shape, Placed
      <4>2. Shared(c)' = {}
        BY <2>4, <4>1 DEF Shared, Renames
      <4> QED BY <2>2, <2>4, <3>3, <4>1, <4>2 DEF EmptiedAt, AliveAt, ReviewsOf
    <3> QED
      <4>1. /\ Classify(c) => req[c].pc = "classify"
            /\ Lock(c) => req[c].pc = "lock"
            /\ Unlink(c) => req[c].pc = "unlink"
        BY DEF Classify, Lock, Unlink, At
      <4> QED BY <1>1, <2>b, <3>1, <3>2, <3>3, <4>1, LockStep
  <2>c. CASE WriteReview(c) \/ WriteReviews(c)
    <3>1. /\ req[c].pc = "write" /\ req'[c].locked = req[c].locked
          /\ \/ /\ req[c].op \in OneReview
                /\ req[c].op = "create" \/ Renames(c) => req[c].to \in live
                /\ req[c].op = "update" => \A r \in req'[c].wrote : dishOf[r] # NoDish
             \/ /\ req[c].op = "merge" /\ req'[c].pc = "rate"
                /\ req'[c].wrote = ReviewsOf(req[c].from)
             \/ req[c].op = "drop" /\ req'[c].pc = "unlink"
      <4>1. \A r \in req[c].wrote : req[c].op = "update" => dishOf[r] # NoDish
        BY <1>1 DEF EmptiedAt
      <4> QED BY <1>1, <2>c, <4>1, WriteStep
    <3>2. Shared(c)' \subseteq IF req[c].op = "create" \/ Renames(c) THEN {req[c].to} ELSE {}
      BY <2>4 DEF Shared, Renames
    <3>3. Shared(c)' \subseteq live
      BY <3>1, <3>2 DEF OneReview, Renames
    <3> QED BY <1>1, <2>2, <2>4, <3>1, <3>3 DEF EmptiedAt, AliveAt, OneReview, ReviewsOf
  <2> QED BY <2>a, <2>b, <2>c DEF Steps
<1>7. WroteApart' /\ LocksApart'
  BY ApartAfterStep
<1> QED BY <1>3, <1>4, <1>5, <1>6, <1>7 DEF LockInv

(* The request of c is new, or is gone, and nothing else changes.           *)
LEMMA LockInvFresh ==
  ASSUME LockInv, NEW c \in Client, req' = [req EXCEPT ![c] = req'[c]], UNCHANGED data,
         Shape(req'[c]), req'[c].wrote = {}, req'[c].locked = {}, DOMAIN req'[c].rows = {},
         req'[c].pc \in {"idle", "classify", "lock", "write"}
  PROVE  LockInv'
<1>1. /\ \A e \in Client : e # c => req'[e] = req[e]
      /\ AllShaped /\ References /\ dishOf' = dishOf /\ live' = live
  BY DEF LockInv, AllShaped, data
<1>2. AllShaped'
  BY <1>1 DEF AllShaped
<1>3. References'
  BY <1>1 DEF References, data
<1>4. Shared(c)' = {} /\ Updated(c)' = {}
  BY DEF Shared, Updated
<1>5. \A e \in Client : e # c => Shared(e)' = Shared(e) /\ Updated(e)' = Updated(e)
  BY <1>1 DEF Shared, Updated, Renames
<1>6. WroteApart' /\ LocksApart'
  <2>1. WroteApart /\ LocksApart
    BY DEF LockInv
  <2>2. WroteApart'
    BY <1>1, <2>1 DEF WroteApart
  <2>3. LocksApart'
    BY <1>1, <1>4, <1>5, <2>1 DEF LocksApart
  <2> QED BY <2>2, <2>3
<1>7. ASSUME NEW e \in Client, e # c
      PROVE  EmptiedAt(e)' /\ AliveAt(e)'
  <2>1. EmptiedAt(e) /\ AliveAt(e) /\ req'[e] = req[e]
    BY <1>1, <1>7 DEF LockInv
  <2> QED BY <1>1, <2>1 DEF EmptiedAt, AliveAt, ReviewsOf, Shared, Renames
<1>8. EmptiedAt(c)' /\ AliveAt(c)'
  <2>1. /\ req'[c].op = "merge" => req'[c].pc \in {"lock", "write"}
        /\ req'[c].op = "drop" => req'[c].pc # "commit"
    BY DEF Shape, Placed
  <2> QED BY <1>4, <2>1 DEF EmptiedAt, AliveAt
<1> QED BY <1>2, <1>3, <1>6, <1>7, <1>8 DEF LockInv

LEMMA LockInvAbort ==
  ASSUME LockInv, NEW c \in Client, Abort(c)
  PROVE  LockInv'
<1>1. /\ req' = [req EXCEPT ![c] = req'[c]] /\ UNCHANGED data /\ req'[c] = Idle
  BY DEF LockInv, AllShaped, Abort
<1>2. /\ Idle.wrote = {} /\ Idle.locked = {} /\ DOMAIN Idle.rows = {} /\ Idle.pc = "idle"
  BY DEF Idle
<1> QED BY <1>1, <1>2, IdleShape, LockInvFresh

LEMMA LockInvCreateDish ==
  ASSUME LockInv, NEW d \in Dish, CreateDish(d)
  PROVE  LockInv'
<1> USE AggregatesAssumption
<1>1. /\ live' = live \cup {d} /\ req' = req /\ dishOf' = dishOf /\ agg' = agg
      /\ score' = score
  BY DEF CreateDish
<1>2. AllShaped'
  BY <1>1 DEF LockInv, AllShaped
<1>3. References'
  BY <1>1 DEF LockInv, References
<1>4. WroteApart' /\ LocksApart'
  BY <1>1 DEF LockInv, WroteApart, LocksApart, Shared, Updated, Renames
<1>5. ASSUME NEW c \in Client
      PROVE  EmptiedAt(c)' /\ AliveAt(c)'
  <2>1. EmptiedAt(c) /\ AliveAt(c)
    BY DEF LockInv
  <2> QED BY <1>1, <2>1 DEF EmptiedAt, AliveAt, ReviewsOf, Shared, Renames
<1> QED BY <1>2, <1>3, <1>4, <1>5 DEF LockInv

(* What a commit does to the reviews, the dishes and the other requests.    *)
LEMMA CommitData ==
  ASSUME LockInv, NEW c \in Client, Commit(c)
  PROVE  /\ \A r \in Review \ req[c].wrote : dishOf'[r] = dishOf[r] /\ score'[r] = score[r]
         /\ \A r \in req[c].wrote :
              \/ dishOf'[r] \in {NoDish, dishOf[r]}
              \/ dishOf'[r] = req[c].to /\ req[c].to \in (Shared(c) \cup req[c].locked) \cap live
         /\ live' = live \ Gone(c) /\ Gone(c) \subseteq req[c].locked /\ Gone(c) \subseteq Dish
         /\ \A r \in Review : dishOf'[r] \notin Gone(c)
         /\ Shape(req[c])
<1> USE AggregatesAssumption
<1>1. /\ Shape(req[c]) /\ EmptiedAt(c) /\ AliveAt(c) /\ References /\ req[c].pc = "commit"
      /\ dishOf' = DishAfter(c) /\ score' = ScoreAfter(c) /\ live' = Kept(c) \cap Dish
  BY DEF LockInv, AllShaped, Commit
<1>2. Gone(c) = IF req[c].op \in {"merge", "drop"} THEN {req[c].from} ELSE {}
  BY DEF Gone
<1>3. Gone(c) \subseteq req[c].locked /\ Gone(c) \subseteq Dish
  BY <1>1, <1>2 DEF Shape, Placed, Asked
<1>4. live' = live \ Gone(c)
  BY <1>1 DEF Kept, References
<1>5. \A r \in Review \ req[c].wrote : dishOf[r] \notin Gone(c)
  BY <1>1, <1>2 DEF EmptiedAt, ReviewsOf
<1>6. ASSUME NEW r \in Review \ req[c].wrote
      PROVE  dishOf'[r] = dishOf[r] /\ score'[r] = score[r]
  <2>1. DishSeen(c, r) = dishOf[r]
    BY <1>6 DEF DishSeen
  <2>2. dishOf'[r] = dishOf[r] /\ DishAfter(c)[r] = dishOf[r]
    BY <1>1, <1>5, <1>6, <2>1 DEF DishAfter
  <2>3. dishOf[r] = NoDish <=> score[r] = 0
    BY <1>1, <1>6 DEF References
  <2> QED BY <1>1, <1>6, <2>2, <2>3 DEF ScoreAfter
<1>7. ASSUME NEW r \in req[c].wrote
      PROVE  \/ dishOf'[r] \in {NoDish, dishOf[r]}
             \/ dishOf'[r] = req[c].to /\ req[c].to \in (Shared(c) \cup req[c].locked) \cap live
  <2>1. r \in Review
    BY <1>1 DEF Shape, Typed
  <2>2. dishOf'[r] = IF DishSeen(c, r) \in Gone(c) THEN NoDish ELSE DishSeen(c, r)
    BY <1>1, <2>1 DEF DishAfter
  <2>3. \/ DishSeen(c, r) \in {NoDish, dishOf[r]}
        \/ DishSeen(c, r) = req[c].to /\ req[c].op \notin {"delete", "drop"}
             /\ ~ (req[c].op = "update" /\ req[c].from = req[c].to)
    BY DEF DishSeen
  <2>4. req[c].op \notin {"delete", "drop"} /\ ~ (req[c].op = "update" /\ req[c].from = req[c].to)
          => req[c].op = "merge" \/ req[c].op = "create" \/ Renames(c)
    <3>1. req[c].op \in Op /\ req[c].op # "none"
      BY <1>1 DEF Shape, Typed, Placed
    <3> QED BY <3>1 DEF Op, Renames
  <2>5. req[c].op = "merge" => req[c].to \in req[c].locked /\ req[c].to \in live
    BY <1>1 DEF Shape, Placed, AliveAt
  <2>6. req[c].op = "create" \/ Renames(c) => req[c].to \in Shared(c) /\ req[c].to \in live
    BY <1>1 DEF Shared, AliveAt
  <2> QED BY <2>2, <2>3, <2>4, <2>5, <2>6
<1>8. \A r \in Review : dishOf'[r] \notin Gone(c)
  BY <1>1, <1>3 DEF DishAfter
<1> QED BY <1>1, <1>3, <1>4, <1>6, <1>7, <1>8

LEMMA CommitOthers ==
  ASSUME AllShaped, NEW c \in Client, Commit(c)
  PROVE  /\ req' = [e \in Client |-> req'[e]] /\ req'[c] = Idle
         /\ \A e \in Client : e # c =>
              /\ Shape(req'[e]) /\ Request(e)' = Request(e)
              /\ req'[e].pc = req[e].pc /\ req'[e].todo = req[e].todo
              /\ req'[e].cache = req[e].cache /\ req'[e].held = req[e].held
              /\ req'[e].rows = req[e].rows /\ req'[e].value = req[e].value
              /\ req'[e].wrote = req[e].wrote /\ req'[e].locked = req[e].locked
              /\ req[e] # Idle => /\ req'[e].missed = req[e].missed \cup (Inputs(c) \X Column)
                                  /\ req'[e].touched = req[e].touched \cup Moved(c)
<1>1. req' = [e \in Client |-> req'[e]] /\ req'[c] = Idle
  BY DEF Commit
<1>2. ASSUME NEW e \in Client, e # c, req[e] = Idle
      PROVE  req'[e] = Idle
  BY <1>2 DEF Commit
<1>3. ASSUME NEW e \in Client, e # c, req[e] # Idle
      PROVE  req'[e] = [req[e] EXCEPT !.missed = @ \cup (Inputs(c) \X Column),
                                      !.touched = @ \cup Moved(c)]
  BY <1>3 DEF Commit
<1>4. Inputs(c) \subseteq Target /\ Moved(c) \subseteq Target
  BY DEF Inputs, Moved, Reviewed, Target
<1>5. ASSUME NEW e \in Client, e # c, req[e] # Idle
      PROVE  /\ Shape(req'[e]) /\ Request(e)' = Request(e)
             /\ req'[e].pc = req[e].pc /\ req'[e].todo = req[e].todo
             /\ req'[e].cache = req[e].cache /\ req'[e].held = req[e].held
             /\ req'[e].rows = req[e].rows /\ req'[e].value = req[e].value
             /\ req'[e].wrote = req[e].wrote /\ req'[e].locked = req[e].locked
             /\ req'[e].missed = req[e].missed \cup (Inputs(c) \X Column)
             /\ req'[e].touched = req[e].touched \cup Moved(c)
  <2> DEFINE q == req[e]
             p == req'[e]
             m == req[e].missed \cup (Inputs(c) \X Column)
             t == req[e].touched \cup Moved(c)
  <2>1. Shape(q) /\ DOMAIN q = Fields
    BY DEF AllShaped, Shape, Typed
  <2>b. p = [q EXCEPT !.missed = m, !.touched = t]
    BY <1>3, <1>5
  <2> HIDE DEF m, t
  <2>2. /\ DOMAIN p = Fields
        /\ p.op = q.op /\ p.review = q.review /\ p.from = q.from /\ p.to = q.to
        /\ p.score = q.score /\ p.was = q.was /\ p.victims = q.victims
        /\ p.todo = q.todo /\ p.cache = q.cache /\ p.held = q.held /\ p.rows = q.rows
        /\ p.value = q.value /\ p.locked = q.locked /\ p.wrote = q.wrote /\ p.pc = q.pc
    BY <2>b, <2>1 DEF Fields
  <2>3. /\ p.missed = q.missed \cup (Inputs(c) \X Column)
        /\ p.touched = q.touched \cup Moved(c)
    BY <2>b, <2>1 DEF Fields, m, t
  <2>4. Request(e)' = Request(e)
    BY <2>2 DEF Request
  <2>5. p.missed \subseteq Target \X Column /\ p.touched \subseteq Target
    BY <1>4, <2>1, <2>3 DEF Shape, Typed
  <2>a. q.op # "none"
    BY <1>5, <2>1 DEF Shape, Asked
  <2> HIDE DEF p, q
  <2>6. /\ Aims(p) = Aims(q) /\ Pending(p) = Pending(q) /\ Todos(p) = Todos(q)
        /\ Renaming(p) <=> Renaming(q)
    BY <2>2 DEF Aims, Pending, Todos, Renaming
  <2>7. Asked(p)
    BY <2>1, <2>2, <2>a DEF Asked, Shape
  <2>8. Typed(p)
    BY <2>1, <2>2, <2>5, <2>6 DEF Shape, Typed
  <2>9. Placed(p)
    BY <2>1, <2>2, <2>6 DEF Shape, Placed
  <2> QED BY <2>2, <2>3, <2>4, <2>7, <2>8, <2>9 DEF Shape, p, q
<1>6. ASSUME NEW e \in Client, e # c, req[e] = Idle
      PROVE  /\ Shape(req'[e]) /\ Request(e)' = Request(e) /\ req'[e] = req[e]
  BY <1>2, <1>6, IdleShape DEF Request
<1> QED BY <1>1, <1>5, <1>6

LEMMA ReferencesCommit ==
  ASSUME LockInv, NEW c \in Client, Commit(c)
  PROVE  References'
<1> USE AggregatesAssumption
<1>1. /\ Shape(req[c]) /\ EmptiedAt(c) /\ References /\ req[c].pc = "commit"
      /\ dishOf' = DishAfter(c) /\ score' = ScoreAfter(c) /\ live' = Kept(c) \cap Dish
      /\ agg' = RowAfter(c)
  BY DEF LockInv, AllShaped, Commit
<1>2. live' \subseteq Dish
  BY <1>1
<1>3. DOMAIN agg' = Target /\ \A k \in Target : agg'[k] = [col \in Column |-> agg'[k][col]]
  <2>1. Zero = [col \in Column |-> Zero[col]]
    BY DEF Zero, Column
  <2>2. \A k \in Target : agg'[k] = IF k \in Kept(c) THEN Stored(c, k) ELSE Zero
    BY <1>1 DEF RowAfter
  <2>3. \A k \in Target : Stored(c, k) = [col \in Column |-> Stored(c, k)[col]]
    BY DEF Stored
  <2>4. DOMAIN agg' = Target
    BY <1>1 DEF RowAfter
  <2> QED BY <2>1, <2>2, <2>3, <2>4
<1>4. \A d \in Dish \ live' : agg'[d] = Zero
  BY <1>1 DEF RowAfter, Kept, Target
<1>5. dishOf' \in [Review -> live' \cup {NoDish}]
  <2>1. DOMAIN dishOf' = Review /\ dishOf' = [r \in Review |-> dishOf'[r]]
    BY <1>1 DEF DishAfter
  <2>2. ASSUME NEW r \in Review
        PROVE  dishOf'[r] \in live' \cup {NoDish}
    <3>1. dishOf[r] \in live \cup {NoDish}
      BY <1>1 DEF References
    <3> QED BY <3>1, CommitData
  <2> QED BY <2>1, <2>2
<1>6. score' \in [Review -> Score \cup {0}] /\ \A r \in Review : dishOf'[r] = NoDish <=> score'[r] = 0
  <2>1. score' = [r \in Review |-> score'[r]]
    BY <1>1 DEF ScoreAfter
  <2>2. ASSUME NEW r \in Review
        PROVE  score'[r] \in Score \cup {0} /\ (dishOf'[r] = NoDish <=> score'[r] = 0)
    <3>1. score[r] \in Score \cup {0} /\ (dishOf[r] = NoDish <=> score[r] = 0)
      BY <1>1 DEF References
    <3>2. CASE r \notin req[c].wrote
      BY <3>1, <3>2, CommitData
    <3>3. CASE r \in req[c].wrote /\ dishOf'[r] = NoDish
      BY <1>1, <3>3 DEF ScoreAfter
    <3>4. CASE r \in req[c].wrote /\ dishOf'[r] # NoDish
      <4>1. score'[r] = IF req[c].score # req[c].was THEN ScoreSeen(c, r) ELSE score[r]
        BY <1>1, <3>4 DEF ScoreAfter
      <4>2. DishSeen(c, r) # NoDish
        BY <1>1, <3>4 DEF DishAfter
      <4>3. req[c].op \in {"create", "update", "merge"}
        <5>1. req[c].op \in Op /\ req[c].op # "none"
          BY <1>1 DEF Shape, Typed, Placed
        <5>2. req[c].op \notin {"delete", "drop"}
          BY <3>4, <4>2 DEF DishSeen
        <5> QED BY <5>1, <5>2 DEF Op
      <4>4. CASE req[c].op = "merge"
        <5>1. req[c].score = req[c].was /\ dishOf[r] # NoDish
          BY <1>1, <3>4, <4>4 DEF Shape, Asked, EmptiedAt, ReviewsOf
        <5> QED BY <3>1, <3>4, <4>1, <5>1
      <4>5. CASE req[c].op = "create"
        <5>1. r = req[c].review /\ req[c].score \in Score /\ req[c].was = 0
          BY <1>1, <3>4, <4>5 DEF Shape, Asked, Placed, OneReview
        <5> QED BY <3>4, <4>1, <4>5, <5>1 DEF ScoreSeen
      <4>6. CASE req[c].op = "update"
        <5>1. r = req[c].review /\ req[c].score \in Score /\ dishOf[r] # NoDish
          BY <1>1, <3>4, <4>6 DEF Shape, Asked, Placed, OneReview, EmptiedAt
        <5> QED BY <3>1, <3>4, <4>1, <4>6, <5>1 DEF ScoreSeen
      <4> QED BY <4>3, <4>4, <4>5, <4>6
    <3> QED BY <3>2, <3>3, <3>4
  <2> QED BY <2>1, <2>2
<1> QED BY <1>2, <1>3, <1>4, <1>5, <1>6 DEF References

LEMMA LockInvCommit ==
  ASSUME LockInv, NEW c \in Client, Commit(c)
  PROVE  LockInv'
<1> USE AggregatesAssumption
<1>1. AllShaped /\ WroteApart /\ LocksApart
  BY DEF LockInv
<1>2. /\ req' = [e \in Client |-> req'[e]] /\ req'[c] = Idle
      /\ \A e \in Client : e # c =>
           /\ Shape(req'[e]) /\ Request(e)' = Request(e) /\ req'[e].pc = req[e].pc
           /\ req'[e].rows = req[e].rows
           /\ req'[e].wrote = req[e].wrote /\ req'[e].locked = req[e].locked
  BY <1>1, CommitOthers
<1>3. AllShaped'
  BY <1>2, IdleShape DEF AllShaped
<1>4. \A e \in Client : e # c => Shared(e)' = Shared(e) /\ Updated(e)' = Updated(e)
  BY <1>2, SharedSame DEF Updated
<1>5. Shared(c)' = {} /\ Updated(c)' = {} /\ req'[c].wrote = {} /\ req'[c].locked = {}
  BY <1>2 DEF Shared, Updated, Idle
<1>6. WroteApart'
  BY <1>1, <1>2, <1>5 DEF WroteApart
<1>7. LocksApart'
  BY <1>1, <1>2, <1>4, <1>5 DEF LocksApart
<1>8. EmptiedAt(c)' /\ AliveAt(c)'
  BY <1>2, <1>5 DEF EmptiedAt, AliveAt, Idle
<1>9. ASSUME NEW e \in Client, e # c
      PROVE  EmptiedAt(e)' /\ AliveAt(e)'
  <2>1. EmptiedAt(e) /\ AliveAt(e) /\ Shape(req[e])
    BY DEF LockInv, AllShaped
  <2>2. /\ req'[e].op = req[e].op /\ req'[e].from = req[e].from /\ req'[e].to = req[e].to
        /\ req'[e].pc = req[e].pc /\ req'[e].wrote = req[e].wrote
        /\ req'[e].locked = req[e].locked
    BY <1>2, <1>9 DEF Request
  <2>3. /\ req[c].wrote \cap req[e].wrote = {} /\ req[c].locked \cap req[e].locked = {}
        /\ req[c].locked \cap Shared(e) = {} /\ req[e].locked \cap Shared(c) = {}
    BY <1>1, <1>9 DEF WroteApart, LocksApart
  <2>4. AliveAt(e)'
    <3>1. live' = live \ Gone(c) /\ Gone(c) \subseteq req[c].locked
      BY CommitData
    <3> QED BY <1>4, <1>9, <2>1, <2>2, <2>3, <3>1 DEF AliveAt
  <2>5. ASSUME NEW r \in req[e].wrote
        PROVE  r \in Review /\ dishOf'[r] = dishOf[r]
    BY <2>1, <2>3, CommitData DEF Shape, Typed
  <2>6. ASSUME NEW r \in Review \ req[e].wrote, req[e].from \in req[e].locked,
               dishOf[r] # req[e].from
        PROVE  dishOf'[r] # req[e].from
    <3>1. CASE r \notin req[c].wrote
      BY <2>6, <3>1, CommitData
    <3>2. CASE r \in req[c].wrote
      <4>1. req[e].from # NoDish
        BY <2>1, <2>6 DEF Shape, Typed, Target
      <4>2. \/ dishOf'[r] \in {NoDish, dishOf[r]}
            \/ dishOf'[r] = req[c].to /\ req[c].to \in Shared(c) \cup req[c].locked
        BY <3>2, CommitData
      <4> QED BY <2>3, <2>6, <4>1, <4>2
    <3> QED BY <3>1, <3>2
  <2>7. CASE req[e].op = "merge" /\ req[e].pc \notin {"lock", "write"}
    <3>1. req[e].from \in req[e].locked /\ req[e].wrote = ReviewsOf(req[e].from)
      BY <2>1, <2>7 DEF Shape, Placed, EmptiedAt
    <3>2. \A r \in Review : dishOf'[r] = req[e].from <=> r \in req[e].wrote
      BY <2>5, <2>6, <3>1 DEF ReviewsOf
    <3>3. req[e].wrote = ReviewsOf(req[e].from)'
      BY <2>2, <3>1, <3>2 DEF ReviewsOf
    <3> QED BY <2>2, <2>4, <2>7, <3>3 DEF EmptiedAt
  <2>8. CASE req[e].op = "drop" /\ req[e].pc = "commit"
    <3>1. req[e].from \in req[e].locked /\ ReviewsOf(req[e].from) \subseteq req[e].wrote
      BY <2>1, <2>8 DEF Shape, Placed, EmptiedAt
    <3>2. \A r \in Review : dishOf'[r] = req[e].from => r \in req[e].wrote
      BY <2>6, <3>1 DEF ReviewsOf
    <3>3. ReviewsOf(req[e].from)' \subseteq req[e].wrote
      BY <2>2, <3>1, <3>2 DEF ReviewsOf
    <3> QED BY <2>2, <2>4, <2>8, <3>3 DEF EmptiedAt
  <2>9. req[e].op = "update" => \A r \in req'[e].wrote : dishOf'[r] # NoDish
    BY <2>1, <2>2, <2>5 DEF EmptiedAt
  <2> QED BY <2>2, <2>4, <2>7, <2>8, <2>9 DEF EmptiedAt
<1>a. References'
  BY ReferencesCommit
<1> QED BY <1>3, <1>6, <1>7, <1>8, <1>9, <1>a DEF LockInv

(* The steps of the specification.                                          *)
Begins(c) ==
  \/ \E r \in Review, d \in Dish, s \in Score, b \in BOOLEAN :
       BeginCreate(c, r, d, s, b) \/ BeginUpdate(c, r, d, s, b)
  \/ \E r \in Review : BeginDelete(c, r)
  \/ \E s, t \in Dish : BeginMerge(c, s, t)
  \/ \E d \in Dish : BeginDrop(c, d)

LEMMA StepCases ==
  ASSUME Next
  PROVE  \/ \E c \in Client : Begins(c) \/ Steps(c) \/ Commit(c) \/ Abort(c)
         \/ \E d \in Dish : CreateDish(d)
BY DEF Next, Statement, Begins, Steps

LEMMA BeginsShape ==
  ASSUME AllShaped, References, NEW c \in Client, Begins(c)
  PROVE  Begun(c) /\ Shape(req'[c])
BY BeginShape DEF Begins

LEMMA LockInvInit ==
  ASSUME Init
  PROVE  LockInv
<1> USE AggregatesAssumption
<1>1. \A c \in Client : req[c] = Idle
  BY DEF Init
<1>2. AllShaped
  BY <1>1, IdleShape DEF Init, AllShaped
<1>3. References
  <2>1. ASSUME NEW k \in Target
        PROVE  agg[k] = [col \in Column |-> agg[k][col]]
    <3>1. agg[k] \in {DishRow(ScoresIn(k, dishOf, score)),
                      RestaurantRow([d \in Dish |-> DishRow(ScoresIn(d, dishOf, score))])}
      BY DEF Init, Target
    <3>2. \A f : DishRow(f) = [col \in Column |-> DishRow(f)[col]]
      BY DEF DishRow, Column
    <3>3. \A f : RestaurantRow(f) = [col \in Column |-> RestaurantRow(f)[col]]
      BY DEF RestaurantRow, Column
    <3> QED BY <3>1, <3>2, <3>3
  <2>2. /\ live = Dish /\ DOMAIN agg = Target /\ dishOf \in [Review -> Dish \cup {NoDish}]
        /\ score \in [Review -> Score \cup {0}]
        /\ \A r \in Review : dishOf[r] = NoDish <=> score[r] = 0
    BY DEF Init
  <2> QED BY <2>1, <2>2 DEF References
<1>4. \A c \in Client : Shared(c) = {} /\ Updated(c) = {} /\ req[c].wrote = {} /\ req[c].locked = {}
  BY <1>1 DEF Shared, Updated, Idle
<1>5. \A c \in Client : EmptiedAt(c) /\ AliveAt(c)
  BY <1>1, <1>4 DEF EmptiedAt, AliveAt, Idle
<1> QED BY <1>2, <1>3, <1>4, <1>5 DEF LockInv, WroteApart, LocksApart

LEMMA LockInvNext ==
  ASSUME LockInv, [Next]_vars
  PROVE  LockInv'
<1>1. CASE UNCHANGED vars
  BY <1>1 DEF LockInv, vars, AllShaped, References, WroteApart, LocksApart, EmptiedAt, AliveAt,
              Shared, Updated, Renames, ReviewsOf
<1>2. ASSUME NEW c \in Client, Begins(c)
      PROVE  LockInv'
  <2>1. Begun(c) /\ Shape(req'[c])
    BY <1>2, BeginsShape DEF LockInv
  <2>2. DOMAIN req'[c].rows = {}
    BY <2>1 DEF Begun
  <2> QED BY <2>1, <2>2, LockInvFresh DEF Begun
<1>3. ASSUME NEW d \in Dish, CreateDish(d)
      PROVE  LockInv'
  BY <1>3, LockInvCreateDish
<1>4. ASSUME NEW c \in Client, Steps(c)
      PROVE  LockInv'
  BY <1>4, LockInvStep
<1>5. ASSUME NEW c \in Client, Commit(c)
      PROVE  LockInv'
  BY <1>5, LockInvCommit
<1>6. ASSUME NEW c \in Client, Abort(c)
      PROVE  LockInv'
  BY <1>6, LockInvAbort
<1> QED BY <1>1, <1>2, <1>3, <1>4, <1>5, <1>6, StepCases

LEMMA LocksHold == Spec => []LockInv
<1>1. Init => LockInv
  BY LockInvInit
<1>2. LockInv /\ [Next]_vars => LockInv'
  BY LockInvNext
<1> QED BY <1>1, <1>2, PTL DEF Spec

(* Every review belongs to a dish that exists and has a score, and the      *)
(* aggregates of a dish that does not exist are zero, whatever the requests *)
(* do to the same dishes at the same time.                                  *)
THEOREM ReferencesHold == Spec => []References
BY LocksHold, PTL DEF LockInv

(* merge_dishes never costs a review: the reviews that it does not move     *)
(* stay where they are, since the locks on both dishes keep new ones out.   *)
THEOREM MergeKeeps == Spec => MergeKeepsReviews
<1> USE AggregatesAssumption
<1>1. ASSUME LockInv, Next, NEW c \in Client, req[c].op = "merge", req'[c] = Idle,
             NEW r \in Review, dishOf[r] # NoDish
      PROVE  dishOf'[r] # NoDish
  <2>1. Shape(req[c]) /\ AllShaped
    BY <1>1 DEF LockInv, AllShaped
  <2>2. ASSUME NEW x \in Client, Commit(x)
        PROVE  dishOf'[r] # NoDish
    <3>1. x = c
      <4>1. x # c => req'[c].op = req[c].op
        BY <2>1, <2>2, CommitOthers DEF Request
      <4> QED BY <1>1, <4>1 DEF Idle
    <3>2. req[c].pc = "commit" /\ dishOf' = DishAfter(c)
      BY <2>2, <3>1 DEF Commit
    <3>3. /\ req[c].to \in Dish /\ req[c].to # req[c].from
          /\ req[c].wrote = ReviewsOf(req[c].from) /\ References
      BY <1>1, <2>1, <3>2 DEF LockInv, EmptiedAt, Shape, Asked
    <3>4. DishSeen(c, r) = IF r \in req[c].wrote THEN req[c].to ELSE dishOf[r]
      BY <1>1 DEF DishSeen
    <3>5. DishSeen(c, r) # req[c].from /\ DishSeen(c, r) # NoDish
      BY <1>1, <3>3, <3>4 DEF ReviewsOf
    <3>6. Gone(c) = {req[c].from}
      BY <1>1 DEF Gone
    <3> QED BY <3>2, <3>5, <3>6 DEF DishAfter
  <2>3. ASSUME NEW x \in Client, Begins(x) \/ Steps(x) \/ Abort(x)
        PROVE  dishOf' = dishOf
    <3>1. Begins(x) => dishOf' = dishOf
      BY <1>1, <2>1, BeginsShape DEF LockInv, Begun, data
    <3>2. Steps(x) => dishOf' = dishOf
      BY <2>1, StepAlone DEF data
    <3> QED BY <2>3, <3>1, <3>2 DEF Abort, data
  <2>4. ASSUME NEW d \in Dish, CreateDish(d)
        PROVE  dishOf' = dishOf
    BY <2>4 DEF CreateDish
  <2> QED BY <1>1, <2>2, <2>3, <2>4, StepCases
<1>2. ASSUME LockInv, [Next]_vars
      PROVE  [\A c \in Client :
                req[c].op = "merge" /\ req'[c] = Idle =>
                  \A r \in Review : dishOf[r] # NoDish => dishOf'[r] # NoDish]_vars
  BY <1>1, <1>2
<1> QED BY <1>2, LocksHold, PTL DEF Spec, MergeKeepsReviews

------------------------------------------------------------------------------
(* Deadlocks.                                                               *)

(* Whom a request waits for, by the statement it is at.                     *)
LEMMA WaitsAt ==
  ASSUME NEW c \in Client, NEW e \in WaitsFor(c)
  PROVE  /\ e # c
         /\ \/ req[c].pc = "classify" /\ Restaurant \in req[e].locked \cup Updated(e)
            \/ req[c].pc = "lock"
            \/ req[c].pc = "write" /\ req[e].wrote # {}
            \/ req[c].pc = "write" /\ req[e].locked # {}
            \/ req[c].pc = "unlink" /\ req[c].from \in req[e].locked \cup Updated(e) \cup Shared(e)
            \/ req[c].pc = "unlink" /\ req[e].wrote \cap ReviewsOf(req[c].from) # {}
            \/ req[c].pc = "store" /\ Current(c) \in req[e].locked \cup Updated(e)
<1>1. e # c
  BY DEF WaitsFor, Others
<1>2. ASSUME NEW k
      PROVE  /\ e \in BlockedOnShare(c, k) => req[e].locked # {}
             /\ e \in BlockedOnLock(c, k) => k \in req[e].locked \cup Updated(e) \cup Shared(e)
             /\ e \in BlockedOnUpdate(c, k) => k \in req[e].locked \cup Updated(e)
             /\ e \in BlockedOnReviews(c, k) => req[e].wrote \cap k # {}
  BY DEF BlockedOnShare, BlockedOnLock, BlockedOnUpdate, BlockedOnReviews
<1>3. \/ req[c].pc = "classify" /\ e \in BlockedOnUpdate(c, Restaurant)
      \/ req[c].pc = "lock"
      \/ req[c].pc = "write" /\ e \in BlockedOnReviews(c, ReviewsOf(req[c].from))
      \/ req[c].pc = "write" /\ e \in BlockedOnReviews(c, req[c].victims)
      \/ req[c].pc = "write" /\ e \in BlockedOnReviews(c, {req[c].review})
      \/ req[c].pc = "write" /\ e \in BlockedOnShare(c, req[c].to)
      \/ req[c].pc = "unlink" /\ e \in BlockedOnLock(c, req[c].from)
      \/ req[c].pc = "unlink" /\ e \in BlockedOnReviews(c, ReviewsOf(req[c].from))
      \/ req[c].pc = "store" /\ e \in BlockedOnUpdate(c, Current(c))
  BY DEF WaitsFor
<1>4. /\ e \in BlockedOnReviews(c, ReviewsOf(req[c].from)) => req[e].wrote # {}
      /\ e \in BlockedOnReviews(c, req[c].victims) => req[e].wrote # {}
      /\ e \in BlockedOnReviews(c, {req[c].review}) => req[e].wrote # {}
  BY <1>2
<1> QED BY <1>1, <1>2, <1>3, <1>4

(* What a request that takes one dish has updated while it waits.           *)
LEMMA OneDish ==
  ASSUME NEW q, Shape(q), q.op \in OneReview, ~Renaming(q), q.pc # "commit"
  PROVE  /\ Restaurant \notin DOMAIN q.rows
         /\ \A k \in DOMAIN q.rows : q.todo = <<Restaurant>>
<1> USE AggregatesAssumption
<1>1. q.todo \in Todos(q) /\ q.todo # <<>> /\ Asked(q) /\ DOMAIN q.rows \subseteq Aims(q) \ Pending(q)
  BY DEF Shape, Typed, Placed, OneReview
<1>2. /\ q.op = "create" => Aims(q) = {q.to, Restaurant}
      /\ q.op = "delete" => Aims(q) = {q.from, Restaurant}
      /\ q.op = "update" => Aims(q) = {q.to, Restaurant}
  BY <1>1 DEF Aims, Asked, OneReview, Renaming
<1>3. \/ q.todo = <<Restaurant>>
      \/ q.op = "delete" /\ q.todo = <<q.from, Restaurant>>
      \/ q.op \in {"create", "update"} /\ q.todo = <<q.to, Restaurant>>
  BY <1>1 DEF Todos, OneReview
<1>4. CASE q.todo = <<Restaurant>>
  <2>1. Restaurant \in Pending(q)
    BY <1>4 DEF Pending
  <2> QED BY <1>1, <1>4, <2>1
<1>5. CASE q.op = "delete" /\ q.todo = <<q.from, Restaurant>>
  <2>1. Pending(q) = {q.from, Restaurant}
    BY <1>5 DEF Pending
  <2> QED BY <1>1, <1>2, <1>5, <2>1
<1>6. CASE q.op \in {"create", "update"} /\ q.todo = <<q.to, Restaurant>>
  <2>1. Pending(q) = {q.to, Restaurant}
    BY <1>6 DEF Pending
  <2> QED BY <1>1, <1>2, <1>6, <2>1
<1> QED BY <1>3, <1>4, <1>5, <1>6

(* Requests that take their locks in the order review, dish, restaurant do  *)
(* not wait for each other in a circle, whatever they are and however many: *)
(* apart from deletions of dishes that were waiting for each other's        *)
(* reviews.                                                                 *)
THEOREM DeadlockCause == Spec => []DeadlockHasCause
<1> USE AggregatesAssumption
<1>1. ASSUME LockInv, NEW S \in SUBSET Client, Deadlocked(S),
             \A c \in S : ~TakesTwo(c) /\ Restaurant \notin req[c].locked
      PROVE  \E c, e \in S : DropsMeet(c, e)
  <2>1. \A c \in S : Shape(req[c]) /\ c \in Client /\ req[c] # Idle
    BY <1>1 DEF LockInv, AllShaped, Deadlocked
  <2>2. \A c \in S : \E e \in S : e \in WaitsFor(c)
    BY <1>1 DEF Deadlocked
  <2>3. \A c \in S : req[c].pc \in {"classify", "lock", "write", "unlink", "store"}
    BY <2>1, <2>2, WaitsAt
  <2>4. \A c \in S : /\ req[c].op \in OneReview \/ req[c].op = "drop"
                     /\ ~Renaming(req[c])
    <3>1. \A c \in S : req[c].op \in Op /\ req[c].op # "none"
      BY <2>1 DEF Shape, Typed, Asked
    <3> QED BY <1>1, <3>1 DEF Op, OneReview, TakesTwo, Renames, Renaming
  <2>5. \A c \in S : req[c].locked = {}
    <3>1. ASSUME NEW c \in S
          PROVE  req[c].locked = {}
      <4>1. Shape(req[c]) /\ req[c].pc # "commit" /\ Restaurant \notin req[c].locked
        BY <1>1, <2>1, <2>3
      <4> QED BY <2>4, <4>1 DEF Shape, Placed
    <3> QED BY <3>1
  <2>6. \A c \in S : Restaurant \notin Updated(c)
    <3>1. ASSUME NEW c \in S
          PROVE  Restaurant \notin Updated(c)
      <4>1. Shape(req[c]) /\ req[c].pc # "commit"
        BY <2>1, <2>3
      <4>2. CASE req[c].op \in OneReview
        BY <2>4, <4>1, <4>2, OneDish DEF Updated
      <4>3. CASE req[c].op = "drop"
        BY <4>1, <4>3 DEF Shape, Typed, Updated, Aims, OneReview
      <4> QED BY <2>4, <4>2, <4>3
    <3> QED BY <3>1
  <2>7. \A c \in S : req[c].pc \in {"write", "unlink", "store"}
    <3>1. ASSUME NEW c \in S
          PROVE  req[c].pc \in {"write", "unlink", "store"}
      <4>1. PICK e \in S : e \in WaitsFor(c)
        BY <2>2
      <4>2. req[c].pc # "classify"
        BY <2>1, <2>5, <2>6, <4>1, WaitsAt
      <4>3. req[c].pc # "lock"
        BY <2>1, <2>4 DEF Shape, Placed, OneReview
      <4> QED BY <2>3, <4>2, <4>3
    <3> QED BY <3>1
  <2>8. \A c \in S : req[c].pc = "store" => Current(c) # Restaurant
    <3>1. ASSUME NEW c \in S, req[c].pc = "store", Current(c) = Restaurant
          PROVE  FALSE
      <4>1. PICK e \in S : e \in WaitsFor(c)
        BY <2>2
      <4> QED BY <2>1, <2>5, <2>6, <3>1, <4>1, WaitsAt
    <3> QED BY <3>1
  <2>9. \A c \in S : req[c].pc \in {"write", "unlink"} => Updated(c) = {} /\ Shared(c) = {}
    <3>1. ASSUME NEW c \in S, req[c].pc \in {"write", "unlink"}
          PROVE  Updated(c) = {} /\ Shared(c) = {}
      <4>1. Shape(req[c])
        BY <2>1
      <4>2. CASE req[c].pc = "write"
        BY <4>1, <4>2 DEF Shape, Placed, Updated, Shared
      <4>3. CASE req[c].pc = "unlink"
        BY <4>1, <4>3 DEF Shape, Placed, Typed, Updated, Shared, Aims, OneReview, Renames
      <4> QED BY <3>1, <4>2, <4>3
    <3> QED BY <3>1
  <2>a. \A c \in S : req[c].pc \in {"write", "unlink"}
    <3>1. ASSUME NEW c \in S, req[c].pc = "store"
          PROVE  FALSE
      <4>1. PICK e \in S : e \in WaitsFor(c)
        BY <2>2
      <4>2. Current(c) \in Updated(e)
        BY <2>1, <2>5, <3>1, <4>1, WaitsAt
      <4>3. req[e].pc = "store" /\ Shape(req[e])
        BY <2>1, <2>7, <2>9, <4>2
      <4>4. req[e].op \in OneReview
        BY <2>4, <4>3 DEF Shape, Placed, Recomputing, OneReview
      <4>5. req[e].todo = <<Restaurant>>
        BY <2>4, <4>2, <4>3, <4>4, OneDish DEF Updated
      <4>6. Current(e) = Restaurant
        BY <4>5 DEF Current
      <4> QED BY <2>8, <4>3, <4>6
    <3> QED BY <2>7, <3>1
  <2>b. \A c \in S : req[c].pc = "unlink" => \E e \in S : DropsMeet(c, e)
    <3>1. ASSUME NEW c \in S, req[c].pc = "unlink"
          PROVE  \E e \in S : DropsMeet(c, e)
      <4>1. PICK e \in S : e \in WaitsFor(c)
        BY <2>2
      <4>2. e # c /\ req[e].wrote \cap ReviewsOf(req[c].from) # {}
        BY <2>1, <2>5, <2>9, <2>a, <3>1, <4>1, WaitsAt
      <4>3. req[e].pc = "unlink"
        <5>1. req[e].wrote # {} /\ Shape(req[e])
          BY <2>1, <4>2
        <5> QED BY <2>a, <5>1 DEF Shape, Placed
      <4>4. req[c].op = "drop" /\ req[e].op = "drop"
        BY <2>1, <3>1, <4>3 DEF Shape, Placed
      <4> QED BY <4>2, <4>4 DEF DropsMeet
    <3> QED BY <3>1
  <2>c. \E c \in S : req[c].pc = "unlink"
    <3>1. PICK c \in S : TRUE
      BY <1>1 DEF Deadlocked
    <3>2. PICK e \in S : e \in WaitsFor(c)
      BY <2>2
    <3>3. CASE req[c].pc = "write"
      <4>1. req[e].wrote # {} /\ Shape(req[e])
        BY <2>1, <2>5, <3>2, <3>3, WaitsAt
      <4>2. req[e].pc = "unlink"
        BY <2>a, <4>1 DEF Shape, Placed
      <4> QED BY <4>2
    <3> QED BY <2>a, <3>3
  <2> QED BY <2>b, <2>c
<1>2. LockInv => DeadlockHasCause
  BY <1>1 DEF DeadlockHasCause
<1> QED BY <1>2, LocksHold, PTL

------------------------------------------------------------------------------
(* The columns.  What they should be once the request of c has committed,   *)
(* if nobody commits before it.                                             *)
Truth(c, k) ==
  IF k = Restaurant THEN RestaurantRow([d \in Dish |-> RowAfter(c)[d]])
  ELSE DishRow(ScoresIn(k, DishAfter(c), ScoreAfter(c)))

(* What the request computes for k does not come to that, since it computes *)
(* from an object of its own: one of its dishes, or the new score of a      *)
(* review that another request has changed after it.                        *)
Stale(c, k) ==
  IF k = Restaurant THEN \E d \in req[c].held \cap Dish : req[c].cache[d] # RowAfter(c)[d]
  ELSE /\ req[c].op = "update"
       /\ DishAfter(c)[req[c].review] = k
       /\ ScoreAfter(c)[req[c].review] # req[c].score

Sound(c, k, col) == <<k, col>> \notin req[c].missed /\ ~Stale(c, k)

(* The column of its target that a request has computed is right.           *)
Has(c, col) ==
  req[c].pc \in {"load", "store"} \/ (req[c].pc = "count" /\ col = "rating")

ValueAt(c) ==
  \A col \in Column :
    Has(c, col) /\ Sound(c, Current(c), col) =>
      req[c].value[col] = Truth(c, Current(c))[col]

(* The object that it has loaded of a target is as the database.            *)
CacheAt(c) ==
  \A k \in Pending(req[c]) :
    k \in DOMAIN req[c].cache /\ k \notin req[c].touched => req[c].cache[k] = agg[k]

(* The columns of a target that it is done with are right.                  *)
StoredAt(c) ==
  \A k \in Aims(req[c]) \ Pending(req[c]), col \in Column :
    /\ k \in live \cup {Restaurant}
    /\ Sound(c, k, col)
    /\ k \in req[c].touched => col \in Written(c, k)
    => Stored(c, k)[col] = Truth(c, k)[col]

ColumnsAt(c) == ValueAt(c) /\ CacheAt(c) /\ StoredAt(c)

DriftInv == LockInv /\ DriftHasCause /\ \A c \in Client : ColumnsAt(c)

(* What a request sees of the reviews depends on its writes only.           *)
LEMMA ViewSame ==
  ASSUME NEW c \in Client, Request(c)' = Request(c), req'[c].wrote = req[c].wrote,
         UNCHANGED data
  PROVE  /\ DishAfter(c)' = DishAfter(c) /\ ScoreAfter(c)' = ScoreAfter(c)
         /\ Gone(c)' = Gone(c) /\ Kept(c)' = Kept(c)
         /\ \A k : k # Restaurant => (Truth(c, k)' = Truth(c, k) /\ (Stale(c, k)' <=> Stale(c, k)))
<1>1. /\ req'[c].op = req[c].op /\ req'[c].from = req[c].from /\ req'[c].to = req[c].to
      /\ req'[c].review = req[c].review /\ req'[c].score = req[c].score
      /\ req'[c].was = req[c].was /\ dishOf' = dishOf /\ score' = score /\ live' = live
  BY DEF Request, data
<1>2. Gone(c)' = Gone(c) /\ Kept(c)' = Kept(c)
  BY <1>1 DEF Gone, Kept
<1>3. \A r : DishSeen(c, r)' = DishSeen(c, r) /\ ScoreSeen(c, r)' = ScoreSeen(c, r)
  BY <1>1 DEF DishSeen, ScoreSeen
<1>4. DishAfter(c)' = DishAfter(c)
  BY <1>2, <1>3 DEF DishAfter
<1>5. ScoreAfter(c)' = ScoreAfter(c)
  BY <1>1, <1>3, <1>4 DEF ScoreAfter
<1>6. ASSUME NEW k, k # Restaurant
      PROVE  Truth(c, k)' = Truth(c, k) /\ (Stale(c, k)' <=> Stale(c, k))
  <2>2. Truth(c, k)' = Truth(c, k)
    BY <1>4, <1>5, <1>6 DEF Truth
  <2>3. Stale(c, k)' <=> Stale(c, k)
    BY <1>1, <1>4, <1>5, <1>6 DEF Stale
  <2> QED BY <2>2, <2>3
<1> QED BY <1>2, <1>4, <1>5, <1>6

LEMMA RowsSame ==
  ASSUME NEW c \in Client, Request(c)' = Request(c), req'[c].wrote = req[c].wrote,
         req'[c].rows = req[c].rows, UNCHANGED data
  PROVE  /\ RowAfter(c)' = RowAfter(c)
         /\ \A k : Stored(c, k)' = Stored(c, k) /\ Written(c, k)' = Written(c, k)
         /\ \A k : Truth(c, k)' = Truth(c, k)
<1>1. Kept(c)' = Kept(c) /\ agg' = agg
  BY ViewSame DEF data
<1>2. \A k : Written(c, k)' = Written(c, k)
  BY DEF Written
<1>3. \A k : Stored(c, k)' = Stored(c, k)
  BY <1>1, <1>2 DEF Stored
<1>4. RowAfter(c)' = RowAfter(c)
  BY <1>1, <1>3 DEF RowAfter
<1>5. Truth(c, Restaurant)' = Truth(c, Restaurant)
  BY <1>4 DEF Truth
<1>6. \A k : k # Restaurant => Truth(c, k)' = Truth(c, k)
  BY ViewSame
<1> QED BY <1>2, <1>3, <1>4, <1>5, <1>6

(* A computation that is not stale comes to what the column should be.      *)
LEMMA ComputedTrue ==
  ASSUME LockInv, NEW c \in Client, req[c].pc \in {"rate", "count"}, ~Stale(c, Current(c))
  PROVE  Computed(c, Current(c)) = Truth(c, Current(c))
<1> USE AggregatesAssumption
<1> DEFINE q == req[c]
           k == Current(c)
<1>1. Shape(q) /\ References
  BY DEF LockInv, AllShaped
<1>2. q.todo # <<>> /\ q.op \in OneReview \cup {"merge"} /\ k \in Aims(q)
  <2>1. q.todo # <<>> /\ q.op \in OneReview \cup {"merge"}
    BY <1>1 DEF Shape, Placed, Recomputing, OneReview
  <2> QED BY <1>1, <2>1, TodoShape DEF Current
<1>3. CASE k # Restaurant
  <2>1. k # NoDish /\ k \notin Gone(c)
    <3>1. q.op = "merge" => k = q.to /\ q.to # q.from /\ q.to \in Dish
      BY <1>1, <1>2 DEF Shape, Asked, Aims, OneReview
    <3>2. q.op \in OneReview => k \in {q.from, q.to} \ {NoDish}
      BY <1>2, <1>3 DEF Aims
    <3> QED BY <1>2, <3>1, <3>2 DEF Gone, OneReview
  <2>2. \A r \in Review : DishSeen(c, r) = k <=> DishAfter(c)[r] = k
    BY <2>1 DEF DishAfter
  <2>3. ASSUME NEW r \in Review, DishAfter(c)[r] = k
        PROVE  ScoreSeen(c, r) = ScoreAfter(c)[r]
    <3>1. ScoreAfter(c)[r] = IF r \in q.wrote /\ q.score # q.was THEN ScoreSeen(c, r)
                             ELSE score[r]
      BY <2>1, <2>3 DEF ScoreAfter
    <3>2. CASE q.op = "update" /\ r = q.review
      BY <1>3, <2>3, <3>2 DEF Stale, ScoreSeen
    <3>3. CASE q.op = "create" /\ r = q.review
      <4>1. r \in q.wrote /\ q.score # q.was
        BY <1>1, <3>3 DEF Shape, Placed, Asked, OneReview
      <4> QED BY <3>1, <4>1
    <3>4. CASE ~ (q.op \in {"create", "update"} /\ r = q.review)
      BY <3>1, <3>4 DEF ScoreSeen
    <3> QED BY <3>2, <3>3, <3>4
  <2>4. Computed(c, k) = DishRow(ScoresIn(k, [r \in Review |-> DishSeen(c, r)],
                                             [r \in Review |-> ScoreSeen(c, r)]))
    BY <1>3 DEF Computed
  <2>5. ScoresIn(k, [r \in Review |-> DishSeen(c, r)], [r \in Review |-> ScoreSeen(c, r)])
          = ScoresIn(k, DishAfter(c), ScoreAfter(c))
    BY <2>2, <2>3 DEF ScoresIn
  <2> QED BY <1>3, <2>4, <2>5 DEF Truth
<1>4. CASE k = Restaurant
  <2>1. q.op \in OneReview
    BY <1>1, <1>2, <1>4 DEF Shape, Asked, Aims, OneReview
  <2>2. Kept(c) = live \cup {Restaurant}
    BY <2>1 DEF Kept, Gone, OneReview
  <2>3. DOMAIN q.cache \subseteq q.held
    BY <1>1 DEF Shape, Placed
  <2>4. ASSUME NEW d \in Dish
        PROVE  (IF d \in live THEN RowSeen(c, d) ELSE Zero) = RowAfter(c)[d]
    <3>1. RowAfter(c)[d] = IF d \in live THEN Stored(c, d) ELSE Zero
      BY <2>2 DEF RowAfter, Target
    <3>2. CASE d \in DOMAIN q.cache
      BY <1>4, <2>3, <3>1, <3>2 DEF Stale, RowSeen
    <3>3. CASE d \notin DOMAIN q.cache
      BY <3>1, <3>3 DEF RowSeen
    <3> QED BY <3>2, <3>3
  <2>5. [d \in Dish |-> IF d \in live THEN RowSeen(c, d) ELSE Zero]
          = [d \in Dish |-> RowAfter(c)[d]]
    BY <2>4
  <2> QED BY <1>4, <2>5 DEF Computed, Truth
<1> QED BY <1>3, <1>4

(* A statement keeps its own columns right.                                 *)
LEMMA LockColumns ==
  ASSUME LockInv, NEW c \in Client, ColumnsAt(c),
         \/ Classify(c) \/ Lock(c) \/ Unlink(c)
         \/ WriteReview(c) \/ WriteReviews(c)
  PROVE  ColumnsAt(c)'
<1>1. AllShaped /\ Shape(req[c]) /\ UNCHANGED data
  BY StepAlone DEF LockInv, AllShaped, Steps
<1>2. /\ req'[c].todo = req[c].todo /\ req'[c].cache = req[c].cache
      /\ req'[c].touched = req[c].touched /\ Request(c)' = Request(c)
  BY <1>1, LockStep, WriteStep
<1>3. req'[c].pc \in {"write", "lock", "commit", "rate", "unlink"}
  BY <1>1, LockStep, WriteStep
<1>4. /\ Pending(req[c])' = Pending(req[c]) /\ Aims(req[c])' = Aims(req[c]) /\ agg' = agg
  BY <1>1, <1>2 DEF Pending, Aims, Request, data
<1>5. Aims(req[c]) \subseteq Pending(req[c])
  <2>1. req[c].pc \in {"classify", "lock", "write", "unlink"}
    BY DEF Classify, Lock, Unlink, WriteReview, WriteReviews, At
  <2>2. CASE req[c].pc = "unlink"
    BY <1>1, <2>2 DEF Shape, Placed, Aims, OneReview
  <2> QED BY <1>1, <2>1, <2>2 DEF Shape, Placed
<1>6. ValueAt(c)'
  BY <1>3 DEF ValueAt, Has
<1>7. CacheAt(c)'
  BY <1>2, <1>4 DEF ColumnsAt, CacheAt
<1>8. StoredAt(c)'
  BY <1>4, <1>5 DEF StoredAt
<1> QED BY <1>6, <1>7, <1>8 DEF ColumnsAt

LEMMA ComputeColumns ==
  ASSUME LockInv, NEW c \in Client, ColumnsAt(c), Rate(c) \/ Count(c)
  PROVE  ColumnsAt(c)'
<1>0. PICK k : k = Current(c)
  OBVIOUS
<1>1. AllShaped /\ Shape(req[c]) /\ UNCHANGED data
  BY StepAlone DEF LockInv, AllShaped, Steps
<1>2. /\ req'[c].todo = req[c].todo /\ req'[c].cache = req[c].cache
      /\ req'[c].rows = req[c].rows /\ req'[c].wrote = req[c].wrote
      /\ req'[c].touched = req[c].touched /\ req'[c].held = req[c].held
      /\ Request(c)' = Request(c)
  BY <1>1, ComputeStep
<1>3. PICK col \in Column :
        /\ \/ col = "rating" /\ req[c].pc = "rate" /\ req'[c].pc = "count"
           \/ col = "count" /\ req[c].pc = "count" /\ req'[c].pc = "load"
        /\ req'[c].value = [req[c].value EXCEPT ![col] = Computed(c, k)[col]]
        /\ req'[c].missed = req[c].missed \ {<<k, col>>}
  BY <1>0, <1>1, ComputeStep
<1>4. /\ Pending(req[c])' = Pending(req[c]) /\ Aims(req[c])' = Aims(req[c])
      /\ agg' = agg /\ live' = live /\ Current(c)' = k
  BY <1>0, <1>1, <1>2 DEF Pending, Aims, Request, data, Current
<1>5. /\ \A x : Truth(c, x)' = Truth(c, x) /\ Stored(c, x)' = Stored(c, x)
                  /\ Written(c, x)' = Written(c, x)
      /\ RowAfter(c)' = RowAfter(c)
  BY <1>1, <1>2, RowsSame
<1>6. \A x : Stale(c, x)' <=> Stale(c, x)
  <2>1. Stale(c, Restaurant)' <=> Stale(c, Restaurant)
    BY <1>2, <1>5 DEF Stale
  <2> QED BY <1>1, <1>2, <2>1, ViewSame
<1>7. k \in Pending(req[c]) /\ DOMAIN req[c].value = Column
  <2>1. req[c].todo # <<>>
    BY <1>1, <1>3 DEF Shape, Placed, Recomputing, OneReview
  <2> QED BY <1>1, <2>1, <1>0, TodoShape DEF Current, Shape, Typed
<1>8. ValueAt(c)'
  <2>1. ASSUME NEW o \in Column, Has(c, o)', Sound(c, k, o)'
        PROVE  req'[c].value[o] = Truth(c, k)[o]
    <3>1. ~Stale(c, k)
      BY <1>6, <2>1 DEF Sound
    <3>2. Computed(c, k) = Truth(c, k)
      BY <1>0, <1>3, <3>1, ComputedTrue
    <3>3. CASE o = col
      BY <1>3, <1>7, <3>2, <3>3
    <3>4. CASE o # col
      <4>1. o = "rating" /\ col = "count" /\ Has(c, o)
        BY <1>3, <2>1, <3>4 DEF Has, Column
      <4>2. Sound(c, k, o)
        BY <1>3, <2>1, <3>1, <3>4 DEF Sound
      <4>3. req[c].value[o] = Truth(c, k)[o]
        BY <1>0, <4>1, <4>2 DEF ColumnsAt, ValueAt
      <4> QED BY <1>3, <1>7, <3>4, <4>3
    <3> QED BY <3>3, <3>4
  <2> QED BY <1>0, <1>4, <1>5, <2>1 DEF ValueAt
<1>9. CacheAt(c)'
  BY <1>2, <1>4 DEF ColumnsAt, CacheAt
<1>a. StoredAt(c)'
  <2>1. ASSUME NEW x \in Aims(req[c]) \ Pending(req[c]), NEW o \in Column, Sound(c, x, o)'
        PROVE  Sound(c, x, o)
    BY <1>3, <1>6, <1>7, <2>1 DEF Sound
  <2> QED BY <1>2, <1>4, <1>5, <2>1 DEF ColumnsAt, StoredAt
<1> QED BY <1>8, <1>9, <1>a DEF ColumnsAt

LEMMA LoadColumns ==
  ASSUME LockInv, NEW c \in Client, ColumnsAt(c), Load(c)
  PROVE  ColumnsAt(c)'
<1> USE AggregatesAssumption
<1>0. PICK k : k = Current(c)
  OBVIOUS
<1>1. AllShaped /\ Shape(req[c]) /\ UNCHANGED data /\ References
  BY StepAlone DEF LockInv, AllShaped, Steps
<1>2. /\ req'[c].rows = req[c].rows /\ req'[c].wrote = req[c].wrote
      /\ req'[c].held = req[c].held /\ req'[c].missed = req[c].missed
      /\ Request(c)' = Request(c) /\ req[c].pc = "load"
  BY <1>1, LoadStep
<1>3. /\ Aims(req[c])' = Aims(req[c]) /\ agg' = agg /\ live' = live
  BY <1>1, <1>2 DEF Aims, Request, data
<1>4. /\ \A x : Truth(c, x)' = Truth(c, x) /\ Stored(c, x)' = Stored(c, x)
                  /\ Written(c, x)' = Written(c, x)
      /\ RowAfter(c)' = RowAfter(c)
  BY <1>1, <1>2, RowsSame
<1>5. req[c].todo # <<>> /\ k \in Pending(req[c])
  <2>1. req[c].todo # <<>>
    BY <1>1, <1>2 DEF Shape, Placed, Recomputing, OneReview
  <2> QED BY <1>0, <1>1, <2>1, TodoShape DEF Current
<1>6. CASE /\ k \in Dish \ live
           /\ req'[c].todo = Tail(req[c].todo) /\ req'[c].pc = AfterTarget(c)
           /\ req'[c].cache = req[c].cache /\ req'[c].touched = req[c].touched
  <2>1. Pending(req[c])' = Pending(req[c]) \ {k}
    BY <1>0, <1>1, <1>5, <1>6, PendingTail DEF Current
  <2>2. \A x : Stale(c, x)' <=> Stale(c, x)
    <3>1. Stale(c, Restaurant)' <=> Stale(c, Restaurant)
      BY <1>2, <1>4, <1>6 DEF Stale
    <3> QED BY <1>1, <1>2, <3>1, ViewSame
  <2>3. ValueAt(c)'
    BY <1>6 DEF ValueAt, Has, AfterTarget
  <2>4. CacheAt(c)'
    BY <1>3, <1>6, <2>1 DEF ColumnsAt, CacheAt
  <2>5. StoredAt(c)'
    BY <1>2, <1>3, <1>4, <1>6, <2>1, <2>2 DEF ColumnsAt, StoredAt, Sound
  <2> QED BY <2>3, <2>4, <2>5 DEF ColumnsAt
<1>7. CASE /\ req'[c].todo = req[c].todo /\ req'[c].value = req[c].value
           /\ req'[c].pc = "store"
           /\ \/ req'[c].cache = req[c].cache /\ req'[c].touched = req[c].touched
              \/ /\ k \notin DOMAIN req[c].cache
                 /\ req'[c].cache = Put(req[c].cache, k, Stored(c, k))
                 /\ req'[c].touched = req[c].touched \ {k}
  <2>1. Pending(req[c])' = Pending(req[c]) /\ Current(c)' = k
    BY <1>0, <1>7 DEF Pending, Current
  <2>2. k \notin DOMAIN req[c].cache => k \notin req[c].held
    BY <1>1 DEF Shape, Typed
  <2>3. \A x \in req[c].held : req'[c].cache[x] = req[c].cache[x]
    <3>1. req[c].held \subseteq DOMAIN req[c].cache
      BY <1>1 DEF Shape, Typed
    <3> QED BY <1>7, <2>2, <3>1 DEF Put
  <2>4. \A x : Stale(c, x)' <=> Stale(c, x)
    <3>1. Stale(c, Restaurant)' <=> Stale(c, Restaurant)
      BY <1>2, <1>4, <2>3 DEF Stale
    <3> QED BY <1>1, <1>2, <3>1, ViewSame
  <2>5. ValueAt(c)'
    <3>1. ASSUME NEW o \in Column, Sound(c, k, o)'
          PROVE  req[c].value[o] = Truth(c, k)[o]
      <4>1. Sound(c, k, o)
        BY <1>2, <2>4, <3>1 DEF Sound
      <4> QED BY <1>0, <1>2, <4>1 DEF ColumnsAt, ValueAt, Has
    <3> QED BY <1>0, <1>4, <1>7, <2>1, <3>1 DEF ValueAt
  <2>6. CacheAt(c)'
    <3>1. k \notin Updated(c)
      BY <1>1, <1>5 DEF Shape, Typed, Updated
    <3>2. Stored(c, k) = agg[k]
      <4>1. k \in Target
        BY <1>0, <1>1, <1>5, TodoShape DEF Current
      <4> QED BY <1>1, <3>1, <4>1 DEF Stored, Written, Updated, References
    <3>3. ASSUME NEW x \in Pending(req[c]), x \in DOMAIN req'[c].cache, x \notin req'[c].touched
          PROVE  req'[c].cache[x] = agg[x]
      <4>1. CASE req'[c].cache = req[c].cache /\ req'[c].touched = req[c].touched
        BY <3>3, <4>1 DEF ColumnsAt, CacheAt
      <4>2. CASE /\ req'[c].cache = Put(req[c].cache, k, Stored(c, k))
                 /\ req'[c].touched = req[c].touched \ {k}
        <5>1. CASE x = k
          BY <3>2, <4>2, <5>1 DEF Put
        <5>2. CASE x # k
          <6>1. x \in DOMAIN req[c].cache /\ req'[c].cache[x] = req[c].cache[x]
            BY <3>3, <4>2, <5>2 DEF Put
          <6> QED BY <3>3, <4>2, <5>2, <6>1 DEF ColumnsAt, CacheAt
        <5> QED BY <5>1, <5>2
      <4> QED BY <1>7, <4>1, <4>2
    <3> QED BY <1>3, <2>1, <3>3 DEF CacheAt
  <2>7. StoredAt(c)'
    <3>1. ASSUME NEW x \in Aims(req[c]) \ Pending(req[c]), NEW o \in Column
          PROVE  /\ Sound(c, x, o)' => Sound(c, x, o)
                 /\ x \in req[c].touched => x \in req'[c].touched
      BY <1>2, <1>5, <1>7, <2>4, <3>1 DEF Sound
    <3> QED BY <1>3, <1>4, <2>1, <3>1 DEF ColumnsAt, StoredAt
  <2> QED BY <2>5, <2>6, <2>7 DEF ColumnsAt
<1> QED BY <1>0, <1>1, <1>6, <1>7, LoadStep

LEMMA StoreColumns ==
  ASSUME LockInv, NEW c \in Client, ColumnsAt(c), Store(c)
  PROVE  ColumnsAt(c)'
<1> USE AggregatesAssumption
<1>0. PICK k, cols : k = Current(c) /\ cols = Changes(c)
  OBVIOUS
<1>1. AllShaped /\ Shape(req[c]) /\ UNCHANGED data /\ References
  BY StepAlone DEF LockInv, AllShaped, Steps
<1>2. /\ req'[c].wrote = req[c].wrote
      /\ req'[c].held = req[c].held /\ req'[c].missed = req[c].missed
      /\ req'[c].touched = req[c].touched /\ req'[c].todo = Tail(req[c].todo)
      /\ Request(c)' = Request(c) /\ req[c].pc = "store" /\ req'[c].pc = AfterTarget(c)
      /\ req'[c].rows = IF cols = {} THEN req[c].rows
                        ELSE Put(req[c].rows, k, [col \in cols |-> req[c].value[col]])
      /\ req'[c].cache = IF k \in req[c].held
                           THEN [req[c].cache EXCEPT ![k] = req[c].value]
                           ELSE [h \in DOMAIN req[c].cache \ {k} |-> req[c].cache[h]]
  BY <1>0, <1>1, StoreStep
<1>3. /\ Aims(req[c])' = Aims(req[c]) /\ agg' = agg /\ live' = live
      /\ Kept(c)' = Kept(c)
  BY <1>1, <1>2, ViewSame DEF Aims, Request, data
<1>4. /\ req[c].todo # <<>> /\ k \in Pending(req[c]) /\ k \in Target /\ k \in DOMAIN req[c].cache
      /\ k \notin DOMAIN req[c].rows
  <2>1. req[c].todo # <<>>
    BY <1>1, <1>2 DEF Shape, Placed, Recomputing, OneReview
  <2> QED BY <1>0, <1>1, <1>2, <2>1, TodoShape DEF Current, Shape, Placed, Typed
<1>5. Pending(req[c])' = Pending(req[c]) \ {k}
  BY <1>0, <1>1, <1>2, <1>4, PendingTail DEF Current
<1>6. \A x : x # k =>
        /\ x \in DOMAIN req'[c].rows <=> x \in DOMAIN req[c].rows
        /\ x \in DOMAIN req[c].rows => req'[c].rows[x] = req[c].rows[x]
        /\ x \in DOMAIN req'[c].cache <=> x \in DOMAIN req[c].cache
        /\ x \in DOMAIN req[c].cache => req'[c].cache[x] = req[c].cache[x]
  BY <1>2 DEF Put
<1>7. \A x : x # k => Written(c, x)' = Written(c, x) /\ Stored(c, x)' = Stored(c, x)
  <2>1. \A x : x # k => Written(c, x)' = Written(c, x)
    BY <1>6 DEF Written
  <2> QED BY <1>3, <1>6, <2>1 DEF Stored, Written
<1>8. ASSUME k = Restaurant
      PROVE  Truth(c, k)' = Truth(c, k) /\ (Stale(c, k)' <=> Stale(c, k))
  <2>1. \A d \in Dish : RowAfter(c)'[d] = RowAfter(c)[d]
    BY <1>3, <1>7, <1>8 DEF RowAfter, Target
  <2>2. Truth(c, Restaurant)' = Truth(c, Restaurant)
    <3>1. [d \in Dish |-> RowAfter(c)[d]]' = [d \in Dish |-> RowAfter(c)[d]]
      BY <2>1
    <3> QED BY <3>1 DEF Truth
  <2>3. Stale(c, Restaurant)' <=> Stale(c, Restaurant)
    <3>1. \A d \in req[c].held \cap Dish : req'[c].cache[d] = req[c].cache[d]
      <4>1. req[c].held \subseteq DOMAIN req[c].cache
        BY <1>1 DEF Shape, Typed
      <4> QED BY <1>6, <1>8, <4>1
    <3> QED BY <1>2, <2>1, <3>1 DEF Stale
  <2> QED BY <1>8, <2>2, <2>3
<1>9. \A x : x # Restaurant => Truth(c, x)' = Truth(c, x) /\ (Stale(c, x)' <=> Stale(c, x))
  BY <1>1, <1>2, ViewSame
<1>a. ValueAt(c)'
  BY <1>2 DEF ValueAt, Has, AfterTarget
<1>b. CacheAt(c)'
  BY <1>2, <1>3, <1>5, <1>6 DEF ColumnsAt, CacheAt
<1>c. ASSUME NEW o \in Column, Sound(c, k, o)', k \in req'[c].touched => o \in Written(c, k)'
      PROVE  Stored(c, k)'[o] = Truth(c, k)'[o]
  <2>1. Sound(c, k, o) /\ Truth(c, k)' = Truth(c, k)
    BY <1>2, <1>8, <1>9, <1>c DEF Sound
  <2>2. req[c].value[o] = Truth(c, k)[o]
    BY <1>0, <1>2, <2>1 DEF ColumnsAt, ValueAt, Has
  <2>3. Written(c, k)' = cols
    <3>1. CASE cols = {}
      BY <1>2, <1>4, <3>1 DEF Written
    <3>2. CASE cols # {}
      BY <1>2, <3>2 DEF Written, Put
    <3> QED BY <3>1, <3>2
  <2>4. CASE o \in cols
    <3>1. req'[c].rows[k] = [col \in cols |-> req[c].value[col]]
      BY <1>2, <2>4 DEF Put
    <3>2. Stored(c, k)'[o] = req[c].value[o]
      BY <2>3, <2>4, <3>1 DEF Stored
    <3> QED BY <2>1, <2>2, <3>2
  <2>5. CASE o \notin cols
    <3>1. req[c].cache[k] = agg[k]
      BY <1>2, <1>4, <1>c, <2>3, <2>5 DEF ColumnsAt, CacheAt
    <3>2. req[c].value[o] = agg[k][o]
      BY <1>0, <1>4, <2>5, <3>1 DEF Changes, RowSeen
    <3>3. Stored(c, k)'[o] = agg[k][o]
      BY <1>3, <2>3, <2>5 DEF Stored
    <3> QED BY <2>1, <2>2, <3>2, <3>3
  <2> QED BY <2>4, <2>5
<1>d. \A x \in Aims(req[c]) \ Pending(req[c]) : x # Restaurant /\ x # k
  <2>1. Restaurant \in Aims(req[c]) => Restaurant \in Pending(req[c])
    <3>1. /\ req[c].todo \in Todos(req[c]) /\ Asked(req[c])
          /\ req[c].op \in OneReview \cup {"merge"}
      BY <1>1, <1>2 DEF Shape, Typed, Placed, Recomputing
    <3>2. CASE req[c].op = "merge"
      BY <3>1, <3>2 DEF Asked, Aims, OneReview
    <3>3. CASE req[c].op \in OneReview
      <4>1. \/ req[c].todo = <<Restaurant>>
            \/ \E x : req[c].todo = <<x, Restaurant>>
            \/ \E x, y : req[c].todo = <<x, y, Restaurant>>
        BY <1>4, <3>1, <3>3 DEF Todos, OneReview
      <4>2. CASE req[c].todo = <<Restaurant>>
        BY <4>2 DEF Pending
      <4>3. ASSUME NEW x, req[c].todo = <<x, Restaurant>>
            PROVE  Restaurant \in Pending(req[c])
        BY <4>3 DEF Pending
      <4>4. ASSUME NEW x, NEW y, req[c].todo = <<x, y, Restaurant>>
            PROVE  Restaurant \in Pending(req[c])
        BY <4>4 DEF Pending
      <4> QED BY <4>1, <4>2, <4>3, <4>4
    <3> QED BY <3>1, <3>2, <3>3
  <2> QED BY <1>4, <2>1
<1>e. StoredAt(c)'
  <2>1. ASSUME NEW x \in Aims(req[c])' \ Pending(req[c])', NEW o \in Column,
               x \in live' \cup {Restaurant}, Sound(c, x, o)',
               x \in req'[c].touched => o \in Written(c, x)'
        PROVE  Stored(c, x)'[o] = Truth(c, x)'[o]
    <3>1. CASE x = k
      BY <1>c, <2>1, <3>1
    <3>2. CASE x # k
      <4>1. x \in Aims(req[c]) \ Pending(req[c]) /\ x # Restaurant
        BY <1>3, <1>5, <1>d, <2>1, <3>2
      <4>2. Sound(c, x, o)
        BY <1>2, <1>9, <2>1, <4>1 DEF Sound
      <4>3. Stored(c, x)[o] = Truth(c, x)[o]
        BY <1>2, <1>3, <1>7, <2>1, <3>2, <4>1, <4>2 DEF ColumnsAt, StoredAt
      <4> QED BY <1>7, <1>9, <3>2, <4>1, <4>3
    <3> QED BY <3>1, <3>2
  <2> QED BY <2>1 DEF StoredAt
<1> QED BY <1>a, <1>b, <1>e DEF ColumnsAt

LEMMA FindColumns ==
  ASSUME LockInv, NEW c \in Client, ColumnsAt(c), Find(c)
  PROVE  ColumnsAt(c)'
<1> USE AggregatesAssumption
<1>1. AllShaped /\ Shape(req[c]) /\ UNCHANGED data
  BY StepAlone DEF LockInv, AllShaped, Steps
<1>2. /\ req'[c].rows = req[c].rows /\ req'[c].wrote = req[c].wrote
      /\ req'[c].missed = req[c].missed /\ req'[c].touched = req[c].touched
      /\ req'[c].todo = req[c].todo
      /\ Request(c)' = Request(c) /\ req'[c].pc = "rate"
      /\ req'[c].cache = Put(req[c].cache, req[c].to, RowSeen(c, req[c].to))
  BY <1>1, FindStep
<1>3. /\ Aims(req[c])' = Aims(req[c]) /\ agg' = agg /\ live' = live
      /\ Pending(req[c])' = Pending(req[c])
  BY <1>1, <1>2 DEF Aims, Request, data, Pending
<1>4. \A x : Truth(c, x)' = Truth(c, x) /\ Stored(c, x)' = Stored(c, x)
             /\ Written(c, x)' = Written(c, x)
  BY <1>1, <1>2, RowsSame
<1>5. Pending(req[c]) = {Restaurant} /\ req[c].to # Restaurant
  <2>1. req[c].pc = "find"
    BY DEF Find, At
  <2>2. req[c].todo = <<Restaurant>> /\ req[c].to \in Dish
    BY <1>1, <2>1 DEF Shape, Placed, Asked
  <2> QED BY <2>2 DEF Pending
<1>6. \A x : x # Restaurant => (Stale(c, x)' <=> Stale(c, x))
  BY <1>1, <1>2, ViewSame
<1>7. ValueAt(c)'
  BY <1>2 DEF ValueAt, Has
<1>8. CacheAt(c)'
  <2>1. /\ Restaurant \in DOMAIN req'[c].cache <=> Restaurant \in DOMAIN req[c].cache
        /\ Restaurant \in DOMAIN req[c].cache =>
             req'[c].cache[Restaurant] = req[c].cache[Restaurant]
    BY <1>2, <1>5 DEF Put
  <2> QED BY <1>2, <1>3, <1>5, <2>1 DEF ColumnsAt, CacheAt
<1>9. StoredAt(c)'
  <2>1. ASSUME NEW x \in Aims(req[c]) \ Pending(req[c]), NEW o \in Column, Sound(c, x, o)'
        PROVE  Sound(c, x, o)
    BY <1>2, <1>5, <1>6, <2>1 DEF Sound
  <2> QED BY <1>2, <1>3, <1>4, <2>1 DEF ColumnsAt, StoredAt
<1> QED BY <1>7, <1>8, <1>9 DEF ColumnsAt

LEMMA StepColumns ==
  ASSUME LockInv, NEW c \in Client, ColumnsAt(c), Steps(c)
  PROVE  ColumnsAt(c)'
BY LockColumns, ComputeColumns, LoadColumns, StoreColumns, FindColumns DEF Steps

(* The columns of a request that nothing happens to.                        *)
LEMMA SameColumns ==
  ASSUME NEW e \in Client, ColumnsAt(e), req'[e] = req[e], UNCHANGED data
  PROVE  ColumnsAt(e)'
<1>1. /\ Request(e)' = Request(e) /\ Pending(req[e])' = Pending(req[e])
      /\ Aims(req[e])' = Aims(req[e]) /\ agg' = agg /\ live' = live
      /\ Current(e)' = Current(e)
  BY DEF Request, Pending, Aims, data, Current
<1>2. /\ \A x : Truth(e, x)' = Truth(e, x) /\ Stored(e, x)' = Stored(e, x)
                /\ Written(e, x)' = Written(e, x)
      /\ RowAfter(e)' = RowAfter(e)
  BY <1>1, RowsSame
<1>3. \A x : Stale(e, x)' <=> Stale(e, x)
  <2>1. Stale(e, Restaurant)' <=> Stale(e, Restaurant)
    BY <1>2 DEF Stale
  <2> QED BY <1>1, <2>1, ViewSame
<1>4. \A x, o : Sound(e, x, o)' <=> Sound(e, x, o)
  BY <1>3 DEF Sound
<1>5. ValueAt(e)'
  BY <1>1, <1>2, <1>4 DEF ColumnsAt, ValueAt, Has
<1>6. CacheAt(e)'
  BY <1>1 DEF ColumnsAt, CacheAt
<1>7. StoredAt(e)'
  BY <1>1, <1>2, <1>4 DEF ColumnsAt, StoredAt
<1> QED BY <1>5, <1>6, <1>7 DEF ColumnsAt

(* The columns of a request that begins, and of none.                       *)
LEMMA BeginColumns ==
  ASSUME AllShaped, References, NEW c \in Client, Begins(c)
  PROVE  ColumnsAt(c)'
<1>1. Begun(c) /\ Shape(req'[c])
  BY BeginsShape
<1>2. ValueAt(c)'
  BY <1>1 DEF Begun, ValueAt, Has
<1>3. CacheAt(c)'
  BY <1>1 DEF Begun, CacheAt, data
<1>4. StoredAt(c)'
  <2>1. Aims(req'[c]) \subseteq Pending(req'[c])
    BY <1>1 DEF Begun, Shape, Placed
  <2>2. Aims(req[c])' \subseteq Pending(req[c])'
    BY <2>1
  <2> QED BY <2>2 DEF StoredAt
<1> QED BY <1>2, <1>3, <1>4 DEF ColumnsAt

LEMMA IdleColumns ==
  ASSUME NEW c \in Client, req[c] = Idle
  PROVE  ColumnsAt(c)
BY DEF ColumnsAt, ValueAt, CacheAt, StoredAt, Has, Idle, Aims, Pending, OneReview

(* An empty dish.                                                           *)
LEMMA EmptyDish ==
  ASSUME NEW d, NEW f, NEW s, \A r \in Review : f[r] # d
  PROVE  DishRow(ScoresIn(d, f, s)) = Zero
<1>1. DOMAIN ScoresIn(d, f, s) = {}
  BY DEF ScoresIn
<1>2. Cardinality(DOMAIN ScoresIn(d, f, s)) = 0
  BY <1>1, FS_EmptySet
<1> QED BY <1>1, <1>2 DEF DishRow, Zero

(* A dish is created.                                                       *)
LEMMA CreateDishColumns ==
  ASSUME LockInv, NEW d \in Dish, CreateDish(d), NEW c \in Client, ColumnsAt(c)
  PROVE  ColumnsAt(c)'
<1> USE AggregatesAssumption
<1>1. /\ live' = live \cup {d} /\ req' = req /\ dishOf' = dishOf /\ agg' = agg
      /\ score' = score /\ d \notin live /\ d \notin {req[c].from, req[c].to}
  BY DEF CreateDish
<1>2. Shape(req[c]) /\ References /\ d # Restaurant
  BY DEF LockInv, AllShaped
<1>3. d \notin Aims(req[c])
  BY <1>1, <1>2 DEF Aims, OneReview
<1>4. d \notin Updated(c)
  BY <1>2, <1>3 DEF Shape, Typed, Updated
<1>5. /\ \A x : Written(c, x)' = Written(c, x) /\ Stored(c, x)' = Stored(c, x)
      /\ Gone(c)' = Gone(c)
  BY <1>1 DEF Written, Stored, Gone
<1>6. Stored(c, d) = Zero
  <2>1. agg[d] = Zero /\ agg[d] = [col \in Column |-> agg[d][col]]
    BY <1>1, <1>2 DEF References, Target
  <2>2. Written(c, d) = {}
    BY <1>4 DEF Written, Updated
  <2> QED BY <2>1, <2>2 DEF Stored
<1>7. RowAfter(c)' = RowAfter(c)
  <2>1. \A x : x # d => (x \in Kept(c)' <=> x \in Kept(c))
    BY <1>1, <1>5 DEF Kept
  <2>2. \A x \in Target : RowAfter(c)'[x] = RowAfter(c)[x]
    BY <1>5, <1>6, <2>1 DEF RowAfter
  <2>3. RowAfter(c)' = [x \in Target |-> RowAfter(c)'[x]] /\ RowAfter(c) = [x \in Target |-> RowAfter(c)[x]]
    BY DEF RowAfter
  <2> QED BY <2>2, <2>3
<1>8. DishAfter(c)' = DishAfter(c) /\ ScoreAfter(c)' = ScoreAfter(c)
  <2>1. \A r : DishSeen(c, r)' = DishSeen(c, r) /\ ScoreSeen(c, r)' = ScoreSeen(c, r)
    BY <1>1 DEF DishSeen, ScoreSeen
  <2>2. DishAfter(c)' = DishAfter(c)
    BY <1>5, <2>1 DEF DishAfter
  <2> QED BY <1>1, <2>1, <2>2 DEF ScoreAfter
<1>9. \A x : Truth(c, x)' = Truth(c, x) /\ (Stale(c, x)' <=> Stale(c, x))
  BY <1>1, <1>7, <1>8 DEF Truth, Stale
<1>a. \A x, o : Sound(c, x, o)' <=> Sound(c, x, o)
  BY <1>1, <1>9 DEF Sound
<1>b. ValueAt(c)'
  BY <1>1, <1>9, <1>a DEF ColumnsAt, ValueAt, Has, Current
<1>c. CacheAt(c)'
  BY <1>1 DEF ColumnsAt, CacheAt, Pending
<1>d. StoredAt(c)'
  <2>1. Aims(req[c])' = Aims(req[c]) /\ Pending(req[c])' = Pending(req[c])
    BY <1>1 DEF Aims, Pending
  <2>2. \A x \in Aims(req[c]) : x \in live' \cup {Restaurant} => x \in live \cup {Restaurant}
    BY <1>1, <1>3
  <2> QED BY <1>1, <1>5, <1>9, <1>a, <2>1, <2>2 DEF ColumnsAt, StoredAt
<1> QED BY <1>b, <1>c, <1>d DEF ColumnsAt

LEMMA CreateDishDrift ==
  ASSUME LockInv, DriftHasCause, NEW d \in Dish, CreateDish(d)
  PROVE  DriftHasCause'
<1> USE AggregatesAssumption
<1>1. /\ live' = live \cup {d} /\ dishOf' = dishOf /\ agg' = agg
      /\ score' = score /\ d \notin live /\ drifted' = drifted
  BY DEF CreateDish
<1>2. \A k : Exact(k)' = Exact(k)
  BY <1>1 DEF Exact
<1>3. Exact(d) = Zero /\ agg[d] = Zero
  <2>1. References /\ d # Restaurant
    BY DEF LockInv
  <2>2. \A r \in Review : dishOf[r] # d
    BY <1>1, <2>1 DEF References
  <2> QED BY <1>1, <2>1, <2>2, EmptyDish DEF References, Exact
<1> QED BY <1>1, <1>2, <1>3 DEF DriftHasCause

(* Another request commits: what a request computes from changes only       *)
(* where its history says that it has missed it.                            *)
LEMMA CommitTruth ==
  ASSUME LockInv, NEW x \in Client, Commit(x), NEW c \in Client, c # x,
         NEW k \in Aims(req[c]), k \notin Inputs(x)
  PROVE  Truth(c, k)' = Truth(c, k) /\ (Stale(c, k)' <=> Stale(c, k))
<1> USE AggregatesAssumption
<1>1. /\ AllShaped /\ References /\ Shape(req[c]) /\ Shape(req[x]) /\ WroteApart /\ LocksApart
      /\ dishOf' = DishAfter(x) /\ score' = ScoreAfter(x) /\ live' = Kept(x) \cap Dish
      /\ agg' = RowAfter(x)
  BY DEF LockInv, AllShaped, Commit
<1>2. /\ Request(c)' = Request(c) /\ req'[c].wrote = req[c].wrote
      /\ req'[c].rows = req[c].rows /\ req'[c].cache = req[c].cache
      /\ req'[c].held = req[c].held
  BY <1>1, CommitOthers
<1>3. /\ req'[c].op = req[c].op /\ req'[c].from = req[c].from /\ req'[c].to = req[c].to
      /\ req'[c].review = req[c].review /\ req'[c].score = req[c].score
      /\ req'[c].was = req[c].was /\ Gone(c)' = Gone(c)
  BY <1>2 DEF Request, Gone
<1>4. CASE k # Restaurant
  <2>1. k \in Dish /\ k # NoDish /\ k \notin Gone(c)
    <3>1. req[c].op \in OneReview \/ req[c].op = "merge"
      BY DEF Aims
    <3>2. req[c].op = "merge" => k = req[c].to /\ req[c].to # req[c].from /\ req[c].to \in Dish
      BY <1>1 DEF Shape, Asked, Aims, OneReview
    <3>3. req[c].op \in OneReview => k \in {req[c].from, req[c].to} \ {NoDish} /\ k \in Dish
      BY <1>1, <1>4 DEF Shape, Asked, Aims, OneReview
    <3> QED BY <3>1, <3>2, <3>3 DEF Gone, OneReview
  <2>2. ScoresIn(k, dishOf', score') = ScoresIn(k, dishOf, score)
    BY <1>1, <2>1 DEF Inputs, Reviewed
  <2>3. \A r \in Review : dishOf'[r] = k <=> dishOf[r] = k
    <3>1. DOMAIN ScoresIn(k, dishOf', score') = {r \in Review : dishOf'[r] = k}
      BY DEF ScoresIn
    <3>2. DOMAIN ScoresIn(k, dishOf, score) = {r \in Review : dishOf[r] = k}
      BY DEF ScoresIn
    <3> QED BY <2>2, <3>1, <3>2
  <2>4. \A r \in Review : dishOf[r] = k => score'[r] = score[r]
    <3>1. ASSUME NEW r \in Review, dishOf[r] = k
          PROVE  score'[r] = score[r]
      <4>1. ScoresIn(k, dishOf', score')[r] = score'[r]
        BY <2>3, <3>1 DEF ScoresIn
      <4>2. ScoresIn(k, dishOf, score)[r] = score[r]
        BY <3>1 DEF ScoresIn
      <4> QED BY <2>2, <4>1, <4>2
    <3> QED BY <3>1
  <2>5. ASSUME NEW r \in Review
        PROVE  /\ DishAfter(c)'[r] = k <=> DishAfter(c)[r] = k
               /\ DishAfter(c)[r] = k => ScoreAfter(c)'[r] = ScoreAfter(c)[r]
    <3>1. /\ DishAfter(c)[r] = IF DishSeen(c, r) \in Gone(c) THEN NoDish ELSE DishSeen(c, r)
          /\ DishAfter(c)'[r] = IF DishSeen(c, r)' \in Gone(c) THEN NoDish ELSE DishSeen(c, r)'
      BY <1>3 DEF DishAfter
    <3>2. CASE r \in req[c].wrote
      <4>1. dishOf'[r] = dishOf[r] /\ score'[r] = score[r]
        BY <1>1, <3>2, CommitData DEF WroteApart
      <4>2. DishSeen(c, r)' = DishSeen(c, r) /\ ScoreSeen(c, r)' = ScoreSeen(c, r)
        BY <1>2, <1>3, <4>1 DEF DishSeen, ScoreSeen
      <4>3. DishAfter(c)'[r] = DishAfter(c)[r]
        BY <3>1, <4>2
      <4>4. ScoreAfter(c)'[r] = ScoreAfter(c)[r]
        BY <1>2, <1>3, <4>1, <4>2, <4>3 DEF ScoreAfter
      <4> QED BY <4>3, <4>4
    <3>3. CASE r \notin req[c].wrote
      <4>1. DishSeen(c, r) = dishOf[r] /\ DishSeen(c, r)' = dishOf'[r]
        BY <1>2, <3>3 DEF DishSeen
      <4>2. DishAfter(c)'[r] = k <=> DishAfter(c)[r] = k
        BY <2>1, <2>3, <3>1, <4>1
      <4>3. ASSUME DishAfter(c)[r] = k
            PROVE  ScoreAfter(c)'[r] = ScoreAfter(c)[r]
        <5>1. dishOf[r] = k /\ DishAfter(c)'[r] = k
          BY <2>1, <3>1, <4>1, <4>2, <4>3
        <5>2. ScoreAfter(c)[r] = score[r]
          BY <2>1, <3>3, <4>3 DEF ScoreAfter
        <5>3. ScoreAfter(c)'[r] = score'[r]
          BY <1>2, <2>1, <3>3, <5>1 DEF ScoreAfter
        <5> QED BY <2>4, <5>1, <5>2, <5>3
      <4> QED BY <4>2, <4>3
    <3> QED BY <3>2, <3>3
  <2>6. ScoresIn(k, DishAfter(c)', ScoreAfter(c)') = ScoresIn(k, DishAfter(c), ScoreAfter(c))
    BY <2>5 DEF ScoresIn
  <2>7. Truth(c, k)' = Truth(c, k)
    BY <1>4, <2>6 DEF Truth
  <2>8. Stale(c, k)' <=> Stale(c, k)
    <3>1. req[c].op = "update" => req[c].review \in Review
      BY <1>1 DEF Shape, Asked
    <3> QED BY <1>3, <1>4, <2>5, <3>1 DEF Stale
  <2> QED BY <2>7, <2>8
<1>5. CASE k = Restaurant
  <2>1. req[c].op \in OneReview
    BY <1>1, <1>5 DEF Shape, Asked, Aims, OneReview
  <2>2. Gone(c) = {} /\ live' = live \ Gone(x) /\ Gone(x) \subseteq req[x].locked
    BY <2>1, CommitData DEF Gone, OneReview
  <2>3. \A d \in Dish : agg'[d] = agg[d]
    BY <1>1, <1>5 DEF Inputs, Moved, Target
  <2>4. ASSUME NEW d \in Dish
        PROVE  RowAfter(c)'[d] = RowAfter(c)[d]
    <3>1. Written(c, d)' = Written(c, d) /\ Stored(c, d)' = Stored(c, d)
      BY <1>2, <2>3 DEF Written, Stored
    <3>2. /\ RowAfter(c)[d] = IF d \in live THEN Stored(c, d) ELSE Zero
          /\ RowAfter(c)'[d] = IF d \in live' THEN Stored(c, d) ELSE Zero
      BY <1>3, <2>2, <3>1 DEF RowAfter, Kept, Target
    <3>3. CASE d \in Gone(x)
      <4>1. d \notin Updated(c)
        BY <1>1, <2>2, <3>3 DEF LocksApart
      <4>2. agg[d] = Zero /\ agg[d] = [col \in Column |-> agg[d][col]]
        <5>1. agg'[d] = Zero
          BY <1>1, <3>3 DEF RowAfter, Kept, Target
        <5> QED BY <1>1, <2>3, <5>1 DEF References, Target
      <4>3. Stored(c, d) = Zero
        BY <4>1, <4>2 DEF Stored, Written, Updated
      <4> QED BY <3>2, <4>3
    <3> QED BY <2>2, <3>2, <3>3
  <2>5. Truth(c, Restaurant)' = Truth(c, Restaurant)
    <3>1. [d \in Dish |-> RowAfter(c)[d]]' = [d \in Dish |-> RowAfter(c)[d]]
      BY <2>4
    <3> QED BY <3>1 DEF Truth
  <2>6. Stale(c, Restaurant)' <=> Stale(c, Restaurant)
    BY <1>2, <2>4 DEF Stale
  <2> QED BY <1>5, <2>5, <2>6
<1> QED BY <1>4, <1>5

LEMMA CommitColumns ==
  ASSUME LockInv, NEW x \in Client, Commit(x), NEW c \in Client, c # x, ColumnsAt(c),
         req[c] # Idle
  PROVE  ColumnsAt(c)'
<1> USE AggregatesAssumption
<1>1. /\ AllShaped /\ Shape(req[c]) /\ LocksApart
      /\ live' = live \ Gone(x) /\ agg' = RowAfter(x) /\ req[c].op # "none"
  BY CommitData DEF LockInv, AllShaped, Commit, Shape, Asked
<1>2. /\ Request(c)' = Request(c) /\ req'[c].wrote = req[c].wrote
      /\ req'[c].rows = req[c].rows /\ req'[c].cache = req[c].cache
      /\ req'[c].held = req[c].held /\ req'[c].todo = req[c].todo
      /\ req'[c].pc = req[c].pc /\ req'[c].value = req[c].value
      /\ req'[c].missed = req[c].missed \cup (Inputs(x) \X Column)
      /\ req'[c].touched = req[c].touched \cup Moved(x)
  BY <1>1, CommitOthers
<1>3. /\ Pending(req[c])' = Pending(req[c]) /\ Aims(req[c])' = Aims(req[c])
      /\ Current(c)' = Current(c)
  BY <1>2 DEF Pending, Aims, Current, Request
<1>4. ASSUME NEW k \in Aims(req[c]), NEW o \in Column, Sound(c, k, o)'
      PROVE  Sound(c, k, o) /\ Truth(c, k)' = Truth(c, k)
  <2>1. k \notin Inputs(x) /\ <<k, o>> \notin req[c].missed
    BY <1>2, <1>4 DEF Sound
  <2> QED BY <1>1, <1>4, <2>1, CommitTruth DEF Sound
<1>5. \A k \in Target : k \notin Moved(x) => agg'[k] = agg[k]
  BY <1>1 DEF Moved
<1>6. Aims(req[c]) \subseteq Target /\ Pending(req[c]) \subseteq Target
  <2>1. Aims(req[c]) \subseteq Target
    BY <1>1 DEF Shape, Asked, Aims, Target, OneReview
  <2>2. Pending(req[c]) \subseteq Target
    <3>1. CASE req[c].todo = <<>>
      BY <3>1 DEF Pending
    <3>2. CASE req[c].todo # <<>>
      BY <1>1, <3>2, TodoShape
    <3> QED BY <3>1, <3>2
  <2> QED BY <2>1, <2>2
<1>7. ValueAt(c)'
  <2>1. ASSUME NEW o \in Column, Has(c, o)', Sound(c, Current(c), o)'
        PROVE  req'[c].value[o] = Truth(c, Current(c))'[o]
    <3>1. Has(c, o) /\ req[c].pc \in {"count", "load", "store"}
      BY <1>2, <2>1 DEF Has
    <3>2. req[c].todo # <<>>
      BY <1>1, <3>1 DEF Shape, Placed, Recomputing, OneReview
    <3>3. PICK k \in Aims(req[c]) : k = Current(c) /\ k = Current(c)'
      BY <1>1, <1>3, <3>2, TodoShape DEF Current
    <3>4. Sound(c, k, o)'
      BY <2>1, <3>3
    <3>5. Sound(c, k, o) /\ Truth(c, k)' = Truth(c, k)
      BY <1>4, <3>4
    <3>6. req[c].value[o] = Truth(c, k)[o]
      BY <3>1, <3>3, <3>5 DEF ColumnsAt, ValueAt
    <3>7. Truth(c, Current(c))' = Truth(c, k)'
      BY <3>3
    <3> QED BY <1>2, <3>5, <3>6, <3>7
  <2> QED BY <2>1 DEF ValueAt
<1>8. CacheAt(c)'
  <2>1. ASSUME NEW k \in Pending(req[c]), k \in DOMAIN req[c].cache,
               k \notin req[c].touched \cup Moved(x)
        PROVE  req[c].cache[k] = agg'[k]
    BY <1>5, <1>6, <2>1 DEF ColumnsAt, CacheAt
  <2> QED BY <1>2, <1>3, <2>1 DEF CacheAt
<1>9. StoredAt(c)'
  <2>1. \A k : Written(c, k)' = Written(c, k)
    BY <1>2 DEF Written
  <2>2. ASSUME NEW k \in Aims(req[c]) \ Pending(req[c]), NEW o \in Column,
               k \in live' \cup {Restaurant}, Sound(c, k, o)',
               k \in req'[c].touched => o \in Written(c, k)
        PROVE  Stored(c, k)'[o] = Truth(c, k)'[o]
    <3>1. Sound(c, k, o) /\ Truth(c, k)' = Truth(c, k)
      BY <1>4, <2>2
    <3>2. Stored(c, k)[o] = Truth(c, k)[o]
      BY <1>1, <1>2, <2>2, <3>1 DEF ColumnsAt, StoredAt
    <3>3. CASE o \in Written(c, k)
      <4>1. Stored(c, k)'[o] = Stored(c, k)[o]
        BY <1>2, <2>1, <3>3 DEF Stored
      <4> QED BY <3>1, <3>2, <4>1
    <3>4. CASE o \notin Written(c, k)
      <4>1. agg'[k] = agg[k]
        BY <1>2, <1>5, <1>6, <2>2, <3>4
      <4>2. Stored(c, k)'[o] = Stored(c, k)[o]
        BY <2>1, <3>4, <4>1 DEF Stored
      <4> QED BY <3>1, <3>2, <4>2
    <3> QED BY <3>3, <3>4
  <2> QED BY <1>3, <2>1, <2>2 DEF StoredAt
<1> QED BY <1>7, <1>8, <1>9 DEF ColumnsAt

(* What a request changes without recomputing it, its neglect accounts for. *)
LEMMA NeglectedOnly ==
  ASSUME LockInv, NEW c \in Client, Commit(c), NEW k \in Kept(c) \ Aims(req[c]),
         k \notin Neglected(c)
  PROVE  k \notin Inputs(c)
<1> USE AggregatesAssumption
<1>1. /\ Shape(req[c]) /\ References /\ req[c].pc = "commit"
      /\ dishOf' = DishAfter(c) /\ score' = ScoreAfter(c)
  BY DEF LockInv, AllShaped, Commit
<1>2. Aims(req[c]) = Recomputed(c)
  BY DEF Aims, Recomputed
<1>3. SUFFICES ASSUME k \in Inputs(c)
               PROVE  FALSE
  OBVIOUS
<1>4. k # Restaurant /\ \A r \in req[c].wrote : dishOf[r] = req[c].from
  BY <1>2, <1>3 DEF Neglected
<1>5. k \in Dish /\ k \notin Gone(c) /\ k # NoDish /\ k \in Reviewed(c)
  BY <1>1, <1>3, <1>4 DEF Inputs, Kept, References, Reviewed
<1>6. k # req[c].from
  <2>1. req[c].op \in Op /\ req[c].op # "none"
    BY <1>1 DEF Shape, Typed, Placed
  <2>2. req[c].op \in OneReview => k # req[c].from
    BY <1>5 DEF Aims
  <2>3. req[c].op \in {"merge", "drop"} => k # req[c].from
    BY <1>5 DEF Gone
  <2> QED BY <2>1, <2>2, <2>3 DEF Op, OneReview
<1>7. ASSUME NEW r \in Review
      PROVE  /\ dishOf'[r] = k <=> dishOf[r] = k
             /\ dishOf[r] = k => score'[r] = score[r]
  <2>1. CASE r \notin req[c].wrote
    BY <2>1, CommitData
  <2>2. CASE r \in req[c].wrote
    <3>1. dishOf[r] # k
      BY <1>4, <1>6, <2>2
    <3>2. dishOf'[r] # k
      <4>1. \/ dishOf'[r] \in {NoDish, dishOf[r]}
            \/ dishOf'[r] = req[c].to /\ req[c].to \in Shared(c) \cup req[c].locked
        BY <2>2, CommitData
      <4>2. req[c].to # k \/ req[c].op = "drop"
        <5>1. req[c].op \in Op /\ req[c].op # "none"
          BY <1>1 DEF Shape, Typed, Placed
        <5> QED BY <1>5, <5>1 DEF Aims, Op, OneReview
      <4>3. req[c].op = "drop" => req[c].to = NoDish
        BY <1>1 DEF Shape, Asked
      <4> QED BY <1>5, <3>1, <4>1, <4>2, <4>3
    <3> QED BY <3>1, <3>2
  <2> QED BY <2>1, <2>2
<1>8. ScoresIn(k, dishOf', score') = ScoresIn(k, dishOf, score)
  BY <1>7 DEF ScoresIn
<1> QED BY <1>1, <1>5, <1>8 DEF Reviewed

LEMMA CommitDrift ==
  ASSUME LockInv, DriftHasCause, NEW c \in Client, Commit(c), ColumnsAt(c)
  PROVE  DriftHasCause'
<1> USE AggregatesAssumption
<1>1. /\ Shape(req[c]) /\ References /\ req[c].pc = "commit"
      /\ dishOf' = DishAfter(c) /\ score' = ScoreAfter(c)
      /\ live' = Kept(c) \cap Dish /\ agg' = RowAfter(c)
      /\ drifted' = ((drifted \ (Recomputed(c) \X Column)) \cup Wrong(c)
                        \cup (Neglected(c) \X Column)) \cap (Kept(c) \X Column)
  BY DEF LockInv, AllShaped, Commit
<1>2. Aims(req[c]) = Recomputed(c)
  BY DEF Aims, Recomputed
<1>3. References'
  BY ReferencesCommit
<1>4. ASSUME NEW k \in live' \cup {Restaurant}, NEW col \in Column, <<k, col>> \notin drifted'
      PROVE  agg'[k][col] = Exact(k)'[col]
  <2>1. k \in Kept(c) /\ k \in Target /\ agg'[k] = Stored(c, k)
    BY <1>1, <1>4 DEF Kept, RowAfter, Target
  <2>2. Exact(k)' = Truth(c, k)
    <3>1. CASE k = Restaurant
      <4>1. Exact(k)' = RestaurantRow([d \in Dish |-> agg'[d]])
        BY <3>1 DEF Exact
      <4> QED BY <1>1, <3>1, <4>1 DEF Truth
    <3>2. CASE k # Restaurant
      <4>1. Exact(k)' = DishRow(ScoresIn(k, dishOf', score'))
        BY <3>2 DEF Exact
      <4> QED BY <1>1, <3>2, <4>1 DEF Truth
    <3> QED BY <3>1, <3>2
  <2>3. CASE k \in Aims(req[c])
    <3>1. <<k, col>> \notin Wrong(c)
      BY <1>1, <1>4, <2>1
    <3>2. /\ <<k, col>> \notin req[c].missed
          /\ k \in req[c].touched => col \in Written(c, k)
          /\ ~Outdated(c, k)
      <4>1. <<k, col>> \in Recomputed(c) \X Column
        BY <1>2, <2>3
      <4> QED BY <3>1, <4>1 DEF Wrong
    <3>3. ~Stale(c, k)
      <4>1. CASE k = Restaurant
        BY <3>2, <4>1 DEF Stale, Outdated
      <4>2. CASE k # Restaurant
        <5>1. SUFFICES ASSUME Stale(c, k)
                       PROVE  FALSE
          OBVIOUS
        <5>2. /\ req[c].op = "update" /\ dishOf'[req[c].review] = k
              /\ score'[req[c].review] # req[c].score
          BY <1>1, <4>2, <5>1 DEF Stale
        <5>3. score'[req[c].review] = 0
          BY <1>1, <3>2, <4>2, <5>2 DEF Outdated
        <5>4. req[c].review \in Review
          BY <1>1, <5>2 DEF Shape, Asked
        <5>5. dishOf'[req[c].review] = NoDish
          BY <1>3, <5>3, <5>4 DEF References
        <5> QED BY <2>1, <4>2, <5>2, <5>5 DEF Target
      <4> QED BY <4>1, <4>2
    <3>4. Pending(req[c]) = {}
      <4>1. req[c].op \notin {"none", "drop"}
        BY <2>3 DEF Aims, OneReview
      <4>2. req[c].todo = <<>>
        BY <1>1, <4>1 DEF Shape, Placed
      <4> QED BY <4>2 DEF Pending
    <3>5. k \in live \cup {Restaurant}
      BY <1>4, CommitData
    <3>6. Stored(c, k)[col] = Truth(c, k)[col]
      BY <2>3, <3>2, <3>3, <3>4, <3>5 DEF ColumnsAt, StoredAt, Sound
    <3> QED BY <2>1, <2>2, <3>6
  <2>4. CASE k \notin Aims(req[c])
    <3>1. k \notin Neglected(c) /\ <<k, col>> \notin drifted
      BY <1>1, <1>2, <1>4, <2>1, <2>4
    <3>2. k \notin Inputs(c)
      BY <2>1, <2>4, <3>1, NeglectedOnly
    <3>3. Stored(c, k) = agg[k]
      <4>1. k \notin Updated(c)
        BY <1>1, <2>4 DEF Shape, Typed, Updated
      <4> QED BY <1>1, <2>1, <4>1 DEF Stored, Written, Updated, References
    <3>4. agg[k][col] = Exact(k)[col]
      <4>1. k \in live \cup {Restaurant}
        BY <1>4, CommitData
      <4> QED BY <3>1, <4>1 DEF DriftHasCause
    <3>5. Exact(k) = Truth(c, k)
      <4>1. CASE k = Restaurant
        <5>1. \A d \in Dish : RowAfter(c)[d] = agg[d]
          BY <3>2, <4>1 DEF Inputs, Moved, Target
        <5>2. [d \in Dish |-> RowAfter(c)[d]] = [d \in Dish |-> agg[d]]
          BY <5>1
        <5> QED BY <4>1, <5>2 DEF Exact, Truth
      <4>2. CASE k # Restaurant
        <5>1. ScoresIn(k, DishAfter(c), ScoreAfter(c)) = ScoresIn(k, dishOf, score)
          BY <2>1, <3>2, <4>2 DEF Inputs, Reviewed, Target
        <5> QED BY <4>2, <5>1 DEF Exact, Truth
      <4> QED BY <4>1, <4>2
    <3> QED BY <2>1, <2>2, <3>3, <3>4, <3>5
  <2> QED BY <2>3, <2>4
<1> QED BY <1>4 DEF DriftHasCause

(* The columns of a request that the step leaves without one.               *)
LEMMA EndColumns ==
  ASSUME NEW c \in Client, req'[c] = Idle
  PROVE  ColumnsAt(c)'
BY DEF ColumnsAt, ValueAt, CacheAt, StoredAt, Has, Idle, Aims, Pending, OneReview

(* Nothing that others see changes.                                         *)
LEMMA QuietDrift ==
  ASSUME DriftHasCause, UNCHANGED data
  PROVE  DriftHasCause'
<1>1. dishOf' = dishOf /\ score' = score /\ live' = live /\ agg' = agg /\ drifted' = drifted
  BY DEF data
<1>2. \A k : Exact(k)' = Exact(k)
  BY <1>1 DEF Exact
<1> QED BY <1>1, <1>2 DEF DriftHasCause

LEMMA DriftInit ==
  ASSUME Init
  PROVE  DriftInv
<1> USE AggregatesAssumption
<1>1. \A c \in Client : ColumnsAt(c)
  <2>1. \A c \in Client : req[c] = Idle
    BY DEF Init
  <2> QED BY <2>1, IdleColumns
<1>2. \A k \in Target : agg[k] = Exact(k)
  <2> DEFINE f == [d \in Dish |-> DishRow(ScoresIn(d, dishOf, score))]
  <2>1. agg = [k \in Target |-> IF k = Restaurant THEN RestaurantRow(f) ELSE f[k]]
    BY DEF Init
  <2>2. \A d \in Dish : agg[d] = f[d]
    BY <2>1 DEF Target
  <2>3. [d \in Dish |-> agg[d]] = f
    BY <2>2
  <2>4. agg[Restaurant] = RestaurantRow(f)
    BY <2>1 DEF Target
  <2>5. ASSUME NEW d \in Dish
        PROVE  agg[d] = Exact(d)
    BY <2>2 DEF Exact
  <2>6. agg[Restaurant] = Exact(Restaurant)
    BY <2>3, <2>4 DEF Exact
  <2> QED BY <2>5, <2>6 DEF Target
<1>3. DriftHasCause
  <2>1. live = Dish
    BY DEF Init
  <2> QED BY <1>2, <2>1 DEF DriftHasCause, Target
<1> QED BY <1>1, <1>3, LockInvInit DEF DriftInv

LEMMA DriftNext ==
  ASSUME DriftInv, [Next]_vars
  PROVE  DriftInv'
<1>1. LockInv /\ DriftHasCause /\ AllShaped /\ References /\ \A c \in Client : ColumnsAt(c)
  BY DEF DriftInv, LockInv
<1>2. LockInv'
  BY <1>1, LockInvNext
<1>3. CASE UNCHANGED vars
  <2>1. UNCHANGED data /\ \A c \in Client : req'[c] = req[c]
    BY <1>3 DEF vars, data
  <2>2. \A c \in Client : ColumnsAt(c)'
    BY <1>1, <2>1, SameColumns
  <2> QED BY <1>1, <1>2, <2>1, <2>2, QuietDrift DEF DriftInv
<1>4. ASSUME NEW c \in Client, UNCHANGED data, ColumnsAt(c)',
             \A e \in Client : e # c => req'[e] = req[e]
      PROVE  DriftInv'
  <2>1. \A e \in Client : e # c => ColumnsAt(e)'
    BY <1>1, <1>4, SameColumns
  <2>2. \A e \in Client : ColumnsAt(e)'
    BY <1>4, <2>1
  <2> QED BY <1>1, <1>2, <1>4, <2>2, QuietDrift DEF DriftInv
<1>5. ASSUME NEW c \in Client, Begins(c)
      PROVE  DriftInv'
  <2>1. Begun(c)
    BY <1>1, <1>5, BeginsShape
  <2>2. UNCHANGED data /\ \A e \in Client : e # c => req'[e] = req[e]
    BY <1>1, <2>1 DEF Begun, AllShaped
  <2>3. ColumnsAt(c)'
    BY <1>1, <1>5, BeginColumns
  <2> QED BY <1>4, <2>2, <2>3
<1>6. ASSUME NEW c \in Client, Steps(c)
      PROVE  DriftInv'
  <2>1. UNCHANGED data /\ req' = [req EXCEPT ![c] = req'[c]]
    BY <1>1, <1>6, StepAlone
  <2>2. \A e \in Client : e # c => req'[e] = req[e]
    BY <1>1, <2>1 DEF AllShaped
  <2>3. ColumnsAt(c)'
    BY <1>1, <1>6, StepColumns
  <2> QED BY <1>4, <2>1, <2>2, <2>3
<1>7. ASSUME NEW c \in Client, Abort(c)
      PROVE  DriftInv'
  <2>1. /\ UNCHANGED data /\ req'[c] = Idle
        /\ \A e \in Client : e # c => req'[e] = req[e]
    BY <1>1, <1>7 DEF Abort, AllShaped
  <2>2. ColumnsAt(c)'
    BY <2>1, EndColumns
  <2> QED BY <1>4, <2>1, <2>2
<1>8. ASSUME NEW d \in Dish, CreateDish(d)
      PROVE  DriftInv'
  <2>1. \A c \in Client : ColumnsAt(c)'
    BY <1>1, <1>8, CreateDishColumns
  <2>2. DriftHasCause'
    BY <1>1, <1>8, CreateDishDrift
  <2> QED BY <1>2, <2>1, <2>2 DEF DriftInv
<1>9. ASSUME NEW c \in Client, Commit(c)
      PROVE  DriftInv'
  <2>1. DriftHasCause'
    BY <1>1, <1>9, CommitDrift
  <2>2. ASSUME NEW e \in Client
        PROVE  ColumnsAt(e)'
    <3>1. CASE e = c \/ req[e] = Idle
      <4>1. req'[e] = Idle
        BY <1>9, <3>1 DEF Commit
      <4> QED BY <4>1, EndColumns
    <3>2. CASE e # c /\ req[e] # Idle
      BY <1>1, <1>9, <3>2, CommitColumns
    <3> QED BY <3>1, <3>2
  <2> QED BY <1>2, <2>1, <2>2 DEF DriftInv
<1> QED BY <1>3, <1>5, <1>6, <1>7, <1>8, <1>9, StepCases

(* A column of a dish or of the restaurant that is not what the reviews or  *)
(* the dishes say is one that the history accounts for: a request stored    *)
(* it from before another one committed, did not store it since an object   *)
(* loaded before said the same, or did not recompute it at all.             *)
THEOREM DriftCause == Spec => []DriftHasCause
<1>1. Init => DriftInv
  BY DriftInit
<1>2. DriftInv /\ [Next]_vars => DriftInv'
  BY DriftNext
<1>3. DriftInv => DriftHasCause
  BY DEF DriftInv
<1> QED BY <1>1, <1>2, <1>3, PTL DEF Spec

------------------------------------------------------------------------------
(* Sums of finitely many numbers.                                           *)
LEMMA SmallestOf ==
  ASSUME NEW K \in SUBSET Nat, K # {}
  PROVE  \E i \in K : \A j \in K : i <= j
<1>1. PICK i \in K : \A j \in K : <<j, i>> \notin OpToRel(<, Nat)
  BY WFMin, NatLessThanWellFounded
<1>2. \A j \in K : ~(j < i)
  BY <1>1 DEF OpToRel
<1> QED BY <1>2

(* The sum of the values of f.                                              *)
Total(f) == MapThenSumSet(LAMBDA x : f[x], DOMAIN f)

Some(s) == CHOOSE x \in s : TRUE

(* What h says of s is what the recursion of a sum does.                    *)
Adds(h, f, s) == h[s] = IF s = {} THEN 0 ELSE f[Some(s)] + h[s \ {Some(s)}]

Sums(h, f) ==
  h = [s \in SUBSET DOMAIN f |-> IF s = {} THEN 0 ELSE f[Some(s)] + h[s \ {Some(s)}]]

LEMMA TotalIs == ASSUME NEW f PROVE Total(f) = (CHOOSE h : Sums(h, f))[DOMAIN f]
BY DEF Total, MapThenSumSet, MapThenFoldSet, Sums, Some

(* One element less.                                                        *)
LEMMA Less ==
  ASSUME NEW S, IsFiniteSet(S), NEW s \in SUBSET S, s # {}
  PROVE  /\ Some(s) \in s /\ s \ {Some(s)} \in SUBSET S
         /\ Cardinality(s) \in Nat /\ Cardinality(s) >= 1
         /\ Cardinality(s \ {Some(s)}) = Cardinality(s) - 1
<1>1. Some(s) \in s
  BY DEF Some
<1>2. IsFiniteSet(s)
  BY FS_Subset
<1>3. Cardinality(s) \in Nat /\ Cardinality(s) # 0
  BY <1>2, FS_CardinalityType, FS_EmptySet
<1>4. Cardinality(s \ {Some(s)}) = Cardinality(s) - 1
  BY <1>1, <1>2, FS_RemoveElement
<1> QED BY <1>1, <1>3, <1>4

(* The function that a sum is computed with exists.                         *)
LEMMA SumsExist ==
  ASSUME NEW S, IsFiniteSet(S), NEW f \in [S -> Nat]
  PROVE  \E h \in [SUBSET S -> Nat] : Sums(h, f)
<1> DEFINE Upto(n) == {h \in [SUBSET S -> Nat] :
                         \A s \in SUBSET S : Cardinality(s) <= n => Adds(h, f, s)}
           Bad == {n \in Nat : Upto(n) = {}}
<1>1. \A s \in SUBSET S : IsFiniteSet(s) /\ Cardinality(s) \in Nat
  BY FS_Subset, FS_CardinalityType
<1>2. Upto(0) # {}
  <2> DEFINE h == [s \in SUBSET S |-> 0]
  <2>1. \A s \in SUBSET S : Cardinality(s) <= 0 => s = {}
    BY <1>1, FS_EmptySet
  <2>2. h \in Upto(0)
    BY <2>1 DEF Adds
  <2> QED BY <2>2
<1>3. ASSUME NEW n \in Nat, Upto(n) # {}
      PROVE  Upto(n + 1) # {}
  <2>1. PICK h \in [SUBSET S -> Nat] : \A s \in SUBSET S : Cardinality(s) <= n => Adds(h, f, s)
    BY <1>3
  <2> DEFINE v(s) == IF s = {} THEN 0 ELSE f[Some(s)] + h[s \ {Some(s)}]
             g == [s \in SUBSET S |-> IF Cardinality(s) <= n THEN h[s] ELSE v(s)]
  <2>2. ASSUME NEW s \in SUBSET S
        PROVE  v(s) \in Nat
    <3>1. CASE s = {}
      BY <3>1
    <3>2. CASE s # {}
      <4>1. f[Some(s)] \in Nat /\ h[s \ {Some(s)}] \in Nat
        BY <3>2, Less
      <4> QED BY <3>2, <4>1
    <3> QED BY <3>1, <3>2
  <2>3. g \in [SUBSET S -> Nat]
    BY <2>2
  <2>4. ASSUME NEW s \in SUBSET S, Cardinality(s) <= n + 1
        PROVE  Adds(g, f, s)
    <3>1. g[s] = v(s)
      BY <2>1 DEF Adds
    <3>2. CASE s = {}
      BY <3>1, <3>2 DEF Adds
    <3>3. CASE s # {}
      <4>1. /\ s \ {Some(s)} \in SUBSET S /\ Cardinality(s) \in Nat
            /\ Cardinality(s \ {Some(s)}) = Cardinality(s) - 1
        BY <3>3, Less
      <4>2. Cardinality(s \ {Some(s)}) <= n
        BY <4>1, <2>4
      <4>3. g[s \ {Some(s)}] = h[s \ {Some(s)}]
        BY <4>1, <4>2
      <4> QED BY <3>1, <3>3, <4>3 DEF Adds
    <3> QED BY <3>2, <3>3
  <2>5. g \in Upto(n + 1)
    BY <2>3, <2>4
  <2> QED BY <2>5
<1>4. Bad = {}
  <2>1. SUFFICES ASSUME Bad # {}
                 PROVE  FALSE
    OBVIOUS
  <2> HIDE DEF Upto
  <2>2. PICK n \in Bad : \A m \in Bad : n <= m
    BY <2>1, SmallestOf
  <2>3. n \in Nat /\ Upto(n) = {} /\ n # 0
    BY <2>2, <1>2
  <2>4. n - 1 \in Nat /\ n - 1 \notin Bad /\ (n - 1) + 1 = n
    BY <2>2, <2>3
  <2>5. Upto(n - 1) # {}
    BY <2>4
  <2> QED BY <2>3, <2>4, <2>5, <1>3
<1>5. PICK h \in [SUBSET S -> Nat] :
        \A s \in SUBSET S : Cardinality(s) <= Cardinality(S) => Adds(h, f, s)
  <2>1. Cardinality(S) \in Nat
    BY FS_CardinalityType
  <2>2. Upto(Cardinality(S)) # {}
    BY <1>4, <2>1
  <2> QED BY <2>2
<1>6. \A s \in SUBSET S : Adds(h, f, s)
  BY <1>5, FS_Subset
<1>7. DOMAIN h = SUBSET S /\ DOMAIN f = S /\ h = [s \in SUBSET S |-> h[s]]
  OBVIOUS
<1>8. \A s \in SUBSET S : h[s] = IF s = {} THEN 0 ELSE f[Some(s)] + h[s \ {Some(s)}]
  BY <1>6 DEF Adds
<1>9. Sums(h, f)
  <2>1. h = [s \in SUBSET S |-> IF s = {} THEN 0 ELSE f[Some(s)] + h[s \ {Some(s)}]]
    BY <1>7, <1>8
  <2> QED BY <1>7, <2>1 DEF Sums
<1> QED BY <1>9

(* The sum goes through the elements one by one.                            *)
LEMMA Summing ==
  ASSUME NEW S, IsFiniteSet(S), NEW f \in [S -> Nat]
  PROVE  \E h : /\ Total(f) = h[S] /\ h[{}] = 0
                /\ \A s \in SUBSET S :
                     s # {} => h[s] = f[Some(s)] + h[s \ {Some(s)}]
<1>1. PICK h : h = (CHOOSE g : Sums(g, f))
  OBVIOUS
<1>2. Sums(h, f)
  BY <1>1, SumsExist
<1>3. Total(f) = h[S]
  BY <1>1, TotalIs
<1>4. \A s \in SUBSET S : h[s] = IF s = {} THEN 0 ELSE f[Some(s)] + h[s \ {Some(s)}]
  BY <1>2 DEF Sums
<1> QED BY <1>3, <1>4

(* A sum is a number; it is at most m times another one if its terms are at *)
(* most m times the other's.                                                *)
LEMMA TotalBound ==
  ASSUME NEW S, IsFiniteSet(S), NEW f \in [S -> Nat], NEW g \in [S -> Nat], NEW m \in Nat,
         \A x \in S : f[x] <= m * g[x]
  PROVE  Total(f) \in Nat /\ Total(g) \in Nat /\ Total(f) <= m * Total(g)
<1>1. PICK h : /\ Total(f) = h[S] /\ h[{}] = 0
               /\ \A s \in SUBSET S : s # {} => h[s] = f[Some(s)] + h[s \ {Some(s)}]
  BY Summing
<1>2. PICK k : /\ Total(g) = k[S] /\ k[{}] = 0
               /\ \A s \in SUBSET S : s # {} => k[s] = g[Some(s)] + k[s \ {Some(s)}]
  BY Summing
<1> DEFINE Holds(s) == h[s] \in Nat /\ k[s] \in Nat /\ h[s] <= m * k[s]
           Sizes == {Cardinality(s) : s \in {t \in SUBSET S : ~Holds(t)}}
<1>3. ASSUME Sizes # {}
      PROVE  FALSE
  <2>1. Sizes \in SUBSET Nat
    BY FS_Subset, FS_CardinalityType
  <2>2. PICK n \in Sizes : \A j \in Sizes : n <= j
    BY <1>3, <2>1, SmallestOf
  <2>3. PICK s \in SUBSET S : ~Holds(s) /\ n = Cardinality(s)
    BY <2>2
  <2>4. s # {}
    <3>1. SUFFICES ASSUME s = {}
                   PROVE  FALSE
      OBVIOUS
    <3>2. h[s] = 0 /\ k[s] = 0
      BY <3>1, <1>1, <1>2
    <3>3. m * k[s] = 0
      BY <3>2
    <3> QED BY <2>3, <3>2, <3>3
  <2>5. PICK x, t : x = Some(s) /\ t = s \ {Some(s)}
    OBVIOUS
  <2>6. /\ x \in S /\ t \in SUBSET S /\ Cardinality(s) \in Nat
        /\ Cardinality(t) = Cardinality(s) - 1
    BY <2>4, <2>5, Less
  <2>7. Holds(t)
    <3>1. Cardinality(t) \notin Sizes
      <4> HIDE DEF Sizes
      <4> QED BY <2>2, <2>3, <2>6
    <3> QED BY <2>6, <3>1
  <2>8. h[s] = f[x] + h[t] /\ k[s] = g[x] + k[t]
    BY <1>1, <1>2, <2>4, <2>5
  <2>9. PICK a, b, d, e : a = f[x] /\ b = h[t] /\ d = g[x] /\ e = k[t]
    OBVIOUS
  <2>10. a \in Nat /\ b \in Nat /\ d \in Nat /\ e \in Nat /\ a <= m * d /\ b <= m * e
    BY <2>6, <2>7, <2>9
  <2>11. m * (d + e) = m * d + m * e
    BY <2>10
  <2>12. m * d \in Nat /\ m * e \in Nat
    BY <2>10
  <2>13. a + b <= m * (d + e) /\ a + b \in Nat /\ d + e \in Nat
    BY <2>10, <2>11, <2>12
  <2> QED BY <2>3, <2>8, <2>9, <2>13
<1>4. Holds(S)
  BY <1>3
<1> QED BY <1>1, <1>2, <1>4

(* As many ones as there are elements.                                      *)
LEMMA TotalOnes ==
  ASSUME NEW S, IsFiniteSet(S), NEW f \in [S -> Nat], \A x \in S : f[x] = 1
  PROVE  Total(f) = Cardinality(S)
<1>1. PICK h : /\ Total(f) = h[S] /\ h[{}] = 0
               /\ \A s \in SUBSET S : s # {} => h[s] = f[Some(s)] + h[s \ {Some(s)}]
  <2>1. f \in [S -> Nat]
    OBVIOUS
  <2> QED BY <2>1, Summing, SMTT(30)
<1> DEFINE Sizes == {Cardinality(s) : s \in {t \in SUBSET S : h[t] # Cardinality(t)}}
<1>2. ASSUME Sizes # {}
      PROVE  FALSE
  <2>1. Sizes \in SUBSET Nat
    BY FS_Subset, FS_CardinalityType
  <2>2. PICK n \in Sizes : \A j \in Sizes : n <= j
    BY <1>2, <2>1, SmallestOf
  <2>3. PICK s \in SUBSET S : h[s] # Cardinality(s) /\ n = Cardinality(s)
    BY <2>2
  <2>4. s # {}
    BY <2>3, <1>1, FS_EmptySet
  <2>5. PICK x, t : x = Some(s) /\ t = s \ {Some(s)}
    OBVIOUS
  <2>6. /\ x \in S /\ t \in SUBSET S /\ Cardinality(s) \in Nat
        /\ Cardinality(t) = Cardinality(s) - 1
    BY <2>4, <2>5, Less
  <2>7. h[t] = Cardinality(t)
    <3>1. Cardinality(t) \notin Sizes
      <4> HIDE DEF Sizes
      <4> QED BY <2>2, <2>3, <2>6
    <3> QED BY <2>6, <3>1
  <2>8. h[s] = f[x] + h[t] /\ f[x] = 1
    BY <1>1, <2>4, <2>5, <2>6
  <2> QED BY <2>3, <2>6, <2>7, <2>8
<1>3. h[S] = Cardinality(S)
  BY <1>2
<1> QED BY <1>1, <1>3

(* The greatest of finitely many numbers.                                   *)
LEMMA MaxOf ==
  ASSUME NEW S \in SUBSET Nat, IsFiniteSet(S), S # {}
  PROVE  Max(S) \in S /\ \A y \in S : y <= Max(S)
<1> DEFINE Above(x) == {y \in S : y > x}
           Sizes == {Cardinality(Above(x)) : x \in S}
<1>1. \A x \in S : IsFiniteSet(Above(x)) /\ Cardinality(Above(x)) \in Nat
  BY FS_Subset, FS_CardinalityType
<1>2. PICK n \in Sizes : \A j \in Sizes : n <= j
  <2>1. Sizes \in SUBSET Nat /\ Sizes # {}
    BY <1>1
  <2> HIDE DEF Sizes
  <2> QED BY <2>1, SmallestOf
<1>3. PICK x \in S : n = Cardinality(Above(x))
  BY <1>2
<1>4. ASSUME NEW y \in S, y > x
      PROVE  FALSE
  <2>1. Above(y) \subseteq Above(x) /\ y \in Above(x) /\ y \notin Above(y)
    <3>1. x \in Nat /\ y \in Nat /\ \A z \in S : z \in Nat
      OBVIOUS
    <3>2. \A z \in S : z > y => z > x
      BY <1>4, <3>1
    <3>3. ~(y > y)
      BY <3>1
    <3> QED BY <1>4, <3>2, <3>3
  <2>2. Cardinality(Above(y)) <= Cardinality(Above(x)) /\ Cardinality(Above(y)) # Cardinality(Above(x))
    <3>1. IsFiniteSet(Above(x)) /\ Above(y) \in SUBSET Above(x) /\ Above(x) # Above(y)
      BY <1>1, <2>1
    <3> HIDE DEF Above
    <3> QED BY <3>1, FS_Subset
  <2>3. Cardinality(Above(x)) <= Cardinality(Above(y))
    BY <1>2, <1>3
  <2>4. Cardinality(Above(x)) \in Nat /\ Cardinality(Above(y)) \in Nat
    BY <1>1
  <2> HIDE DEF Above
  <2> QED BY <2>2, <2>3, <2>4
<1>5. \A y \in S : x >= y
  <2> HIDE DEF Above, Sizes
  <2>1. x \in Nat /\ \A y \in S : y \in Nat
    OBVIOUS
  <2> QED BY <1>4, <2>1
<1>6. Max(S) \in S /\ \A y \in S : Max(S) >= y
  BY <1>5 DEF Max
<1> QED BY <1>6

LEMMA HalfUpBound ==
  ASSUME NEW a \in Nat, NEW b \in Nat, b # 0, NEW m \in Nat, a <= m * b
  PROVE  HalfUp(a, b) \in 0 .. m
<1>1. PICK n, d, q, p : n = 2 * a + b /\ d = 2 * b /\ q = n \div d /\ p = m * b
  OBVIOUS
<1>2. n \in Nat /\ d \in Nat /\ d > 0 /\ p \in Nat /\ a <= p
  BY <1>1
<1>3. q \in Nat /\ q * d <= n
  BY <1>1, <1>2
<1>4. n < 2 * p + d
  BY <1>1, <1>2
<1>5. (m + 1) * d = 2 * p + d
  BY <1>1
<1>6. q >= m + 1 => q * d >= (m + 1) * d
  BY <1>2, <1>3
<1>7. q <= m
  BY <1>2, <1>3, <1>4, <1>5, <1>6
<1> QED BY <1>1, <1>3, <1>7 DEF HalfUp

LEMMA WeightsTotal ==
  ASSUME NEW D
  PROVE  MapThenSumSet(Weight, D) = Total([r \in D |-> Weight(r)])
<1> DEFINE g == [r \in D |-> Weight(r)]
           F(h) == [s \in SUBSET D |-> IF s = {} THEN 0 ELSE Weight(Some(s)) + h[s \ {Some(s)}]]
           G(h) == [s \in SUBSET D |-> IF s = {} THEN 0 ELSE g[Some(s)] + h[s \ {Some(s)}]]
<1>1. MapThenSumSet(Weight, D) = (CHOOSE h : h = F(h))[D]
  BY DEF MapThenSumSet, MapThenFoldSet, Some
<1>2. Total(g) = (CHOOSE h : h = G(h))[D]
  BY TotalIs DEF Sums
<1>3. ASSUME NEW h
      PROVE  F(h) = G(h)
  <2>1. \A s \in SUBSET D : s # {} => g[Some(s)] = Weight(Some(s))
    BY DEF Some
  <2> QED BY <2>1
<1> HIDE DEF F, G
<1>4. (CHOOSE h : h = F(h)) = (CHOOSE h : h = G(h))
  BY <1>3
<1> QED BY <1>1, <1>2, <1>4

(* The sums of the formulas are such sums.                                  *)
WeightedSums(h, f) ==
  h = [s \in SUBSET DOMAIN f |->
         IF s = {} THEN 0 ELSE Weight(Some(s)) * f[Some(s)] + h[s \ {Some(s)}]]

ColumnSums(h, f, D, col) ==
  h = [s \in SUBSET D |-> IF s = {} THEN 0 ELSE f[Some(s)][col] + h[s \ {Some(s)}]]

LEMMA WeightedTotal ==
  ASSUME NEW f, NEW g, DOMAIN g = DOMAIN f, \A r \in DOMAIN f : g[r] = Weight(r) * f[r]
  PROVE  (CHOOSE h : WeightedSums(h, f))[DOMAIN f] = Total(g)
<1>1. \A h : WeightedSums(h, f) <=> Sums(h, g)
  <2>1. ASSUME NEW h
        PROVE  [s \in SUBSET DOMAIN f |->
                  IF s = {} THEN 0 ELSE Weight(Some(s)) * f[Some(s)] + h[s \ {Some(s)}]]
                 = [s \in SUBSET DOMAIN g |->
                      IF s = {} THEN 0 ELSE g[Some(s)] + h[s \ {Some(s)}]]
    <3>1. \A s \in SUBSET DOMAIN f : s # {} => g[Some(s)] = Weight(Some(s)) * f[Some(s)]
      BY DEF Some
    <3> QED BY <3>1
  <2> QED BY <2>1 DEF WeightedSums, Sums
<1>2. (CHOOSE h : WeightedSums(h, f)) = (CHOOSE h : Sums(h, g))
  BY <1>1
<1>3. Total(g) = (CHOOSE h : Sums(h, g))[DOMAIN g]
  BY TotalIs
<1> QED BY <1>2, <1>3

LEMMA ColumnTotal ==
  ASSUME NEW f, NEW D, NEW col, NEW g, DOMAIN g = D, \A d \in D : g[d] = f[d][col]
  PROVE  (CHOOSE h : ColumnSums(h, f, D, col))[D] = Total(g)
<1>1. \A h : ColumnSums(h, f, D, col) <=> Sums(h, g)
  <2>1. ASSUME NEW h
        PROVE  [s \in SUBSET D |-> IF s = {} THEN 0 ELSE f[Some(s)][col] + h[s \ {Some(s)}]]
                 = [s \in SUBSET DOMAIN g |->
                      IF s = {} THEN 0 ELSE g[Some(s)] + h[s \ {Some(s)}]]
    <3>1. \A s \in SUBSET D : s # {} => g[Some(s)] = f[Some(s)][col]
      BY DEF Some
    <3> QED BY <3>1
  <2> QED BY <2>1 DEF ColumnSums, Sums
<1>2. (CHOOSE h : ColumnSums(h, f, D, col)) = (CHOOSE h : Sums(h, g))
  BY <1>1
<1>3. Total(g) = (CHOOSE h : Sums(h, g))[DOMAIN g]
  BY TotalIs
<1> QED BY <1>2, <1>3

LEMMA DishRowIs ==
  ASSUME NEW f
  PROVE  DishRow(f) =
           [rating |-> IF DOMAIN f = {} THEN 0
                       ELSE HalfUp(100 * (CHOOSE h : WeightedSums(h, f))[DOMAIN f],
                                   MapThenSumSet(Weight, DOMAIN f)),
            count |-> Cardinality(DOMAIN f)]
BY DEF DishRow, MapThenSumSet, MapThenFoldSet, WeightedSums, Some

LEMMA RestaurantRowIs ==
  ASSUME NEW f, NEW D, D = {d \in Dish : f[d].rating > 0}
  PROVE  RestaurantRow(f) =
           [rating |-> IF D = {} THEN 0
                       ELSE HalfUp((CHOOSE h : ColumnSums(h, f, D, "rating"))[D],
                                   Cardinality(D)),
            count |-> (CHOOSE h : ColumnSums(h, f, Dish, "count"))[Dish]]
BY DEF RestaurantRow, MapThenSumSet, MapThenFoldSet, ColumnSums, Some

------------------------------------------------------------------------------
(* How large the columns of a target can be.                                *)
Most(k, col) ==
  IF col = "rating" THEN 100 * Max(Score)
  ELSE IF k = Restaurant THEN Cardinality(Review) * Cardinality(Dish)
  ELSE Cardinality(Review)

Fits(row, k) ==
  /\ row = [col \in Column |-> row[col]]
  /\ \A col \in Column : row[col] \in 0 .. Most(k, col)

LEMMA SizesAre ==
  /\ Max(Score) \in Nat /\ \A s \in Score \cup {0} : s \in 0 .. Max(Score)
  /\ Cardinality(Review) \in Nat /\ Cardinality(Dish) \in Nat
  /\ \A k, col : Most(k, col) \in Nat
<1> USE AggregatesAssumption, AggregatesFinite
<1>1. Score \in SUBSET Nat /\ Score # {} /\ 0 \in Nat
  OBVIOUS
<1>2. Max(Score) \in Score /\ \A y \in Score : y <= Max(Score)
  BY <1>1, MaxOf
<1>3. Cardinality(Review) \in Nat /\ Cardinality(Dish) \in Nat
  BY FS_CardinalityType
<1>4. Max(Score) \in Nat /\ \A s \in Score \cup {0} : s \in 0 .. Max(Score)
  <2>1. PICK m : m = Max(Score)
    OBVIOUS
  <2>2. m \in Nat
    BY <1>1, <1>2, <2>1
  <2>3. \A s \in Score : s \in Nat /\ s <= m
    BY <1>1, <1>2, <2>1
  <2> QED BY <2>1, <2>2, <2>3
<1>5. 100 * Max(Score) \in Nat /\ Cardinality(Review) * Cardinality(Dish) \in Nat
  BY <1>3, <1>4
<1> QED BY <1>3, <1>4, <1>5 DEF Most

LEMMA ZeroFits ==
  ASSUME NEW k
  PROVE  Fits(Zero, k)
<1>1. Zero = [col \in Column |-> Zero[col]] /\ \A col \in Column : Zero[col] = 0
  BY DEF Zero, Column
<1>2. \A col : Most(k, col) \in Nat
  BY SizesAre
<1>3. \A col \in Column : 0 \in 0 .. Most(k, col)
  BY <1>2
<1> QED BY <1>1, <1>3 DEF Fits

(* A row that fits is a row.                                                *)
LEMMA FitsRow ==
  ASSUME NEW k \in Target, NEW row, Fits(row, k)
  PROVE  row \in Row
<1> USE AggregatesAssumption, AggregatesFinite
<1>1. row["rating"] \in 0 .. 100 * Max(Score) /\ row["count"] \in 0 .. Most(k, "count")
  BY DEF Fits, Most, Column
<1>2. Most(k, "count") <= Cardinality(Review) * Cardinality(Dish)
  <2>1. CASE k = Restaurant
    <3>1. Cardinality(Review) * Cardinality(Dish) \in Nat
      BY SizesAre
    <3> QED BY <2>1, <3>1 DEF Most
  <2>2. CASE k # Restaurant
    <3>1. Cardinality(Dish) # 0
      BY <2>2, FS_EmptySet DEF Target
    <3>2. PICK a, b : a = Cardinality(Review) /\ b = Cardinality(Dish)
      OBVIOUS
    <3>3. a \in Nat /\ b \in Nat /\ b >= 1
      BY <3>1, <3>2, SizesAre
    <3>4. a <= a * b
      BY <3>3
    <3> QED BY <2>2, <3>2, <3>4 DEF Most
  <2> QED BY <2>1, <2>2
<1>3. row["count"] \in 0 .. Cardinality(Review) * Cardinality(Dish)
  <2>1. Cardinality(Review) * Cardinality(Dish) \in Nat /\ Most(k, "count") \in Nat
    BY SizesAre
  <2> QED BY <1>1, <1>2, <2>1
<1>4. row = [rating |-> row["rating"], count |-> row["count"]]
  BY DEF Fits, Column
<1> QED BY <1>1, <1>3, <1>4 DEF Row

(* The average of scores is at most the greatest one, and there are at most *)
(* as many as reviews.                                                      *)
LEMMA DishRowFits ==
  ASSUME NEW R \in SUBSET Review, NEW f \in [R -> 0 .. Max(Score)],
         NEW k, k # Restaurant
  PROVE  Fits(DishRow(f), k)
<1>1. IsFiniteSet(R) /\ Cardinality(R) \in Nat /\ Cardinality(R) <= Cardinality(Review)
  BY AggregatesFinite, FS_Subset, FS_CardinalityType
<1>2. DOMAIN f = R
  OBVIOUS
<1>3. PICK w, v, o : /\ w = [r \in R |-> Weight(r)] /\ v = [r \in R |-> Weight(r) * f[r]]
                     /\ o = [r \in R |-> 1]
  OBVIOUS
<1>4. PICK m : m = Max(Score) /\ m \in Nat
  BY SizesAre
<1>5. \A r \in R : /\ w[r] \in Nat /\ w[r] >= 1 /\ v[r] \in Nat /\ v[r] <= m * w[r]
                   /\ o[r] = 1
  <2>1. ASSUME NEW r \in R
        PROVE  /\ w[r] \in Nat /\ w[r] >= 1 /\ v[r] \in Nat /\ v[r] <= m * w[r]
    <3>1. f[r] \in Nat /\ f[r] <= m
      BY <1>4
    <3>2. w[r] = Weight(r) /\ v[r] = Weight(r) * f[r]
      BY <1>3
    <3>3. CASE r \in Critic
      <4>1. w[r] = 2 /\ v[r] = 2 * f[r]
        BY <3>2, <3>3 DEF Weight
      <4> QED BY <3>1, <1>4, <4>1
    <3>4. CASE r \notin Critic
      <4>1. w[r] = 1 /\ v[r] = f[r]
        BY <3>1, <3>2, <3>4 DEF Weight
      <4> QED BY <3>1, <1>4, <4>1
    <3> QED BY <3>3, <3>4
  <2> QED BY <2>1, <1>3
<1>6. w \in [R -> Nat] /\ v \in [R -> Nat] /\ o \in [R -> Nat]
  BY <1>3, <1>5
<1>7. Total(v) \in Nat /\ Total(w) \in Nat /\ Total(v) <= m * Total(w)
  BY <1>1, <1>4, <1>5, <1>6, TotalBound
<1>8. R # {} => Total(w) # 0
  <2>1. Total(o) = Cardinality(R)
    BY <1>1, <1>5, <1>6, TotalOnes
  <2>2. \A r \in R : o[r] <= 1 * w[r]
    BY <1>5
  <2>3. Total(o) <= 1 * Total(w)
    BY <1>1, <1>6, <2>2, TotalBound
  <2>4. R # {} => Cardinality(R) # 0
    BY <1>1, FS_EmptySet
  <2> QED BY <1>1, <1>7, <2>1, <2>3, <2>4
<1>9. DishRow(f) = [rating |-> IF R = {} THEN 0 ELSE HalfUp(100 * Total(v), Total(w)),
                    count |-> Cardinality(R)]
  <2>1. DOMAIN v = R /\ \A r \in R : v[r] = Weight(r) * f[r]
    BY <1>3
  <2>2. (CHOOSE h : WeightedSums(h, f))[DOMAIN f] = Total(v)
    BY <1>2, <2>1, WeightedTotal
  <2>3. MapThenSumSet(Weight, R) = Total(w)
    BY <1>3, WeightsTotal
  <2>4. DishRow(f) = [rating |-> IF R = {} THEN 0
                              ELSE HalfUp(100 * (CHOOSE h : WeightedSums(h, f))[R],
                                          MapThenSumSet(Weight, R)),
                    count |-> Cardinality(R)]
    <3>1. DishRow(f) = [rating |-> IF DOMAIN f = {} THEN 0
                                   ELSE HalfUp(100 * (CHOOSE h : WeightedSums(h, f))[DOMAIN f],
                                               MapThenSumSet(Weight, DOMAIN f)),
                        count |-> Cardinality(DOMAIN f)]
      BY ONLY DishRowIs
    <3> QED BY <1>2, <3>1
  <2> QED BY <1>2, <2>2, <2>3, <2>4
<1>a. R # {} => HalfUp(100 * Total(v), Total(w)) \in 0 .. 100 * m
  <2>1. PICK a, b : a = Total(v) /\ b = Total(w)
    OBVIOUS
  <2>2. a \in Nat /\ b \in Nat /\ a <= m * b /\ m * b \in Nat
    BY <1>4, <1>7, <2>1
  <2>3. (100 * m) * b = 100 * (m * b)
    BY <1>4, <2>2
  <2>4. 100 * a <= (100 * m) * b /\ 100 * a \in Nat /\ 100 * m \in Nat
    BY <1>4, <2>2, <2>3
  <2> QED BY <1>8, <2>1, <2>2, <2>4, HalfUpBound
<1>b. DishRow(f)["rating"] \in 0 .. Most(k, "rating")
  <2>1. Most(k, "rating") = 100 * m /\ 0 \in 0 .. 100 * m
    BY <1>4 DEF Most
  <2> QED BY <1>9, <1>a, <2>1
<1>c. DishRow(f)["count"] \in 0 .. Most(k, "count")
  <2>1. Most(k, "count") = Cardinality(Review)
    BY DEF Most
  <2> QED BY <1>1, <1>9, <2>1, SizesAre
<1> QED BY <1>9, <1>b, <1>c DEF Fits, Column

LEMMA RestaurantRowFits ==
  ASSUME NEW f, DOMAIN f = Dish, \A d \in Dish : Fits(f[d], d)
  PROVE  Fits(RestaurantRow(f), Restaurant)
<1> USE AggregatesAssumption
<1> DEFINE shown == {d \in Dish : f[d].rating > 0}
<1>1. PICK D : D = shown
  OBVIOUS
<1>2. D \in SUBSET Dish /\ IsFiniteSet(D) /\ IsFiniteSet(Dish) /\ Cardinality(D) \in Nat
  BY <1>1, AggregatesFinite, FS_Subset, FS_CardinalityType
<1>3. PICK v, n, o, p : /\ v = [d \in D |-> f[d]["rating"]] /\ n = [d \in Dish |-> f[d]["count"]]
                        /\ o = [d \in D |-> 1] /\ p = [d \in Dish |-> 1]
  OBVIOUS
<1>4. PICK m, R : m = 100 * Max(Score) /\ R = Cardinality(Review) /\ m \in Nat /\ R \in Nat
  BY SizesAre
<1>5. \A d \in Dish : f[d]["rating"] \in 0 .. m /\ f[d]["count"] \in 0 .. R
  BY <1>4 DEF Fits, Column, Most
<1>6. /\ v \in [D -> Nat] /\ n \in [Dish -> Nat] /\ o \in [D -> Nat] /\ p \in [Dish -> Nat]
      /\ \A d \in D : o[d] = 1 /\ v[d] <= m * o[d]
      /\ \A d \in Dish : p[d] = 1 /\ n[d] <= R * p[d]
  <2>1. m * 1 = m /\ R * 1 = R
    BY <1>4
  <2> QED BY <1>2, <1>3, <1>4, <1>5, <2>1
<1>7. /\ Total(v) \in Nat /\ Total(v) <= m * Total(o) /\ Total(o) = Cardinality(D)
  BY <1>2, <1>4, <1>6, TotalBound, TotalOnes
<1>8. /\ Total(n) \in Nat /\ Total(n) <= R * Total(p) /\ Total(p) = Cardinality(Dish)
  BY <1>2, <1>4, <1>6, TotalBound, TotalOnes
<1>9. RestaurantRow(f) = [rating |-> IF D = {} THEN 0 ELSE HalfUp(Total(v), Cardinality(D)),
                          count |-> Total(n)]
  <2>1. /\ (CHOOSE h : ColumnSums(h, f, D, "rating"))[D] = Total(v)
        /\ (CHOOSE h : ColumnSums(h, f, Dish, "count"))[Dish] = Total(n)
    <3>1. /\ DOMAIN v = D /\ \A d \in D : v[d] = f[d]["rating"]
          /\ DOMAIN n = Dish /\ \A d \in Dish : n[d] = f[d]["count"]
      BY <1>3
    <3> QED BY <3>1, ColumnTotal
  <2> QED BY <1>1, <2>1, RestaurantRowIs
<1>a. D # {} => HalfUp(Total(v), Cardinality(D)) \in 0 .. m
  <2>1. D # {} => Cardinality(D) # 0
    BY <1>2, FS_EmptySet
  <2> QED BY <1>2, <1>4, <1>7, <2>1, HalfUpBound
<1>b. RestaurantRow(f)["rating"] \in 0 .. Most(Restaurant, "rating")
  <2>1. Most(Restaurant, "rating") = m /\ 0 \in 0 .. m
    BY <1>4 DEF Most
  <2> QED BY <1>9, <1>a, <2>1
<1>c. RestaurantRow(f)["count"] \in 0 .. Most(Restaurant, "count")
  <2>1. Most(Restaurant, "count") = R * Cardinality(Dish) /\ R * Cardinality(Dish) \in Nat
    BY <1>4, SizesAre DEF Most
  <2> QED BY <1>8, <1>9, <2>1
<1> QED BY <1>9, <1>b, <1>c DEF Fits, Column

(* What the columns of a request are.                                       *)
BoundsAt(q) ==
  /\ \A k \in DOMAIN q.cache : Fits(q.cache[k], k)
  /\ \A k \in DOMAIN q.rows : \A col \in DOMAIN q.rows[k] : q.rows[k][col] \in 0 .. Most(k, col)
  /\ q.todo = <<>> => q.value = Zero
  /\ q.todo # <<>> => Fits(q.value, Head(q.todo))

Bounds ==
  /\ agg = [k \in Target |-> agg[k]]
  /\ \A k \in Target : Fits(agg[k], k)
  /\ drifted \subseteq Target \X Column /\ categorised \in BOOLEAN
  /\ \A c \in Client : BoundsAt(req[c])

TypesInv == LockInv /\ Bounds

LEMMA PutFits ==
  ASSUME NEW f, NEW k, NEW s, Fits(s, k), \A x \in DOMAIN f : Fits(f[x], x)
  PROVE  \A x \in DOMAIN Put(f, k, s) : Fits(Put(f, k, s)[x], x)
<1>1. PICK p : p = Put(f, k, s)
  OBVIOUS
<1>2. /\ DOMAIN p = DOMAIN f \cup {k} /\ p[k] = s
      /\ \A x \in DOMAIN f : x # k => p[x] = f[x]
  BY <1>1 DEF Put
<1>3. \A x \in DOMAIN p : Fits(p[x], x)
  BY <1>2
<1> QED BY <1>1, <1>3

LEMMA PutColumns ==
  ASSUME NEW f, NEW k, NEW s, \A col \in DOMAIN s : s[col] \in 0 .. Most(k, col),
         \A x \in DOMAIN f : \A col \in DOMAIN f[x] : f[x][col] \in 0 .. Most(x, col)
  PROVE  \A x \in DOMAIN Put(f, k, s) : \A col \in DOMAIN Put(f, k, s)[x] :
           Put(f, k, s)[x][col] \in 0 .. Most(x, col)
<1>1. PICK p : p = Put(f, k, s)
  OBVIOUS
<1>2. /\ DOMAIN p = DOMAIN f \cup {k} /\ p[k] = s
      /\ \A x \in DOMAIN f : x # k => p[x] = f[x]
  BY <1>1 DEF Put
<1>3. \A x \in DOMAIN p : \A col \in DOMAIN p[x] : p[x][col] \in 0 .. Most(x, col)
  <2>1. ASSUME NEW x \in DOMAIN p, NEW col \in DOMAIN p[x]
        PROVE  p[x][col] \in 0 .. Most(x, col)
    <3>1. CASE x = k
      BY <1>2, <3>1
    <3>2. CASE x # k
      <4>1. x \in DOMAIN f /\ p[x] = f[x]
        BY <1>2, <3>2
      <4> QED BY <4>1
    <3> QED BY <3>1, <3>2
  <2> QED BY <2>1
<1> QED BY <1>1, <1>3

LEMMA StoredFits ==
  ASSUME TypesInv, NEW c \in Client, NEW k \in Target
  PROVE  Fits(Stored(c, k), k)
<1>1. Fits(agg[k], k) /\ BoundsAt(req[c])
  BY DEF TypesInv, Bounds
<1>2. ASSUME NEW col \in Column
      PROVE  Stored(c, k)[col] \in 0 .. Most(k, col)
  <2>1. Stored(c, k)[col] = IF col \in Written(c, k) THEN req[c].rows[k][col] ELSE agg[k][col]
    BY DEF Stored
  <2>2. CASE col \in Written(c, k)
    <3>1. k \in DOMAIN req[c].rows /\ col \in DOMAIN req[c].rows[k]
      BY <2>2 DEF Written
    <3> QED BY <1>1, <2>1, <2>2, <3>1 DEF BoundsAt
  <2>3. CASE col \notin Written(c, k)
    BY <1>1, <2>1, <2>3 DEF Fits
  <2> QED BY <2>2, <2>3
<1>3. Stored(c, k) = [col \in Column |-> Stored(c, k)[col]]
  BY DEF Stored
<1> QED BY <1>2, <1>3 DEF Fits

LEMMA RowSeenFits ==
  ASSUME TypesInv, NEW c \in Client, NEW k \in Target
  PROVE  Fits(RowSeen(c, k), k)
<1>1. BoundsAt(req[c])
  BY DEF TypesInv, Bounds
<1>2. CASE k \in DOMAIN req[c].cache
  BY <1>1, <1>2 DEF RowSeen, BoundsAt
<1>3. CASE k \notin DOMAIN req[c].cache
  BY <1>3, StoredFits DEF RowSeen
<1> QED BY <1>2, <1>3

LEMMA ComputedFits ==
  ASSUME TypesInv, NEW c \in Client, NEW k \in Target
  PROVE  Fits(Computed(c, k), k)
<1> USE AggregatesAssumption
<1>1. CASE k = Restaurant
  <2>1. PICK f : f = [d \in Dish |-> IF d \in live THEN RowSeen(c, d) ELSE Zero]
    OBVIOUS
  <2>2. ASSUME NEW d \in Dish
        PROVE  Fits(f[d], d)
    <3>1. d \in Target
      BY DEF Target
    <3>2. Fits(RowSeen(c, d), d) /\ Fits(Zero, d)
      BY <3>1, RowSeenFits, ZeroFits
    <3>3. f[d] = RowSeen(c, d) \/ f[d] = Zero
      BY <2>1
    <3> QED BY <3>2, <3>3
  <2>3. Fits(RestaurantRow(f), Restaurant)
    BY <2>1, <2>2, RestaurantRowFits
  <2> QED BY <1>1, <2>1, <2>3 DEF Computed
<1>2. CASE k # Restaurant
  <2>1. PICK g, s : g = [r \in Review |-> DishSeen(c, r)] /\ s = [r \in Review |-> ScoreSeen(c, r)]
    OBVIOUS
  <2>2. ASSUME NEW r \in Review
        PROVE  s[r] \in 0 .. Max(Score)
    <3>1. Shape(req[c]) /\ References
      BY DEF TypesInv, LockInv, AllShaped
    <3>2. score[r] \in Score \cup {0}
      BY <3>1 DEF References
    <3>3. req[c].op \in {"create", "update"} => req[c].score \in Score
      BY <3>1 DEF Shape, Asked
    <3>4. s[r] \in Score \cup {0}
      BY <2>1, <3>2, <3>3 DEF ScoreSeen
    <3> QED BY <3>4, SizesAre
  <2>3. PICK R : R = {x \in Review : g[x] = k}
    OBVIOUS
  <2>4. ScoresIn(k, g, s) = [r \in R |-> s[r]]
    BY <2>3 DEF ScoresIn
  <2>5. R \in SUBSET Review /\ ScoresIn(k, g, s) \in [R -> 0 .. Max(Score)]
    BY <2>2, <2>3, <2>4
  <2>6. Fits(DishRow(ScoresIn(k, g, s)), k)
    BY <1>2, <2>5, DishRowFits
  <2> QED BY <1>2, <2>1, <2>6 DEF Computed
<1> QED BY <1>1, <1>2

(* Each statement keeps the columns of its request within their bounds.     *)
LEMMA LockBounds ==
  ASSUME TypesInv, NEW c \in Client,
         Classify(c) \/ Lock(c) \/ Unlink(c) \/ WriteReview(c) \/ WriteReviews(c)
  PROVE  BoundsAt(req'[c])
<1>1. AllShaped /\ BoundsAt(req[c])
  BY DEF TypesInv, LockInv, Bounds
<1>2. /\ req'[c].todo = req[c].todo /\ req'[c].cache = req[c].cache
      /\ req'[c].rows = req[c].rows /\ req'[c].value = req[c].value
  BY <1>1, LockStep, WriteStep
<1> QED BY <1>1, <1>2 DEF BoundsAt

LEMMA TodoTarget ==
  ASSUME TypesInv, NEW c \in Client, req[c].pc \in Recomputing
  PROVE  req[c].todo # <<>> /\ Current(c) \in Target /\ Current(c) = Head(req[c].todo)
<1>1. Shape(req[c])
  BY DEF TypesInv, LockInv, AllShaped
<1>2. req[c].todo # <<>>
  BY <1>1 DEF Shape, Placed, Recomputing, OneReview
<1> QED BY <1>1, <1>2, TodoShape DEF Current

LEMMA ComputeBounds ==
  ASSUME TypesInv, NEW c \in Client, Rate(c) \/ Count(c)
  PROVE  BoundsAt(req'[c])
<1>1. AllShaped /\ BoundsAt(req[c])
  BY DEF TypesInv, LockInv, Bounds
<1>2. PICK k : k = Current(c)
  OBVIOUS
<1>3. req[c].todo # <<>> /\ k \in Target /\ k = Head(req[c].todo)
  <2>1. req[c].pc \in Recomputing
    BY DEF Rate, Count, At, Recomputing
  <2> QED BY <1>2, <2>1, TodoTarget
<1>4. /\ req'[c].todo = req[c].todo /\ req'[c].cache = req[c].cache
      /\ req'[c].rows = req[c].rows
  BY <1>1, ComputeStep
<1>5. PICK col \in Column : req'[c].value = [req[c].value EXCEPT ![col] = Computed(c, k)[col]]
  BY <1>1, <1>2, ComputeStep
<1>6. Fits(Computed(c, k), k) /\ Fits(req[c].value, k)
  BY <1>1, <1>3, ComputedFits DEF BoundsAt
<1>7. Fits(req'[c].value, k)
  <2>1. PICK u, v, w : u = req[c].value /\ v = req'[c].value /\ w = Computed(c, k)
    OBVIOUS
  <2>2. v = [u EXCEPT ![col] = w[col]] /\ Fits(u, k) /\ Fits(w, k)
    BY <1>5, <1>6, <2>1
  <2>3. v = [x \in Column |-> IF x = col THEN w[col] ELSE u[x]]
    BY <2>2 DEF Fits
  <2>4. Fits(v, k)
    BY <2>2, <2>3 DEF Fits
  <2> QED BY <2>1, <2>4
<1> QED BY <1>1, <1>3, <1>4, <1>7 DEF BoundsAt

LEMMA LoadBounds ==
  ASSUME TypesInv, NEW c \in Client, Load(c)
  PROVE  BoundsAt(req'[c])
<1>1. AllShaped /\ BoundsAt(req[c])
  BY DEF TypesInv, LockInv, Bounds
<1>2. PICK k : k = Current(c)
  OBVIOUS
<1>3. req[c].todo # <<>> /\ k \in Target /\ k = Head(req[c].todo)
  <2>1. req[c].pc \in Recomputing
    BY DEF Load, At, Recomputing
  <2> QED BY <1>2, <2>1, TodoTarget
<1>4. req'[c].rows = req[c].rows
  BY <1>1, LoadStep
<1>5. \/ /\ req'[c].value = Zero /\ req'[c].cache = req[c].cache
      \/ /\ req'[c].todo = req[c].todo /\ req'[c].value = req[c].value
         /\ req'[c].cache = req[c].cache
      \/ /\ req'[c].todo = req[c].todo /\ req'[c].value = req[c].value
         /\ req'[c].cache = Put(req[c].cache, k, Stored(c, k))
  BY <1>1, <1>2, LoadStep
<1>6. \A x \in DOMAIN Put(req[c].cache, k, Stored(c, k)) :
        Fits(Put(req[c].cache, k, Stored(c, k))[x], x)
  <2>1. PICK f, s : f = req[c].cache /\ s = Stored(c, k)
    OBVIOUS
  <2>2. Fits(s, k) /\ \A x \in DOMAIN f : Fits(f[x], x)
    BY <1>1, <1>3, <2>1, StoredFits DEF BoundsAt
  <2>3. \A x \in DOMAIN Put(f, k, s) : Fits(Put(f, k, s)[x], x)
    BY <2>2, PutFits
  <2> QED BY <2>1, <2>3
<1>7. Fits(Zero, Head(req'[c].todo))
  BY ZeroFits
<1> QED BY <1>1, <1>3, <1>4, <1>5, <1>6, <1>7 DEF BoundsAt

LEMMA StoreBounds ==
  ASSUME TypesInv, NEW c \in Client, Store(c)
  PROVE  BoundsAt(req'[c])
<1>1. AllShaped /\ BoundsAt(req[c])
  BY DEF TypesInv, LockInv, Bounds
<1>2. PICK k : k = Current(c)
  OBVIOUS
<1>3. req[c].todo # <<>> /\ k \in Target /\ k = Head(req[c].todo)
  <2>1. req[c].pc \in Recomputing
    BY DEF Store, At, Recomputing
  <2> QED BY <1>2, <2>1, TodoTarget
<1>4. PICK f, g, v, C : /\ f = req[c].cache /\ g = req[c].rows /\ v = req[c].value
                        /\ C = Changes(c)
  OBVIOUS
<1>5. /\ req'[c].value = Zero
      /\ req'[c].rows = IF C = {} THEN g ELSE Put(g, k, [col \in C |-> v[col]])
      /\ req'[c].cache = IF k \in req[c].held THEN [f EXCEPT ![k] = v]
                         ELSE [h \in DOMAIN f \ {k} |-> f[h]]
  BY <1>1, <1>2, <1>4, StoreStep
<1>6. Fits(v, k) /\ C \subseteq Column /\ \A x \in DOMAIN f : Fits(f[x], x)
  BY <1>1, <1>3, <1>4 DEF BoundsAt, Changes
<1>7. \A x \in DOMAIN g : \A col \in DOMAIN g[x] : g[x][col] \in 0 .. Most(x, col)
  BY <1>1, <1>4 DEF BoundsAt
<1>8. \A x \in DOMAIN req'[c].cache : Fits(req'[c].cache[x], x)
  BY <1>5, <1>6
<1>9. \A x \in DOMAIN req'[c].rows : \A col \in DOMAIN req'[c].rows[x] :
        req'[c].rows[x][col] \in 0 .. Most(x, col)
  <2>1. PICK u : u = [col \in C |-> v[col]]
    OBVIOUS
  <2>2. \A col \in DOMAIN u : u[col] \in 0 .. Most(k, col)
    BY <1>6, <2>1 DEF Fits
  <2>3. \A x \in DOMAIN Put(g, k, u) : \A col \in DOMAIN Put(g, k, u)[x] :
          Put(g, k, u)[x][col] \in 0 .. Most(x, col)
    BY <1>7, <2>2, PutColumns
  <2> QED BY <1>5, <1>7, <2>1, <2>3
<1>10. Fits(Zero, Head(req'[c].todo))
  BY ZeroFits
<1> QED BY <1>5, <1>8, <1>9, <1>10 DEF BoundsAt

LEMMA FindBounds ==
  ASSUME TypesInv, NEW c \in Client, Find(c)
  PROVE  BoundsAt(req'[c])
<1>1. AllShaped /\ BoundsAt(req[c]) /\ References
  BY DEF TypesInv, LockInv, Bounds
<1>2. PICK k, f, s : k = req[c].to /\ f = req[c].cache /\ s = RowSeen(c, k)
  OBVIOUS
<1>3. k \in Target
  BY <1>1, <1>2, FindStep DEF References, Target
<1>4. /\ req'[c].todo = req[c].todo /\ req'[c].value = req[c].value
      /\ req'[c].rows = req[c].rows /\ req'[c].cache = Put(f, k, s)
  BY <1>1, <1>2, FindStep
<1>5. Fits(s, k) /\ \A x \in DOMAIN f : Fits(f[x], x)
  BY <1>1, <1>2, <1>3, RowSeenFits DEF BoundsAt
<1>6. \A x \in DOMAIN Put(f, k, s) : Fits(Put(f, k, s)[x], x)
  BY <1>5, PutFits
<1> QED BY <1>1, <1>4, <1>6 DEF BoundsAt

LEMMA StepBounds ==
  ASSUME TypesInv, NEW c \in Client, Steps(c)
  PROVE  BoundsAt(req'[c])
BY LockBounds, ComputeBounds, LoadBounds, StoreBounds, FindBounds DEF Steps

LEMMA IdleBounds == BoundsAt(Idle)
BY DEF BoundsAt, Idle

LEMMA BeginBounds ==
  ASSUME TypesInv, NEW c \in Client, Begins(c)
  PROVE  BoundsAt(req'[c])
<1>1. Begun(c) /\ Shape(req'[c])
  BY BeginsShape DEF TypesInv, LockInv
<1>2. /\ req'[c].cache = [k \in req'[c].held |-> agg[k]] /\ req'[c].rows = <<>>
      /\ req'[c].value = Zero
  BY <1>1 DEF Begun
<1>3. req'[c].held \subseteq Target
  <2>1. DOMAIN req'[c].cache \subseteq Target /\ req'[c].held \subseteq DOMAIN req'[c].cache
    BY <1>1 DEF Shape, Typed
  <2> QED BY <2>1
<1>4. \A k \in DOMAIN req'[c].cache : Fits(req'[c].cache[k], k)
  BY <1>2, <1>3 DEF TypesInv, Bounds
<1>5. Fits(Zero, Head(req'[c].todo)) /\ DOMAIN req'[c].rows = {}
  BY <1>2, ZeroFits
<1> QED BY <1>2, <1>4, <1>5 DEF BoundsAt

LEMMA CommitWrites ==
  ASSUME LockInv, NEW c \in Client, Commit(c)
  PROVE  /\ agg' = RowAfter(c)
         /\ drifted' = ((drifted \ (Recomputed(c) \X Column)) \cup Wrong(c)
                           \cup (Neglected(c) \X Column)) \cap (Kept(c) \X Column)
BY Zenon DEF Commit

LEMMA CommitBounds ==
  ASSUME TypesInv, NEW c \in Client, Commit(c)
  PROVE  Bounds'
<1>1. AllShaped /\ Bounds /\ drifted \subseteq Target \X Column
  BY DEF TypesInv, LockInv, Bounds
<1>2. agg' = [k \in Target |-> agg'[k]] /\ \A k \in Target : Fits(agg'[k], k)
  <2>1. agg' = RowAfter(c)
    BY CommitWrites DEF TypesInv
  <2>2. ASSUME NEW k \in Target
        PROVE  Fits(agg'[k], k)
    <3>1. agg'[k] = IF k \in Kept(c) THEN Stored(c, k) ELSE Zero
      BY <2>1 DEF RowAfter
    <3>2. Fits(Stored(c, k), k) /\ Fits(Zero, k)
      BY StoredFits, ZeroFits
    <3> QED BY <3>1, <3>2
  <2>3. agg' = [k \in Target |-> agg'[k]]
    BY <2>1 DEF RowAfter
  <2> QED BY <2>2, <2>3
<1>3. drifted' \subseteq Target \X Column
  <2>1. Kept(c) \subseteq Target
    BY DEF Kept, Target, TypesInv, LockInv, References
  <2>2. drifted' = ((drifted \ (Recomputed(c) \X Column)) \cup Wrong(c)
                       \cup (Neglected(c) \X Column)) \cap (Kept(c) \X Column)
    BY CommitWrites DEF TypesInv
  <2> QED BY <2>1, <2>2
<1>4. categorised' \in BOOLEAN
  <2>1. categorised' = (categorised \/ Restaurant \in req[c].locked)
    BY Zenon DEF Commit
  <2> QED BY <2>1, Zenon
<1>5. ASSUME NEW e \in Client
      PROVE  BoundsAt(req'[e])
  <2>1. CASE e = c
    <3>1. req'[e] = Idle
      BY <1>1, <2>1, CommitOthers
    <3> QED BY <3>1, IdleBounds
  <2>2. CASE e # c
    <3>1. /\ req'[e].cache = req[e].cache /\ req'[e].rows = req[e].rows
          /\ req'[e].todo = req[e].todo /\ req'[e].value = req[e].value
      BY <1>1, <2>2, CommitOthers
    <3>2. BoundsAt(req[e])
      BY <1>1 DEF Bounds
    <3> QED BY <3>1, <3>2 DEF BoundsAt
  <2> QED BY <2>1, <2>2
<1> QED BY <1>2, <1>3, <1>4, <1>5 DEF Bounds

LEMMA TypesInit ==
  ASSUME Init
  PROVE  TypesInv
<1> USE AggregatesAssumption
<1>1. PICK f : f = [d \in Dish |-> DishRow(ScoresIn(d, dishOf, score))]
  OBVIOUS
<1>2. agg = [k \in Target |-> IF k = Restaurant THEN RestaurantRow(f) ELSE f[k]]
  BY <1>1 DEF Init
<1>3. ASSUME NEW d \in Dish
      PROVE  Fits(f[d], d)
  <2>1. PICK R : R = {x \in Review : dishOf[x] = d}
    OBVIOUS
  <2>2. ScoresIn(d, dishOf, score) = [r \in R |-> score[r]]
    BY <2>1 DEF ScoresIn
  <2>3. \A r \in R : score[r] \in 0 .. Max(Score)
    BY <2>1, SizesAre DEF Init
  <2>4. R \in SUBSET Review /\ ScoresIn(d, dishOf, score) \in [R -> 0 .. Max(Score)]
    BY <2>1, <2>2, <2>3
  <2>5. d # Restaurant
    OBVIOUS
  <2>6. Fits(DishRow(ScoresIn(d, dishOf, score)), d)
    BY <2>4, <2>5, DishRowFits
  <2> QED BY <1>1, <2>6
<1>4. Fits(RestaurantRow(f), Restaurant)
  BY <1>1, <1>3, RestaurantRowFits
<1>5. \A k \in Target : Fits(agg[k], k)
  BY <1>2, <1>3, <1>4 DEF Target
<1>6. \A c \in Client : req[c] = Idle
  BY DEF Init
<1>7. Bounds
  <2>1. agg = [k \in Target |-> agg[k]] /\ drifted = {} /\ categorised \in BOOLEAN
    BY <1>2 DEF Init
  <2> QED BY <1>5, <1>6, <2>1, IdleBounds DEF Bounds
<1> QED BY <1>7, LockInvInit DEF TypesInv

LEMMA SameBounds ==
  ASSUME Bounds, agg' = agg, drifted' = drifted, categorised' = categorised,
         \A c \in Client : BoundsAt(req'[c])
  PROVE  Bounds'
BY DEF Bounds

LEMMA TypesNext ==
  ASSUME TypesInv, [Next]_vars
  PROVE  TypesInv'
<1>1. LockInv /\ Bounds /\ AllShaped
  BY DEF TypesInv, LockInv
<1>2. LockInv'
  BY <1>1, LockInvNext
<1>3. ASSUME NEW c \in Client, UNCHANGED data, BoundsAt(req'[c]),
             \A e \in Client : e # c => req'[e] = req[e]
      PROVE  Bounds'
  <2>1. agg' = agg /\ drifted' = drifted /\ categorised' = categorised
    BY <1>3 DEF data
  <2>2. \A e \in Client : BoundsAt(req'[e])
    BY <1>1, <1>3 DEF Bounds
  <2> QED BY <1>1, <2>1, <2>2, SameBounds
<1>4. CASE UNCHANGED vars
  <2>1. agg' = agg /\ drifted' = drifted /\ categorised' = categorised
    BY <1>4 DEF vars
  <2>2. \A c \in Client : BoundsAt(req'[c])
    <3>1. req' = req
      BY <1>4 DEF vars
    <3> QED BY <1>1, <3>1 DEF Bounds
  <2>3. Bounds'
    BY <1>1, <2>1, <2>2, SameBounds
  <2> QED BY <1>2, <2>3 DEF TypesInv
<1>5. ASSUME NEW c \in Client, Begins(c)
      PROVE  Bounds'
  <2>1. Begun(c) /\ BoundsAt(req'[c])
    BY <1>1, <1>5, BeginsShape, BeginBounds DEF LockInv
  <2>2. UNCHANGED data /\ \A e \in Client : e # c => req'[e] = req[e]
    BY <1>1, <2>1 DEF Begun, AllShaped
  <2> QED BY <1>3, <2>1, <2>2
<1>6. ASSUME NEW c \in Client, Steps(c)
      PROVE  Bounds'
  <2>1. UNCHANGED data /\ req' = [req EXCEPT ![c] = req'[c]]
    BY <1>1, <1>6, StepAlone
  <2>2. \A e \in Client : e # c => req'[e] = req[e]
    BY <1>1, <2>1 DEF AllShaped
  <2>3. BoundsAt(req'[c])
    BY <1>6, StepBounds
  <2> QED BY <1>3, <2>1, <2>2, <2>3
<1>7. ASSUME NEW c \in Client, Abort(c)
      PROVE  Bounds'
  <2>1. /\ UNCHANGED data /\ req'[c] = Idle
        /\ \A e \in Client : e # c => req'[e] = req[e]
    BY <1>1, <1>7 DEF Abort, AllShaped
  <2> QED BY <1>3, <2>1, IdleBounds
<1>8. ASSUME NEW d \in Dish, CreateDish(d)
      PROVE  Bounds'
  BY <1>1, <1>8 DEF CreateDish, Bounds
<1>9. ASSUME NEW c \in Client, Commit(c)
      PROVE  Bounds'
  BY <1>9, CommitBounds
<1> QED BY <1>2, <1>4, <1>5, <1>6, <1>7, <1>8, <1>9, StepCases DEF TypesInv

LEMMA TypesOf ==
  ASSUME TypesInv
  PROVE  AggregatesTypeOK
<1>1. References /\ AllShaped /\ Bounds
  BY DEF TypesInv, LockInv
<1>2. agg \in [Target -> Row]
  <2>1. DOMAIN agg = Target /\ agg = [k \in Target |-> agg[k]]
    BY <1>1 DEF References, Bounds
  <2>2. \A k \in Target : agg[k] \in Row
    BY <1>1, FitsRow DEF Bounds
  <2> QED BY <2>1, <2>2
<1>3. ASSUME NEW c \in Client
      PROVE  /\ req[c].op \in Op /\ req[c].pc \in PC
             /\ req[c].review \in Review \cup {NoReview}
             /\ {req[c].from, req[c].to} \subseteq Dish \cup {NoDish}
             /\ req[c].locked \subseteq Target /\ req[c].value \in Row
             /\ DOMAIN req[c].cache \subseteq Target
             /\ \A k \in DOMAIN req[c].rows :
                  k \in Target /\ DOMAIN req[c].rows[k] \subseteq Column
  <2>1. PICK q : q = req[c]
    OBVIOUS
  <2>2. Shape(q) /\ BoundsAt(q)
    BY <1>1, <2>1 DEF AllShaped, Bounds
  <2>3. /\ q.op \in Op /\ q.pc \in PC /\ q.locked \subseteq Target
        /\ DOMAIN q.cache \subseteq Target /\ DOMAIN q.rows \subseteq Aims(q)
        /\ \A k \in DOMAIN q.rows : DOMAIN q.rows[k] \subseteq Column
    BY <2>2 DEF Shape, Typed
  <2>4. /\ q.review \in Review \cup {NoReview}
        /\ q.from \in Dish \cup {NoDish} /\ q.to \in Dish \cup {NoDish}
    <3>1. q.op = "none" => q.review = NoReview /\ q.from = NoDish /\ q.to = NoDish
      BY <2>2 DEF Shape, Asked, Idle
    <3> QED BY <2>2, <2>3, <3>1 DEF Shape, Asked, Op
  <2>5. Aims(q) \subseteq Target
    BY <2>2, <2>3, <2>4 DEF Aims, Target, OneReview, Shape, Asked
  <2>6. q.value \in Row
    <3>1. CASE q.todo = <<>>
      <4>1. Fits(Zero, Restaurant) /\ Restaurant \in Target
        BY ZeroFits DEF Target
      <4> QED BY <2>2, <3>1, <4>1, FitsRow DEF BoundsAt
    <3>2. CASE q.todo # <<>>
      <4>1. Head(q.todo) \in Target
        BY <2>2, <3>2, TodoShape
      <4> QED BY <2>2, <3>2, <4>1, FitsRow DEF BoundsAt
    <3> QED BY <3>1, <3>2
  <2>7. DOMAIN q.rows \subseteq Target
    BY <2>3, <2>5
  <2> QED BY <2>1, <2>3, <2>4, <2>6, <2>7
<1> QED BY <1>1, <1>2, <1>3 DEF AggregatesTypeOK, References, Bounds

(* Every column of every dish and of the restaurant stays within what the   *)
(* formulas can give: a rating never exceeds the highest score, and a count *)
(* the number of reviews (of a dish) or that number for each dish (of the   *)
(* restaurant), whatever a request has computed from objects that are out   *)
(* of date; and every request is about reviews and dishes of the database.  *)
THEOREM AggregatesTyped == Spec => []AggregatesTypeOK
<1>1. Init => TypesInv
  BY TypesInit
<1>2. TypesInv /\ [Next]_vars => TypesInv'
  BY TypesNext
<1>3. TypesInv => AggregatesTypeOK
  BY TypesOf
<1> QED BY <1>1, <1>2, <1>3, PTL DEF Spec

==============================================================================
