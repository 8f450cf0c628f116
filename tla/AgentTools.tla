------------------------------ MODULE AgentTools -------------------------------
(***************************************************************************)
(* The tools one chat turn calls, one after the other, in one session       *)
(* (app/services/chat/tools), while others edit plates, merge restaurants,  *)
(* declare allergies and block people.  Some of a diner's tools leave out   *)
(* what names an allergen, two of them what a blocked author wrote; an      *)
(* owner's tools must stay within the owner's restaurant.                   *)
(*                                                                          *)
(* The session serves READ COMMITTED statements through its identity map:   *)
(* WHERE sees the newest rows, but a row loaded earlier and not yet         *)
(* collected keeps the attributes it was loaded with.                       *)
(***************************************************************************)
EXTENDS FiniteSets

CONSTANTS
  Plate,  \* dishes
  House,  \* restaurants
  Mine,   \* the restaurant the owner's conversation is about
  Gone    \* the place of a dish that was deleted, the text of one not loaded

ASSUME AgentToolsAssumption == Mine \in House /\ Gone \notin House

VARIABLES
  home,     \* the restaurant of each plate
  risky,    \* plates whose name or description has an allergen
  allergic, \* has the diner declared that allergen
  barred,   \* has the diner blocked the author of the reviews
  shelf,    \* the plates the session holds, as it loaded them
  crossed,  \* history: plates that changed since the session loaded them
  call      \* the tool that runs

toolVars == <<home, risky, allergic, barred, shelf, crossed, call>>
world == <<home, risky, allergic, barred>>

Absent == [home |-> Gone, risky |-> FALSE]

(* What a call holds: plates it will name, plates of competitors, whether   *)
(* it shows a review, its argument; and, histories, whether the allergy and *)
(* the block were there all along, and which plates moved meanwhile.        *)
NoCall == [tool |-> "none", owner |-> FALSE, pc |-> "none", plates |-> {}, peers |-> {},
           asked |-> {}, shows |-> FALSE, steady |-> FALSE, shut |-> FALSE, moved |-> {}]

Guarded == {"search", "recommend", "compare"}
DinerTool == Guarded \cup {"detail", "reviews", "surprise"}
OwnerTool == {"search", "detail", "rank", "analyze", "benchmark", "baseline"}

ToolsTypeOK ==
  /\ home \in [Plate -> House \cup {Gone}] /\ risky \subseteq Plate
  /\ {allergic, barred, call.owner, call.shows, call.steady, call.shut} \subseteq BOOLEAN
  /\ shelf \in [Plate -> [home : House \cup {Gone}, risky : BOOLEAN]]
  /\ crossed \subseteq {p \in Plate : shelf[p] # Absent}
  /\ call.tool \in {"none"} \cup DinerTool \cup OwnerTool
  /\ call.pc \in {"none", "start", "more", "allergies", "excluded", "peers", "guide", "answer"}
  /\ call.plates \subseteq Plate /\ call.peers \subseteq Plate /\ call.asked \subseteq Plate
  /\ call.moved \subseteq Plate

ToolsInit ==
  /\ home \in [Plate -> House] /\ risky = {} /\ allergic = FALSE /\ barred = FALSE
  /\ shelf = [p \in Plate |-> Absent] /\ crossed = {} /\ call = NoCall

Running(tool, pc) == call.tool = tool /\ call.pc = pc
There == {p \in Plate : home[p] # Gone}
Owned == {p \in Plate : home[p] = Mine}
InReach == IF call.owner THEN Owned ELSE There

(* The rows of a statement join the session; one it holds stays as it was.  *)
Load(rows) ==
  shelf' = [p \in Plate |-> IF p \in rows /\ shelf[p] = Absent
                            THEN [home |-> home[p], risky |-> p \in risky] ELSE shelf[p]]

Goes(pc) == call' = [call EXCEPT !.pc = pc]
Names(pc, rows) == call' = [call EXCEPT !.pc = pc, !.plates = rows]
Shows(rows, shown) == call' = [call EXCEPT !.pc = "answer", !.plates = rows, !.shows = shown]

Begin(tool, ids, owner) ==
  /\ call.pc = "none"
  /\ call' = [NoCall EXCEPT !.tool = tool, !.owner = owner, !.pc = "start", !.asked = ids,
                            !.steady = allergic, !.shut = barred]
  /\ UNCHANGED <<world, shelf, crossed>>

(* search_dishes, and identify_dish_from_photo over the same kernel: the    *)
(* best rows first, the allergies after; the owner's is pinned.             *)
Search(rows) ==
  /\ Running("search", "start") /\ rows \subseteq InReach
  /\ Load(rows) /\ Names("allergies", rows)
  /\ UNCHANGED <<world, crossed>>

(* recommend_dishes loads the plates it is given that are still there.      *)
RecommendDishes ==
  /\ Running("recommend", "start")
  /\ LET rows == call.asked \cap There IN
       /\ Load(rows)
       /\ Names(IF rows = {} THEN "answer" ELSE "allergies", rows)
  /\ UNCHANGED <<world, crossed>>

(* compare_dishes resolves them one by one.                                 *)
CompareOne(p) ==
  /\ Running("compare", "start") /\ p \in call.asked \cap There
  /\ Load({p})
  /\ call' = [call EXCEPT !.pc = IF call.asked = {p} THEN "allergies" ELSE "start",
                          !.asked = @ \ {p}, !.plates = @ \cup {p}]
  /\ UNCHANGED <<world, crossed>>

(* _resolve_dish_global finds no plate or several, and the tool returns its *)
(* guidance: the candidates (an owner also gets a peek at the menu), and of *)
(* compare_dishes those resolved so far.  Nothing filters them.             *)
Resolving == {"compare", "detail", "analyze", "benchmark"}

AskBack(rows) ==
  /\ call.tool \in Resolving /\ call.pc = "start"
  /\ rows \subseteq InReach /\ (call.owner \/ Cardinality(rows) # 1)
  /\ Load(rows) /\ Names("guide", call.plates \cup rows)
  /\ UNCHANGED <<world, crossed>>

(* filter_dishes_by_allergies, over the text the session holds.             *)
Unsafe(rows) == {p \in rows : shelf[p].risky}

Safe(rows) == IF allergic THEN rows \ Unsafe(rows) ELSE rows

(* get_user_allergies selects a column, so it is read from the database.  A *)
(* comparison counts the pros and cons of a plate's reviews, whoever wrote  *)
(* them.                                                                    *)
ReadAllergies ==
  /\ call.pc = "allergies"
  /\ Shows(Safe(call.plates), call.tool = "compare" /\ Safe(call.plates) # {})
  /\ UNCHANGED <<world, shelf, crossed>>

(* surprise_me leaves categories out, and reads no text of a dish.          *)
Surprise(p) ==
  /\ Running("surprise", "start") /\ p \in There
  /\ Load({p}) /\ Names("answer", {p})
  /\ UNCHANGED <<world, crossed>>

(* get_dish_detail resolves the plate (the owner's, within the restaurant), *)
(* loads it again with its reviews, and then reads whom the diner excludes; *)
(* the owner excludes nobody.                                               *)
ResolveOne(p) ==
  /\ call.tool \in Resolving \ {"compare"} /\ call.pc = "start"
  /\ p \in call.asked \cap InReach
  /\ Load({p}) /\ Goes("more")
  /\ UNCHANGED <<world, crossed>>

Detail(p) ==
  /\ Running("detail", "more") /\ p \in call.asked
  /\ Load({p} \cap There)
  /\ \/ p \notin There /\ Goes("answer")
     \/ p \in There /\ call.owner /\ Shows({p}, TRUE)
     \/ p \in There /\ ~call.owner /\ Names("excluded", {p})
  /\ UNCHANGED <<world, crossed>>

ReadExcluded ==
  /\ Running("detail", "excluded")
  /\ Shows(call.plates, ~barred)
  /\ UNCHANGED <<world, shelf, crossed>>

(* list_restaurant_reviews finds the restaurant, then leaves the excluded   *)
(* authors out in the statement that reads the reviews.                     *)
ListRestaurantReviews(h) ==
  /\ Running("reviews", "start")
  /\ LET rows == {p \in Plate : home[p] = h} IN
       /\ Load(rows)
       /\ Shows(rows, rows # {} /\ ~barred)
  /\ UNCHANGED <<world, crossed>>

(* rank_my_dishes, list_reviews and suggest_review_response are one         *)
(* statement, pinned to the restaurant.                                     *)
RankMyDishes ==
  /\ Running("rank", "start")
  /\ Load(Owned) /\ Names("answer", Owned)
  /\ UNCHANGED <<world, crossed>>

(* analyze_dish_pillar_drop goes on with the id alone.                      *)
Analyze ==
  /\ Running("analyze", "more")
  /\ Names("answer", call.asked)
  /\ UNCHANGED <<world, shelf, crossed>>

(* benchmark_dish loads the plate again, without the pin; one that is gone  *)
(* fails the call.                                                          *)
Benchmark ==
  /\ Running("benchmark", "more")
  /\ Load(call.asked \cap There)
  /\ Goes(IF call.asked \subseteq There THEN "peers" ELSE "answer")
  /\ UNCHANGED <<world, crossed>>

(* Mutant of Rivals: everybody else's plates, and the restaurant's others.  *)
RivalsOfPlate(p) == There \ {p}

Rivals(p) == {q \in There : home[q] # shelf[p].home}

BenchmarkPeers(p) ==
  /\ Running("benchmark", "peers") /\ call.asked = {p}
  /\ Load(Rivals(p)) /\ call' = [call EXCEPT !.pc = "answer", !.plates = {p}, !.peers = Rivals(p)]
  /\ UNCHANGED <<world, crossed>>

(* compare_to_baseline adds up the restaurant, then each of the others.     *)
BaselineOwn ==
  /\ Running("baseline", "start")
  /\ Names("peers", Owned)
  /\ UNCHANGED <<world, shelf, crossed>>

BaselinePeers ==
  /\ Running("baseline", "peers")
  /\ call' = [call EXCEPT !.pc = "answer", !.peers = There \ Owned]
  /\ UNCHANGED <<world, shelf, crossed>>

Return ==
  /\ call.pc \in {"guide", "answer"} /\ call' = NoCall
  /\ UNCHANGED <<world, shelf, crossed>>

(* Rows nobody refers to leave the session, and all of them when it ends.   *)
ForgetRows(rows) ==
  /\ call.pc = "none" /\ rows # {} /\ \A p \in rows : shelf[p] # Absent
  /\ shelf' = [p \in Plate |-> IF p \in rows THEN Absent ELSE shelf[p]]
  /\ crossed' = crossed \ rows
  /\ UNCHANGED <<world, call>>

(* Another request commits: it renames a plate, moves or deletes it,        *)
(* changes the diner's allergies or blocks.                                 *)
TouchPlate(p) ==
  /\ crossed' = IF shelf[p] = Absent THEN crossed ELSE crossed \cup {p}
  /\ UNCHANGED <<allergic, barred, shelf>>

EditText(p) ==
  /\ p \in There /\ TouchPlate(p)
  /\ risky' = IF p \in risky THEN risky \ {p} ELSE risky \cup {p}
  /\ UNCHANGED <<home, call>>

MovePlate(p, h) ==
  /\ p \in There /\ h # home[p] /\ TouchPlate(p)
  /\ home' = [home EXCEPT ![p] = h]
  /\ call' = IF call.pc = "none" THEN call ELSE [call EXCEPT !.moved = @ \cup {p}]
  /\ UNCHANGED risky

SetAllergy ==
  /\ allergic' = ~allergic /\ call' = [call EXCEPT !.steady = FALSE]
  /\ UNCHANGED <<home, risky, barred, shelf, crossed>>

SetBlock ==
  /\ barred' = ~barred /\ call' = [call EXCEPT !.shut = FALSE]
  /\ UNCHANGED <<home, risky, allergic, shelf, crossed>>

DinerNext ==
  \/ \E tool \in DinerTool, ids \in SUBSET Plate :
       /\ Cardinality(ids) = CASE tool = "compare" -> 2 [] tool \in {"recommend", "detail"} -> 1
                               [] OTHER -> 0
       /\ Begin(tool, ids, FALSE)
  \/ \E rows \in SUBSET Plate : Search(rows) \/ AskBack(rows) \/ ForgetRows(rows)
  \/ \E p \in Plate :
       \/ CompareOne(p) \/ Surprise(p) \/ ResolveOne(p) \/ Detail(p)
       \/ EditText(p) \/ MovePlate(p, Gone)
  \/ \E h \in House : ListRestaurantReviews(h)
  \/ RecommendDishes \/ ReadAllergies \/ ReadExcluded \/ Return \/ SetAllergy \/ SetBlock

OwnerNext ==
  \/ \E tool \in OwnerTool :
       \/ tool \in {"detail", "analyze", "benchmark"} /\ \E p \in Plate : Begin(tool, {p}, TRUE)
       \/ tool \in {"search", "rank", "baseline"} /\ Begin(tool, {}, TRUE)
  \/ \E rows \in SUBSET Plate : Search(rows) \/ AskBack(rows) \/ ForgetRows(rows)
  \/ \E p \in Plate :
       \/ ResolveOne(p) \/ Detail(p) \/ BenchmarkPeers(p)
       \/ \E h \in House \cup {Gone} : MovePlate(p, h)
  \/ RankMyDishes \/ Analyze \/ Benchmark \/ BaselineOwn \/ BaselinePeers
  \/ ReadAllergies \/ Return

(***************************************************************************)
(* Properties                                                              *)
(***************************************************************************)
(* What search_dishes, recommend_dishes and compare_dishes answer with      *)
(* names no plate whose text has an allergen declared before the call,      *)
(* unless the text was edited after the session loaded it.  Guidance is not *)
(* an answer: it is given before the allergies are read.                    *)
AllergensLeftOut ==
  call.tool \in Guarded /\ call.steady => call.plates \cap risky \subseteq crossed

(* get_dish_detail and list_restaurant_reviews show no review of an author  *)
(* who was blocked before the call.  compare_dishes counts such a review's  *)
(* pros and cons.                                                           *)
BlockedUnheard == call.tool \in {"detail", "reviews"} /\ call.shut => ~call.shows

(* An owner is told of own plates, and of others as competitors, but for a  *)
(* restaurant that was merged meanwhile, or since the session loaded the    *)
(* plate that is benchmarked.                                               *)
WithinScope ==
  /\ \A p \in call.plates : home[p] = Mine \/ p \in call.moved
  /\ \A q \in call.peers : home[q] # Mine \/ q \in call.moved \/ call.plates \cap crossed # {}

(* What is answered, at the moment it is answered; guidance keeps the scope *)
(* alone.                                                                   *)
Comes(pc) == call.pc # pc /\ call'.pc = pc

AnswersHold ==
  [][/\ Comes("answer") => AllergensLeftOut' /\ BlockedUnheard'
     /\ Comes("answer") \/ Comes("guide") => (call.owner => WithinScope')]_toolVars

(* Claimed at _allergy_filter.py:10: compare_dishes consults the filter     *)
(* before its output is serialised, so that no dish that names an allergen  *)
(* is in it, be it guidance.                                                *)
GuidanceIsFiltered ==
  [][Comes("guide") /\ call.tool = "compare" => AllergensLeftOut']_toolVars
===============================================================================
