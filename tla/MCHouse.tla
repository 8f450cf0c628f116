------------------------------- MODULE MCHouse -------------------------------
(***************************************************************************)
(* The sommelier and what is kept about restaurants, in one instance, as    *)
(* the disjoint sum of the parts (see MCCommunity).                         *)
(***************************************************************************)
EXTENDS ChatTurn, AgentTools, SommelierRecall, Catalog, Categories, Enrichment,
        OwnerDesk, Discovery, ReviewSignals

VARIABLE part  \* the one this behaviour is about

houseVars ==
  <<part, chatVars, toolVars, recallVars, catalogVars, categoryVars, enrichmentVars,
    deskVars, discoveryVars, signalVars>>

Part == {"chat", "diner", "owner", "recall", "catalog", "categories", "story", "place",
         "cover", "photo", "answer", "image", "duel", "map",
         "tone", "sync", "batch", "twins", "dub"}

(* Where a part starts in one of several states, the others know one.  A    *)
(* diner's tools do not tell restaurants apart: one has all plates there.   *)
HouseInit ==
  /\ part \in Part
  /\ ChatInit /\ RecallInit /\ DeskInit
  /\ ToolsInit /\ (part = "owner" \/ home = [p \in Plate |-> Mine])
  /\ CatalogInit /\ (part = "catalog" \/ ~elsewhere)
  /\ CategoriesInit /\ (part = "categories" \/ ofVenue = [v \in Venue |-> Otros])
  /\ EnrichmentInit /\ (part = "story" \/ name = [m \in Meal |-> CHOOSE n \in Name : TRUE])
  /\ DiscoveryInit
  /\ part \in {"duel", "map"} \/ servedAt = [d \in Course |-> CHOOSE v \in Eatery : TRUE]
  /\ part = "duel" \/ root = [d \in Course |-> NoRoot]
  /\ SignalsInit /\ (part \in {"twins", "dub"} <=> rows = "embed")
  /\ part = "dub" \/ dubbed = CHOOSE d \in Dubbing : TRUE

Rests(owners, vars) == IF part \in owners THEN TRUE ELSE UNCHANGED vars

(* What this behaviour is not about.                                        *)
TheRest ==
  /\ Rests({"chat"}, chatVars) /\ Rests({"diner", "owner"}, toolVars)
  /\ Rests({"recall"}, recallVars)
  /\ Rests({"catalog"}, catalogVars) /\ Rests({"categories"}, categoryVars)
  /\ Rests({"story", "place"}, enrichmentVars)
  /\ Rests({"cover", "photo", "answer", "image"}, deskVars)
  /\ Rests({"duel", "map"}, discoveryVars)
  /\ Rests({"tone", "sync", "batch", "twins", "dub"}, signalVars)
  /\ UNCHANGED part

(* Of ReviewSignals: one review with two notes, or two with one; a loop at  *)
(* a time beside the script, and a write at a time where there are two      *)
(* reviews.                                                                 *)
FirstOpinion == {o \in Opinion : \A p \in Opinion : o <= p}
OneNote == {w \in Words : w = CHOOSE v \in Words : TRUE}
OneRun == \A r, q \in Loop : run[r].pc # "idle" /\ run[q].pc # "idle" => r = q
OneWrite == \A o, p \in Opinion : write[o] # NoWrite /\ write[p] # NoWrite => o = p

SignalNext ==
  \/ part = "tone" /\ (WriteNext(FirstOpinion, Note) \/ LoopNext)
  \/ part = "sync" /\ (WriteNext(FirstOpinion, Note) \/ LoopNext \/ SyncNext) /\ OneRun'
  \/ part = "batch" /\ (WriteNext(Opinion, OneNote) \/ SyncNext \/ BatchNext) /\ OneWrite'
  \/ part = "twins" /\ (WriteNext(Opinion, OneNote) \/ LoopNext) /\ OneWrite'
  \/ part = "dub" /\ (WriteNext(FirstOpinion, OneNote \cup {Blank}) \/ LoopNext
                      \/ \E d \in Dubbing : DubDish(d))

(* Of SommelierRecall: a turn may recommend two dishes, and one of them is  *)
(* followed.                                                                *)
FollowedDish == {d \in Dish : d = CHOOSE e \in Dish : TRUE}
OneFollowed ==
  /\ (Dish \ served) \cup reviewed \cup dismissed \subseteq FollowedDish
  /\ \A j \in Recall : recall[j].due => recall[j].dish \in FollowedDish

HouseNext ==
  \/ SignalNext /\ TheRest
  \/ part = "chat" /\ ChatNext /\ TheRest
  \/ part = "diner" /\ DinerNext /\ TheRest
  \/ part = "owner" /\ OwnerNext /\ TheRest
  \/ part = "recall" /\ RecallNext /\ OneFollowed' /\ TheRest
  \/ part = "catalog" /\ CatalogNext /\ TheRest
  \/ part = "categories" /\ CategoriesNext /\ TheRest
  \/ part = "story" /\ StoryNext /\ TheRest
  \/ part = "place" /\ PlaceNext /\ TheRest
  \/ part = "cover" /\ CoverNext /\ TheRest
  \/ part = "photo" /\ PhotoNext /\ TheRest
  \/ part = "answer" /\ AnswerNext /\ TheRest
  \/ part = "image" /\ ImageNext /\ TheRest
  \/ part = "duel" /\ DuelNext /\ TheRest
  \/ part = "map" /\ MapNext /\ TheRest

HouseSpec == HouseInit /\ [][HouseNext]_houseVars

(* The turns, jobs, loops and requests of a part are interchangeable, and   *)
(* so are the dishes of the tools and of the duel: one set of values stands *)
(* for each of them in its own part.                                        *)
Symmetry == Permutations(Turn)

(* Every part keeps its types.                                              *)
HouseTypeOK ==
  /\ part = "chat" => ChatTypeOK
  /\ part \in {"diner", "owner"} => ToolsTypeOK
  /\ part = "recall" => RecallTypeOK
  /\ part = "catalog" => CatalogTypeOK
  /\ part = "categories" => CategoriesTypeOK
  /\ part \in {"story", "place"} => EnrichmentTypeOK
  /\ part \in {"cover", "photo", "answer", "image"} => DeskTypeOK
  /\ part \in {"duel", "map"} => DiscoveryTypeOK
  /\ part \in {"tone", "sync", "batch", "twins", "dub"} => SignalsTypeOK

(* Restaurants and dishes are neither doubled nor left with a category that *)
(* is gone.                                                                 *)
CatalogueHolds == CatalogHolds /\ CategoriesHold
=============================================================================
