------------------------------ MODULE Enrichment ------------------------------
(***************************************************************************)
(* What slow providers write about the catalog: the stories of dishes, in a *)
(* cache shared by all dishes of one name and cuisine and, in Spanish, on   *)
(* the dish (app/services/dish_editorial_enricher.py, routers/              *)
(* dishes_social.py, scripts/refresh_editorial_blurbs.py), and the data of  *)
(* Google about a restaurant (services/google_places_enricher.py, scripts/  *)
(* backfill_google_places.py).                                              *)
(*                                                                          *)
(* A job loads a row, asks its provider, which takes seconds, and writes    *)
(* what it answers in a commit of its own; rows change in between.          *)
(***************************************************************************)
EXTENDS FiniteSets

CONSTANTS
  Meal,    \* ids of dishes
  Name,    \* what their names and cuisines normalise to
  Site,    \* place ids of Google that are the restaurant's at some time
  Field,   \* what Google tells of a place: rating, photos, hours ...
  Nothing, \* no name, no place, no story
  Job      \* jobs in flight at the same time

Lang == {"es", "other"}

(* A story: the name and the language it was asked for, and whether the     *)
(* prompt has another version since.                                        *)
Story == [of : Name, lang : Lang, aged : BOOLEAN]
MaybeStory == Story \cup {Nothing}

ASSUME EnrichmentAssumption == Nothing \notin Meal \cup Name \cup Site \cup Story

VARIABLES
  name,    \* the name of every dish, Nothing once it is deleted
  blurb,   \* the stories on the dishes
  cache,   \* the shared cache of stories
  lapsed,  \* history: dishes renamed since their story's job loaded them
  place,   \* the place id of the restaurant
  facts,   \* the place that each of Google's fields on the restaurant is of
  cached,  \* is that data younger than its time to live
  moved,   \* history: fields whose job loaded the place id before it was set
  job      \* the jobs

enrichmentVars == <<name, blurb, cache, lapsed, place, facts, cached, moved, job>>
storyRows == <<name, blurb, cache, lapsed>>
placeRows == <<place, facts, cached, moved>>

NoJob == [op |-> "none", pc |-> "none", meal |-> Nothing, lang |-> "es",
          force |-> FALSE, key |-> Nothing, story |-> Nothing, crossed |-> FALSE]

JobRecord ==
  [op : {"none", "story", "place", "find"},
   pc : {"none", "load", "lookup", "ask", "copy", "store"},
   meal : Meal \cup {Nothing}, lang : Lang, force : BOOLEAN,
   key : Name \cup Site \cup {Nothing}, story : MaybeStory, crossed : BOOLEAN]

EnrichmentTypeOK ==
  /\ name \in [Meal -> Name \cup {Nothing}] /\ lapsed \subseteq Meal
  /\ blurb \in [Meal -> MaybeStory] /\ cache \in [Name \X Lang -> MaybeStory]
  /\ place \in Site \cup {Nothing} /\ facts \in [Field -> Site \cup {Nothing}]
  /\ cached \in BOOLEAN /\ moved \subseteq Field /\ job \in [Job -> JobRecord]

EnrichmentInit ==
  /\ name \in [Meal -> Name] /\ lapsed = {}
  /\ blurb = [m \in Meal |-> Nothing]
  /\ cache = [k \in Name \X Lang |-> Nothing]
  /\ place = Nothing /\ facts = [f \in Field |-> Nothing] /\ cached = FALSE /\ moved = {}
  /\ job = [j \in Job |-> NoJob]

Continues(j, q) == job' = [job EXCEPT ![j] = q]
Begins(j, q) == job[j].pc = "none" /\ Continues(j, q)
Ended(j) == Continues(j, NoJob)
Fresh(s) == s # Nothing /\ ~s.aged

(* The page of a dish schedules its story in the language of the page, an   *)
(* admin or a critic forces the Spanish one, and the script does either.    *)
BeginStory(j, m, lang, force) ==
  /\ name[m] # Nothing
  /\ Begins(j, [NoJob EXCEPT !.op = "story", !.pc = "load", !.meal = m, !.lang = lang,
                          !.force = force])
  /\ UNCHANGED <<storyRows, placeRows>>

(* The dish and its restaurant are loaded.  A Spanish story of the current  *)
(* prompt ends the job, whatever name it was written for.                   *)
LoadMeal(j) ==
  LET q == job[j] IN
  /\ q.op = "story" /\ q.pc = "load"
  /\ \/ /\ name[q.meal] = Nothing \/ (q.lang = "es" /\ ~q.force /\ Fresh(blurb[q.meal]))
        /\ Ended(j)
     \/ /\ name[q.meal] # Nothing
        /\ q.lang = "es" /\ ~q.force => ~Fresh(blurb[q.meal])
        /\ Continues(j, [q EXCEPT !.key = name[q.meal], !.pc = IF q.force THEN "ask" ELSE "lookup"])
  /\ UNCHANGED <<storyRows, placeRows>>

(* The cache is asked under the key of the row that was loaded.             *)
ReadCache(j) ==
  LET q == job[j]  hit == cache[<<q.key, q.lang>>] IN
  /\ q.pc = "lookup"
  /\ \/ Fresh(hit) /\ q.lang = "es" /\ Continues(j, [q EXCEPT !.story = hit, !.pc = "copy"])
     \/ Fresh(hit) /\ q.lang # "es" /\ Ended(j)
     \/ ~Fresh(hit) /\ Continues(j, [q EXCEPT !.pc = "ask"])
  /\ UNCHANGED <<storyRows, placeRows>>

(* The provider tells the story of the name in the prompt, or fails.        *)
GenerateBlurb(j) ==
  LET q == job[j] IN
  /\ q.op = "story" /\ q.pc = "ask"
  /\ \/ Ended(j)
     \/ Continues(j, [q EXCEPT !.pc = "store",
                              !.story = [of |-> q.key, lang |-> q.lang, aged |-> FALSE]])
  /\ UNCHANGED <<storyRows, placeRows>>

(* mutant: the key of the row as it is when the story arrives               *)
StoreKeyLate(q) == <<IF name[q.meal] = Nothing THEN q.key ELSE name[q.meal], q.lang>>

(* The key of the row as it was loaded.                                     *)
StoreKey(q) == <<q.key, q.lang>>

OnTheDish(q) == q.lang = "es"

(* Cache and dish are written in one commit.  The Spanish story of a dish   *)
(* that is gone has no row to update: the commit raises, the cache is       *)
(* rolled back with it, and the task swallows the error.                    *)
StoreBlurb(j) ==
  LET q == job[j] IN
  /\ q.op = "story" /\ q.pc \in {"copy", "store"}
  /\ IF OnTheDish(q) /\ name[q.meal] = Nothing
     THEN UNCHANGED storyRows
     ELSE /\ cache' = IF q.pc = "store" THEN [cache EXCEPT ![StoreKey(q)] = q.story] ELSE cache
          /\ blurb' = IF OnTheDish(q) THEN [blurb EXCEPT ![q.meal] = q.story] ELSE blurb
          /\ lapsed' = IF ~OnTheDish(q) THEN lapsed
                       ELSE IF q.crossed THEN lapsed \cup {q.meal} ELSE lapsed \ {q.meal}
          /\ UNCHANGED name
  /\ Ended(j) /\ UNCHANGED placeRows

(* A dish is renamed, or its restaurant gets another cuisine: nothing       *)
(* touches the story.  A dish is deleted.                                   *)
UpdateMeal(m, new) ==
  /\ name[m] \notin {Nothing, new}
  /\ name' = [name EXCEPT ![m] = new]
  /\ blurb' = IF new = Nothing THEN [blurb EXCEPT ![m] = Nothing] ELSE blurb
  /\ lapsed' = IF new = Nothing THEN lapsed \ {m} ELSE lapsed \cup {m}
  /\ job' = [j \in Job |->
       IF job[j].meal = m /\ job[j].key # Nothing THEN [job[j] EXCEPT !.crossed = TRUE] ELSE job[j]]
  /\ UNCHANGED <<cache, placeRows>>

(* The script clears the whole cache before it forces every dish.           *)
ClearCache ==
  /\ cache' = [k \in Name \X Lang |-> Nothing]
  /\ UNCHANGED <<name, blurb, lapsed, placeRows, job>>

(* A release with another prompt: the stories of the old one are stale, and *)
(* the jobs of the old process are gone.                                    *)
Aged(s) == IF s = Nothing THEN Nothing ELSE [s EXCEPT !.aged = TRUE]

Release ==
  /\ blurb' = [m \in Meal |-> Aged(blurb[m])]
  /\ cache' = [k \in Name \X Lang |-> Aged(cache[k])]
  /\ job' = [j \in Job |-> NoJob]
  /\ UNCHANGED <<name, lapsed, placeRows>>

(* A restaurant page refreshes Google's data when it is stale, an admin and *)
(* the script force it.                                                     *)
BeginPlace(j, force) ==
  /\ place # Nothing /\ (cached => force)
  /\ Begins(j, [NoJob EXCEPT !.op = "place", !.pc = "ask", !.key = place, !.force = force])
  /\ UNCHANGED <<storyRows, placeRows>>

(* The script looks for the place of a restaurant that has none.            *)
BeginFind(j) ==
  /\ place = Nothing
  /\ Begins(j, [NoJob EXCEPT !.op = "find", !.pc = "ask"])
  /\ UNCHANGED <<storyRows, placeRows>>

FetchPlace(j) ==
  LET q == job[j] IN
  /\ q.op \in {"place", "find"} /\ q.pc = "ask"
  /\ \/ Ended(j)
     \/ q.op = "place" /\ Continues(j, [q EXCEPT !.pc = "store"])
     \/ q.op = "find" /\ \E p \in Site : Continues(j, [q EXCEPT !.pc = "store", !.key = p])
  /\ UNCHANGED <<storyRows, placeRows>>

Crossed(others) ==
  [j \in Job |-> IF j \in others /\ job[j].op \in {"place", "find"}
                 THEN [job[j] EXCEPT !.crossed = TRUE] ELSE job[j]]

(* The fields that the answer has are written on whatever place the row has *)
(* by now, and it is fresh.  A field that is missing in the answer keeps    *)
(* what it had, of whatever place.                                          *)
StorePlace(j, told) ==
  LET q == job[j] IN
  /\ q.op = "place" /\ q.pc = "store"
  /\ facts' = [f \in Field |-> IF f \in told THEN q.key ELSE facts[f]]
  /\ moved' = IF q.crossed THEN moved \cup told ELSE moved \ told
  /\ cached' = TRUE
  /\ Ended(j) /\ UNCHANGED <<storyRows, place>>

(* The script writes the place it found, over one set since.                *)
StoreFound(j) ==
  LET q == job[j] IN
  /\ q.op = "find" /\ q.pc = "store"
  /\ place' = q.key /\ moved' = Field
  /\ job' = [Crossed(Job) EXCEPT ![j] = NoJob]
  /\ UNCHANGED <<storyRows, facts, cached>>

(* An admin or the creator sets another place id: data and age stay.        *)
SetPlace(p) ==
  /\ p # place
  /\ place' = p /\ moved' = Field /\ job' = Crossed(Job)
  /\ UNCHANGED <<storyRows, facts, cached>>

Expire ==
  /\ cached /\ cached' = FALSE
  /\ UNCHANGED <<storyRows, place, facts, moved, job>>

StoryNext ==
  \/ \E j \in Job :
       \/ \E m \in Meal, lang \in Lang, force \in BOOLEAN :
            (force => lang = "es") /\ BeginStory(j, m, lang, force)
       \/ LoadMeal(j) \/ ReadCache(j) \/ GenerateBlurb(j) \/ StoreBlurb(j)
  \/ \E m \in Meal, new \in Name \cup {Nothing} : UpdateMeal(m, new)
  \/ ClearCache \/ Release

PlaceNext ==
  \/ \E j \in Job :
       \/ \E force \in BOOLEAN : BeginPlace(j, force)
       \/ \E told \in SUBSET Field : StorePlace(j, told)
       \/ BeginFind(j) \/ FetchPlace(j) \/ StoreFound(j)
  \/ \E p \in Site : SetPlace(p)
  \/ Expire

EnrichmentNext == StoryNext \/ PlaceNext

EnrichmentSpec == EnrichmentInit /\ [][EnrichmentNext]_enrichmentVars

(***************************************************************************)
(* Properties                                                              *)
(***************************************************************************)
(* The shared cache never answers one dish with the story of another: a     *)
(* story is kept under the name and the language it was asked for, however  *)
(* its dish is renamed while the provider writes, and the story on a dish   *)
(* is Spanish.  A dish has the story of another name only if it was renamed *)
(* since the job loaded it, and a restaurant has a field of another place   *)
(* only if its place id was set since the job of that field loaded it: an   *)
(* answer mends the fields it has, and no other.                            *)
EnrichmentHolds ==
  /\ \A n \in Name, l \in Lang : cache[<<n, l>>] # Nothing =>
       cache[<<n, l>>].of = n /\ cache[<<n, l>>].lang = l
  /\ \A m \in Meal : blurb[m] # Nothing =>
       blurb[m].lang = "es" /\ (blurb[m].of # name[m] => m \in lapsed)
  /\ \A f \in Field : facts[f] \notin {Nothing, place} => f \in moved
===============================================================================
