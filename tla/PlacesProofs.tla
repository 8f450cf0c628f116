----------------------------- MODULE PlacesProofs -----------------------------
(***************************************************************************)
(* Proofs about what is kept about restaurants: stories and places, the     *)
(* owner's desk, the catalogue, categories.  One section per part; each is  *)
(* a part of what HouseProofs is about.                                     *)
(***************************************************************************)
EXTENDS Enrichment, OwnerDesk, Catalog, Categories, FiniteSetTheorems, TLAPS

------------------------------------------------------------------------------
(* Stories and places.                                                      *)

(* A story that was asked for under a key.                                  *)
StoryOf(s, key, lang) == s \in Story /\ s.of = key /\ s.lang = lang

(* What a job has at each of its stages.                                    *)
JobStage(q) ==
  /\ q.op = "none" <=> q.pc = "none"
  /\ q.pc = "none" => q = NoJob
  /\ q.op = "story" => q.meal \in Meal /\ q.pc \in {"load", "lookup", "ask", "copy", "store"}
  /\ q.op = "story" => IF q.pc = "load" THEN q.key = Nothing ELSE q.key \in Name
  /\ q.op = "story" /\ q.pc \in {"copy", "store"} => StoryOf(q.story, q.key, q.lang)
  /\ q.pc = "copy" => q.lang = "es"
  /\ q.op \in {"place", "find"} => q.pc \in {"ask", "store"} /\ q.meal = Nothing
  /\ q.op = "place" \/ (q.op = "find" /\ q.pc = "store") => q.key \in Site

(* While nobody has crossed it, the row is as it was loaded.                *)
JobKnows(q) ==
  /\ q.op = "story" /\ q.pc # "load" /\ ~q.crossed => name[q.meal] = q.key
  /\ q.op = "place" /\ ~q.crossed => place = q.key

EnrichmentInv ==
  /\ EnrichmentTypeOK
  /\ \A n \in Name, l \in Lang : cache[<<n, l>>] # Nothing => StoryOf(cache[<<n, l>>], n, l)
  /\ EnrichmentHolds
  /\ \A j \in Job : JobStage(job[j]) /\ JobKnows(job[j])

USE EnrichmentAssumption

LEMMA EnrichmentStarts == EnrichmentInit => EnrichmentInv
<1> SUFFICES ASSUME EnrichmentInit PROVE EnrichmentInv
  OBVIOUS
<1>1. NoJob \in JobRecord
  BY DEF NoJob, JobRecord, Lang, MaybeStory
<1>2. EnrichmentTypeOK
  BY <1>1 DEF EnrichmentInit, EnrichmentTypeOK, MaybeStory
<1>3. JobStage(NoJob) /\ JobKnows(NoJob)
  BY DEF NoJob, JobStage, JobKnows
<1>4. \A n \in Name, l \in Lang : cache[<<n, l>>] = Nothing
  BY DEF EnrichmentInit
<1>5. EnrichmentHolds
  BY <1>4 DEF EnrichmentInit, EnrichmentHolds
<1> QED BY <1>2, <1>3, <1>4, <1>5 DEF EnrichmentInv, EnrichmentInit

LEMMA InJob ==
  ASSUME EnrichmentInv, NEW j \in Job
  PROVE  /\ job[j] \in JobRecord /\ JobStage(job[j]) /\ JobKnows(job[j])
         /\ job = [i \in Job |-> job[i]]
BY DEF EnrichmentInv, EnrichmentTypeOK

(* A step that moves one job only.                                          *)
LEMMA JobMoves ==
  ASSUME EnrichmentInv, NEW j \in Job, NEW q \in JobRecord, Continues(j, q),
         UNCHANGED <<storyRows, placeRows>>, JobStage(q), JobKnows(q)
  PROVE  EnrichmentInv'
<1>1. job' \in [Job -> JobRecord] /\ \A i \in Job : job'[i] = IF i = j THEN q ELSE job[i]
  BY DEF Continues, EnrichmentInv, EnrichmentTypeOK
<1>2. /\ UNCHANGED name /\ UNCHANGED blurb /\ UNCHANGED cache /\ UNCHANGED lapsed
      /\ UNCHANGED place /\ UNCHANGED facts /\ UNCHANGED cached /\ UNCHANGED moved
  BY DEF storyRows, placeRows
<1>3. EnrichmentTypeOK'
  BY <1>1, <1>2 DEF EnrichmentInv, EnrichmentTypeOK
<1>4. EnrichmentHolds'
  BY <1>2 DEF EnrichmentInv, EnrichmentHolds
<1>5. \A i \in Job : JobStage(job[i])' /\ JobKnows(job[i])'
  BY <1>1, <1>2 DEF EnrichmentInv, JobKnows, JobStage
<1> QED BY <1>2, <1>3, <1>4, <1>5 DEF EnrichmentInv

LEMMA JobEnds ==
  ASSUME EnrichmentInv, NEW j \in Job, Ended(j), UNCHANGED <<storyRows, placeRows>>
  PROVE  EnrichmentInv'
<1>1. NoJob \in JobRecord /\ JobStage(NoJob) /\ JobKnows(NoJob)
  BY DEF NoJob, JobRecord, Lang, MaybeStory, JobStage, JobKnows
<1> QED BY <1>1, JobMoves DEF Ended

LEMMA BeginStoryKeeps ==
  ASSUME EnrichmentInv, NEW j \in Job, NEW m \in Meal, NEW lang \in Lang, NEW force \in BOOLEAN,
         BeginStory(j, m, lang, force)
  PROVE  EnrichmentInv'
<1> DEFINE q == [NoJob EXCEPT !.op = "story", !.pc = "load", !.meal = m, !.lang = lang,
                              !.force = force]
<1>1. /\ q.op = "story" /\ q.pc = "load" /\ q.meal = m /\ q.key = Nothing /\ q.story = Nothing
      /\ q \in JobRecord
  BY DEF NoJob, JobRecord, MaybeStory
<1>2. Continues(j, q) /\ UNCHANGED <<storyRows, placeRows>>
  BY DEF BeginStory, Begins
<1> HIDE DEF q
<1>3. JobStage(q) /\ JobKnows(q)
  BY <1>1 DEF JobStage, JobKnows
<1> QED BY <1>1, <1>2, <1>3, JobMoves

LEMMA LoadMealKeeps ==
  ASSUME EnrichmentInv, NEW j \in Job, LoadMeal(j)
  PROVE  EnrichmentInv'
<1> DEFINE r == job[j]
           q == [r EXCEPT !.key = name[r.meal], !.pc = IF r.force THEN "ask" ELSE "lookup"]
<1>1. /\ r.op = "story" /\ r.pc = "load" /\ UNCHANGED <<storyRows, placeRows>>
      /\ Ended(j) \/ (name[r.meal] # Nothing /\ Continues(j, q))
  BY DEF LoadMeal
<1>2. CASE Ended(j)
  BY <1>1, <1>2, JobEnds
<1>3. CASE name[r.meal] # Nothing /\ Continues(j, q)
  <2>1. r \in JobRecord /\ r.meal \in Meal /\ name[r.meal] \in Name
    BY <1>1, <1>3, InJob DEF JobStage, EnrichmentInv, EnrichmentTypeOK
  <2>2. /\ q.op = "story" /\ q.pc \in {"ask", "lookup"} /\ q.meal = r.meal
        /\ q.key = name[r.meal] /\ q \in JobRecord
    BY <1>1, <2>1 DEF JobRecord
  <2> HIDE DEF q
  <2>3. JobStage(q) /\ JobKnows(q)
    BY <2>1, <2>2 DEF JobStage, JobKnows
  <2> QED BY <1>1, <1>3, <2>2, <2>3, JobMoves
<1> QED BY <1>1, <1>2, <1>3

LEMMA ReadCacheKeeps ==
  ASSUME EnrichmentInv, NEW j \in Job, ReadCache(j)
  PROVE  EnrichmentInv'
<1> DEFINE r == job[j]
           hit == cache[<<r.key, r.lang>>]
           p == [r EXCEPT !.story = hit, !.pc = "copy"]
           q == [r EXCEPT !.pc = "ask"]
<1>1. /\ r.pc = "lookup" /\ UNCHANGED <<storyRows, placeRows>>
      /\ \/ Fresh(hit) /\ r.lang = "es" /\ Continues(j, p)
         \/ Ended(j)
         \/ Continues(j, q)
  BY DEF ReadCache
<1>2. r \in JobRecord /\ r.op = "story" /\ r.meal \in Meal /\ r.key \in Name /\ r.lang \in Lang
  BY <1>1, InJob DEF JobStage, JobRecord
<1>3. JobKnows(r)
  BY InJob
<1>4. CASE Fresh(hit) /\ r.lang = "es" /\ Continues(j, p)
  <2>1. StoryOf(hit, r.key, r.lang)
    BY <1>2, <1>4 DEF EnrichmentInv, Fresh
  <2> HIDE DEF hit
  <2>2. /\ p.op = "story" /\ p.pc = "copy" /\ p.meal = r.meal /\ p.key = r.key /\ p.lang = r.lang
        /\ p.story = hit /\ p.crossed = r.crossed /\ p \in JobRecord
    BY <1>2, <2>1 DEF JobRecord, StoryOf, MaybeStory
  <2> HIDE DEF p
  <2>3. JobStage(p) /\ JobKnows(p)
    BY <1>1, <1>2, <1>3, <1>4, <2>1, <2>2 DEF JobStage, JobKnows
  <2> QED BY <1>1, <1>4, <2>2, <2>3, JobMoves
<1>5. CASE Ended(j)
  BY <1>1, <1>5, JobEnds
<1>6. CASE Continues(j, q)
  <2>2. /\ q.op = "story" /\ q.pc = "ask" /\ q.meal = r.meal /\ q.key = r.key
        /\ q.crossed = r.crossed /\ q \in JobRecord
    BY <1>2 DEF JobRecord
  <2> HIDE DEF q
  <2>3. JobStage(q) /\ JobKnows(q)
    BY <1>1, <1>2, <1>3, <2>2 DEF JobStage, JobKnows
  <2> QED BY <1>1, <1>6, <2>2, <2>3, JobMoves
<1> QED BY <1>1, <1>4, <1>5, <1>6

LEMMA GenerateBlurbKeeps ==
  ASSUME EnrichmentInv, NEW j \in Job, GenerateBlurb(j)
  PROVE  EnrichmentInv'
<1> DEFINE r == job[j]
           told == [of |-> r.key, lang |-> r.lang, aged |-> FALSE]
           q == [r EXCEPT !.pc = "store", !.story = told]
<1>1. /\ r.op = "story" /\ r.pc = "ask" /\ UNCHANGED <<storyRows, placeRows>>
      /\ Ended(j) \/ Continues(j, q)
  BY DEF GenerateBlurb
<1>2. r \in JobRecord /\ r.meal \in Meal /\ r.key \in Name /\ r.lang \in Lang /\ JobKnows(r)
  BY <1>1, InJob DEF JobStage, JobRecord
<1>3. CASE Continues(j, q)
  <2>1. StoryOf(told, r.key, r.lang)
    BY <1>2 DEF StoryOf, Story
  <2> HIDE DEF told
  <2>2. /\ q.op = "story" /\ q.pc = "store" /\ q.meal = r.meal /\ q.key = r.key /\ q.lang = r.lang
        /\ q.story = told /\ q.crossed = r.crossed /\ q \in JobRecord
    BY <1>1, <1>2, <2>1 DEF JobRecord, StoryOf, MaybeStory
  <2> HIDE DEF q
  <2>3. JobStage(q) /\ JobKnows(q)
    BY <1>1, <1>2, <2>1, <2>2 DEF JobStage, JobKnows
  <2> QED BY <1>1, <1>3, <2>2, <2>3, JobMoves
<1> QED BY <1>1, <1>3, JobEnds

(* The story is stored under its own key; on the dish it is of the dish's   *)
(* name, or the dish has lapsed.                                            *)
LEMMA StoreBlurbKeeps ==
  ASSUME EnrichmentInv, NEW j \in Job, StoreBlurb(j)
  PROVE  EnrichmentInv'
<1> DEFINE q == job[j]
<1>1. /\ q.op = "story" /\ q.pc \in {"copy", "store"} /\ Ended(j) /\ UNCHANGED placeRows
  BY DEF StoreBlurb
<1>2. /\ q \in JobRecord /\ q.meal \in Meal /\ q.key \in Name /\ q.lang \in Lang /\ JobKnows(q)
      /\ StoryOf(q.story, q.key, q.lang)
  BY <1>1, InJob DEF JobStage, JobRecord
<1>3. CASE OnTheDish(q) /\ name[q.meal] = Nothing
  BY <1>1, <1>3, JobEnds DEF StoreBlurb
<1>4. CASE ~(OnTheDish(q) /\ name[q.meal] = Nothing)
  <2>1. /\ cache' = IF q.pc = "store" THEN [cache EXCEPT ![StoreKey(q)] = q.story] ELSE cache
        /\ blurb' = IF OnTheDish(q) THEN [blurb EXCEPT ![q.meal] = q.story] ELSE blurb
        /\ lapsed' = IF ~OnTheDish(q) THEN lapsed
                     ELSE IF q.crossed THEN lapsed \cup {q.meal} ELSE lapsed \ {q.meal}
        /\ UNCHANGED name
    BY <1>4 DEF StoreBlurb
  <2>2. /\ UNCHANGED place /\ UNCHANGED facts /\ UNCHANGED cached /\ UNCHANGED moved
    BY <1>1 DEF placeRows
  <2>3. q.story \in MaybeStory /\ StoreKey(q) \in Name \X Lang /\ StoreKey(q) = <<q.key, q.lang>>
    BY <1>2 DEF StoryOf, MaybeStory, StoreKey
  <2>4. cache' \in [Name \X Lang -> MaybeStory] /\ blurb' \in [Meal -> MaybeStory]
    BY <1>2, <2>1, <2>3 DEF EnrichmentInv, EnrichmentTypeOK
  <2>5. job' \in [Job -> JobRecord] /\ \A i \in Job : job'[i] = IF i = j THEN NoJob ELSE job[i]
    BY <1>1 DEF Ended, Continues, EnrichmentInv, EnrichmentTypeOK, NoJob, JobRecord, Lang, MaybeStory
  <2>6. EnrichmentTypeOK'
    BY <1>2, <2>1, <2>2, <2>4, <2>5 DEF EnrichmentInv, EnrichmentTypeOK
  <2>7. ASSUME NEW n \in Name, NEW l \in Lang, cache'[<<n, l>>] # Nothing
        PROVE  StoryOf(cache'[<<n, l>>], n, l)
    <3>1. CASE q.pc = "store" /\ <<n, l>> = StoreKey(q)
      BY <1>2, <2>1, <2>3, <3>1 DEF EnrichmentInv, EnrichmentTypeOK
    <3>2. CASE ~(q.pc = "store" /\ <<n, l>> = StoreKey(q))
      BY <2>1, <2>3, <2>7, <3>2 DEF EnrichmentInv, EnrichmentTypeOK
    <3> QED BY <3>1, <3>2
  <2>8. ASSUME NEW m \in Meal, blurb'[m] # Nothing
        PROVE  blurb'[m].lang = "es" /\ (blurb'[m].of # name'[m] => m \in lapsed')
    <3>1. CASE OnTheDish(q) /\ m = q.meal
      BY <1>1, <1>2, <2>1, <3>1
         DEF EnrichmentInv, EnrichmentTypeOK, OnTheDish, StoryOf, JobKnows
    <3>2. CASE ~(OnTheDish(q) /\ m = q.meal)
      <4>1. blurb'[m] = blurb[m] /\ (m \in lapsed => m \in lapsed')
        BY <1>2, <2>1, <3>2 DEF EnrichmentInv, EnrichmentTypeOK
      <4> QED BY <2>1, <2>8, <4>1 DEF EnrichmentInv, EnrichmentHolds
    <3> QED BY <3>1, <3>2
  <2>9. EnrichmentHolds'
    BY <2>2, <2>7, <2>8 DEF EnrichmentInv, EnrichmentHolds, StoryOf
  <2>10. \A i \in Job : JobStage(job[i])' /\ JobKnows(job[i])'
    <3>1. NoJob.op = "none" /\ JobStage(NoJob)
      BY DEF NoJob, JobStage
    <3> QED BY <2>1, <2>2, <2>5, <3>1 DEF EnrichmentInv, JobKnows, JobStage
  <2> QED BY <2>6, <2>7, <2>9, <2>10 DEF EnrichmentInv
<1> QED BY <1>3, <1>4

(* A step in which jobs are at most crossed.                                *)
LEMMA JobsCrossed ==
  ASSUME EnrichmentInv, NEW hit \in SUBSET Job,
         job' = [i \in Job |-> IF i \in hit THEN [job[i] EXCEPT !.crossed = TRUE] ELSE job[i]],
         \A i \in hit : job[i].op # "none"
  PROVE  /\ job' \in [Job -> JobRecord]
         /\ \A i \in Job : JobStage(job'[i]) /\ (i \in hit => job'[i].crossed)
         /\ \A i \in Job : /\ job'[i].op = job[i].op /\ job'[i].pc = job[i].pc
                           /\ job'[i].meal = job[i].meal /\ job'[i].key = job[i].key
<1>1. ASSUME NEW i \in Job
      PROVE  /\ job'[i] \in JobRecord /\ JobStage(job'[i]) /\ (i \in hit => job'[i].crossed)
             /\ job'[i].op = job[i].op /\ job'[i].pc = job[i].pc
             /\ job'[i].meal = job[i].meal /\ job'[i].key = job[i].key
  <2>1. job[i] \in JobRecord /\ JobStage(job[i])
    BY InJob
  <2>2. CASE i \in hit
    <3> DEFINE q == [job[i] EXCEPT !.crossed = TRUE]
    <3>1. /\ q.op = job[i].op /\ q.pc = job[i].pc /\ q.meal = job[i].meal /\ q.key = job[i].key
          /\ q.lang = job[i].lang /\ q.story = job[i].story /\ q.crossed /\ q \in JobRecord
      BY <2>1 DEF JobRecord
    <3>2. job'[i] = q
      BY <2>2
    <3> HIDE DEF q
    <3>3. JobStage(q)
      BY <2>1, <2>2, <3>1 DEF JobStage
    <3> QED BY <3>1, <3>2, <3>3
  <2>3. CASE i \notin hit
    BY <2>1, <2>3
  <2> QED BY <2>2, <2>3
<1> QED BY <1>1

LEMMA UpdateMealKeeps ==
  ASSUME EnrichmentInv, NEW m \in Meal, NEW new \in Name \cup {Nothing}, UpdateMeal(m, new)
  PROVE  EnrichmentInv'
<1> DEFINE hit == {i \in Job : job[i].meal = m /\ job[i].key # Nothing}
<1>1. /\ name' = [name EXCEPT ![m] = new]
      /\ blurb' = IF new = Nothing THEN [blurb EXCEPT ![m] = Nothing] ELSE blurb
      /\ lapsed' = IF new = Nothing THEN lapsed \ {m} ELSE lapsed \cup {m}
      /\ job' = [i \in Job |-> IF i \in hit THEN [job[i] EXCEPT !.crossed = TRUE] ELSE job[i]]
      /\ UNCHANGED <<cache, placeRows>>
  BY DEF UpdateMeal
<1>2. /\ UNCHANGED cache /\ UNCHANGED place /\ UNCHANGED facts /\ UNCHANGED cached
      /\ UNCHANGED moved
  BY <1>1 DEF placeRows
<1>3. \A i \in hit : job[i].op # "none"
  BY InJob DEF JobStage, NoJob
<1> HIDE DEF hit
<1>4. /\ job' \in [Job -> JobRecord]
      /\ \A i \in Job : JobStage(job'[i]) /\ (i \in hit => job'[i].crossed)
      /\ \A i \in Job : /\ job'[i].op = job[i].op /\ job'[i].pc = job[i].pc
                        /\ job'[i].meal = job[i].meal /\ job'[i].key = job[i].key
  <2>1. hit \in SUBSET Job
    BY DEF hit
  <2> QED BY <1>1, <1>3, <2>1, JobsCrossed
<1>5. EnrichmentTypeOK'
  BY <1>1, <1>2, <1>4 DEF EnrichmentInv, EnrichmentTypeOK, MaybeStory
<1>6. EnrichmentHolds'
  BY <1>1, <1>2 DEF EnrichmentInv, EnrichmentTypeOK, EnrichmentHolds
<1>7. ASSUME NEW i \in Job PROVE JobKnows(job[i])'
  <2>1. JobKnows(job[i]) /\ JobStage(job[i])
    BY InJob
  <2>2. CASE i \in hit
    BY <1>4, <2>2 DEF JobKnows
  <2>3. CASE i \notin hit
    <3>1. job'[i] = job[i]
      BY <1>1, <2>3
    <3>2. job[i].op = "story" /\ job[i].pc # "load" => name'[job[i].meal] = name[job[i].meal]
      BY <1>1, <2>1, <2>3 DEF hit, JobStage, EnrichmentInv, EnrichmentTypeOK
    <3> QED BY <1>2, <2>1, <3>1, <3>2 DEF JobKnows
  <2> QED BY <2>2, <2>3
<1> QED BY <1>2, <1>4, <1>5, <1>6, <1>7 DEF EnrichmentInv

LEMMA AgedIs ==
  ASSUME NEW s \in MaybeStory
  PROVE  /\ Aged(s) \in MaybeStory /\ (Aged(s) = Nothing <=> s = Nothing)
         /\ s # Nothing => Aged(s).of = s.of /\ Aged(s).lang = s.lang
<1>1. CASE s = Nothing
  BY <1>1 DEF Aged, MaybeStory
<1>2. CASE s # Nothing
  <2> DEFINE t == [s EXCEPT !.aged = TRUE]
  <2>1. t \in Story /\ t.of = s.of /\ t.lang = s.lang
    BY <1>2 DEF MaybeStory, Story
  <2>2. t # Nothing
    BY <2>1
  <2> QED BY <1>2, <2>1, <2>2 DEF Aged, MaybeStory
<1> QED BY <1>1, <1>2

LEMMA ClearCacheKeeps ==
  ASSUME EnrichmentInv, ClearCache
  PROVE  EnrichmentInv'
<1>1. /\ UNCHANGED name /\ UNCHANGED blurb /\ UNCHANGED lapsed /\ UNCHANGED job
      /\ UNCHANGED place /\ UNCHANGED facts /\ UNCHANGED cached /\ UNCHANGED moved
      /\ cache' = [k \in Name \X Lang |-> Nothing]
  BY DEF ClearCache, placeRows
<1>2. EnrichmentTypeOK'
  BY <1>1 DEF EnrichmentInv, EnrichmentTypeOK, MaybeStory
<1>3. \A n \in Name, l \in Lang : cache'[<<n, l>>] = Nothing
  BY <1>1
<1>4. EnrichmentHolds'
  BY <1>1, <1>3 DEF EnrichmentInv, EnrichmentHolds
<1> QED BY <1>1, <1>2, <1>3, <1>4 DEF EnrichmentInv, JobKnows, JobStage

LEMMA ReleaseKeeps ==
  ASSUME EnrichmentInv, Release
  PROVE  EnrichmentInv'
<1>1. /\ blurb' = [m \in Meal |-> Aged(blurb[m])]
      /\ cache' = [k \in Name \X Lang |-> Aged(cache[k])]
      /\ job' = [j \in Job |-> NoJob]
      /\ UNCHANGED name /\ UNCHANGED lapsed
      /\ UNCHANGED place /\ UNCHANGED facts /\ UNCHANGED cached /\ UNCHANGED moved
  BY DEF Release, placeRows
<1>2. NoJob \in JobRecord /\ JobStage(NoJob) /\ NoJob.op = "none"
  BY DEF NoJob, JobRecord, Lang, MaybeStory, JobStage
<1>3. /\ \A k \in Name \X Lang : cache[k] \in MaybeStory /\ cache'[k] = Aged(cache[k])
      /\ \A m \in Meal : blurb[m] \in MaybeStory /\ blurb'[m] = Aged(blurb[m])
  BY <1>1 DEF EnrichmentInv, EnrichmentTypeOK
<1>4. cache' \in [Name \X Lang -> MaybeStory] /\ blurb' \in [Meal -> MaybeStory]
  BY <1>1, <1>3, AgedIs
<1>5. EnrichmentTypeOK'
  BY <1>1, <1>2, <1>4 DEF EnrichmentInv, EnrichmentTypeOK
<1>6. ASSUME NEW n \in Name, NEW l \in Lang, cache'[<<n, l>>] # Nothing
      PROVE  StoryOf(cache'[<<n, l>>], n, l)
  <2> DEFINE s == cache[<<n, l>>]
  <2>1. s \in MaybeStory /\ cache'[<<n, l>>] = Aged(s)
    BY <1>3
  <2>2. s # Nothing => StoryOf(s, n, l)
    BY DEF EnrichmentInv
  <2> HIDE DEF s
  <2>3. Aged(s) \in Story /\ Aged(s).of = n /\ Aged(s).lang = l
    BY <1>6, <2>1, <2>2, AgedIs DEF StoryOf, MaybeStory
  <2> QED BY <2>1, <2>3 DEF StoryOf
<1>7. ASSUME NEW m \in Meal, blurb'[m] # Nothing
      PROVE  blurb'[m].lang = "es" /\ (blurb'[m].of # name'[m] => m \in lapsed')
  <2>1. blurb[m] # Nothing /\ blurb'[m].of = blurb[m].of /\ blurb'[m].lang = blurb[m].lang
    BY <1>3, <1>7, AgedIs
  <2> QED BY <1>1, <2>1 DEF EnrichmentInv, EnrichmentHolds
<1>8. EnrichmentHolds'
  BY <1>1, <1>6, <1>7 DEF EnrichmentInv, EnrichmentHolds, StoryOf
<1>9. \A j \in Job : JobStage(job[j])' /\ JobKnows(job[j])'
  BY <1>1, <1>2 DEF JobStage, JobKnows
<1> QED BY <1>5, <1>6, <1>8, <1>9 DEF EnrichmentInv

(* The place of a restaurant and what Google knows of it.                   *)
LEMMA BeginPlaceKeeps ==
  ASSUME EnrichmentInv, NEW j \in Job, NEW force \in BOOLEAN, BeginPlace(j, force)
  PROVE  EnrichmentInv'
<1> DEFINE q == [NoJob EXCEPT !.op = "place", !.pc = "ask", !.key = place, !.force = force]
<1>1. place \in Site /\ Continues(j, q) /\ UNCHANGED <<storyRows, placeRows>>
  BY DEF BeginPlace, Begins, EnrichmentInv, EnrichmentTypeOK
<1>2. /\ q.op = "place" /\ q.pc = "ask" /\ q.key = place /\ q.meal = Nothing /\ q \in JobRecord
  BY <1>1 DEF NoJob, JobRecord, MaybeStory, Lang
<1>3. UNCHANGED place
  BY <1>1 DEF placeRows
<1> HIDE DEF q
<1>4. JobStage(q) /\ JobKnows(q)
  BY <1>1, <1>2, <1>3 DEF JobStage, JobKnows
<1> QED BY <1>1, <1>2, <1>4, JobMoves

LEMMA BeginFindKeeps ==
  ASSUME EnrichmentInv, NEW j \in Job, BeginFind(j)
  PROVE  EnrichmentInv'
<1> DEFINE q == [NoJob EXCEPT !.op = "find", !.pc = "ask"]
<1>1. Continues(j, q) /\ UNCHANGED <<storyRows, placeRows>>
  BY DEF BeginFind, Begins
<1>2. /\ q.op = "find" /\ q.pc = "ask" /\ q.meal = Nothing /\ q \in JobRecord
  BY DEF NoJob, JobRecord, MaybeStory, Lang
<1> HIDE DEF q
<1>3. JobStage(q) /\ JobKnows(q)
  BY <1>2 DEF JobStage, JobKnows
<1> QED BY <1>1, <1>2, <1>3, JobMoves

LEMMA FetchPlaceKeeps ==
  ASSUME EnrichmentInv, NEW j \in Job, FetchPlace(j)
  PROVE  EnrichmentInv'
<1> DEFINE r == job[j]
           q(p) == [r EXCEPT !.pc = "store", !.key = p]
<1>1. r \in JobRecord /\ JobStage(r) /\ JobKnows(r)
  BY InJob
<1>2. /\ r.op \in {"place", "find"} /\ r.pc = "ask" /\ UNCHANGED <<storyRows, placeRows>>
      /\ \/ Ended(j)
         \/ r.op = "place" /\ Continues(j, [r EXCEPT !.pc = "store"])
         \/ r.op = "find" /\ \E p \in Site : Continues(j, q(p))
  BY DEF FetchPlace
<1>3. r.op = "place" => [r EXCEPT !.pc = "store"] = q(r.key) /\ r.key \in Site
  BY <1>1 DEF JobRecord, JobStage
<1>4. ASSUME NEW p \in Site, Continues(j, q(p)), r.op = "place" => p = r.key
      PROVE  EnrichmentInv'
  <2>1. /\ q(p).op = r.op /\ q(p).pc = "store" /\ q(p).key = p /\ q(p).meal = Nothing
        /\ q(p).crossed = r.crossed /\ q(p) \in JobRecord
    BY <1>1, <1>2 DEF JobRecord, JobStage
  <2> HIDE DEF q
  <2>2. JobStage(q(p)) /\ JobKnows(q(p))
    BY <1>1, <1>2, <1>4, <2>1 DEF JobStage, JobKnows
  <2> QED BY <1>2, <1>4, <2>1, <2>2, JobMoves
<1>5. CASE Ended(j)
  BY <1>2, <1>5, JobEnds
<1>6. CASE r.op = "place" /\ Continues(j, [r EXCEPT !.pc = "store"])
  BY <1>3, <1>4, <1>6
<1>7. CASE r.op = "find" /\ \E p \in Site : Continues(j, q(p))
  BY <1>4, <1>7
<1> QED BY <1>2, <1>5, <1>6, <1>7

(* The place, its data and their age change; the stories do not.            *)
LEMMA PlaceMoves ==
  ASSUME EnrichmentInv, NEW p \in Site \cup {Nothing}, place' = p,
         facts' \in [Field -> Site \cup {Nothing}], cached' \in BOOLEAN, moved' \subseteq Field,
         \A f \in Field : facts'[f] \notin {Nothing, p} => f \in moved', UNCHANGED storyRows, job' \in [Job -> JobRecord],
         \A i \in Job : JobStage(job'[i]) /\ JobKnows(job[i])'
  PROVE  EnrichmentInv'
<1>1. UNCHANGED name /\ UNCHANGED blurb /\ UNCHANGED cache /\ UNCHANGED lapsed
  BY DEF storyRows
<1>2. EnrichmentTypeOK'
  BY <1>1 DEF EnrichmentInv, EnrichmentTypeOK
<1>3. EnrichmentHolds'
  BY <1>1 DEF EnrichmentInv, EnrichmentHolds
<1> QED BY <1>1, <1>2, <1>3 DEF EnrichmentInv

LEMMA StorePlaceKeeps ==
  ASSUME EnrichmentInv, NEW j \in Job, NEW told \in SUBSET Field, StorePlace(j, told)
  PROVE  EnrichmentInv'
<1> DEFINE q == job[j]
<1>1. /\ q.op = "place" /\ q.pc = "store" /\ cached' = TRUE
      /\ facts' = [f \in Field |-> IF f \in told THEN q.key ELSE facts[f]]
      /\ moved' = IF q.crossed THEN moved \cup told ELSE moved \ told
      /\ Ended(j) /\ UNCHANGED storyRows /\ UNCHANGED place
  BY DEF StorePlace
<1>2. q \in JobRecord /\ q.key \in Site /\ JobKnows(q) /\ q.crossed \in BOOLEAN
  BY <1>1, InJob DEF JobStage, JobRecord
<1>3. NoJob \in JobRecord /\ JobStage(NoJob) /\ NoJob.op = "none"
  BY DEF NoJob, JobRecord, Lang, MaybeStory, JobStage
<1>4. job' \in [Job -> JobRecord] /\ \A i \in Job : job'[i] = IF i = j THEN NoJob ELSE job[i]
  BY <1>1, <1>3 DEF Ended, Continues, EnrichmentInv, EnrichmentTypeOK
<1>5. UNCHANGED name
  BY <1>1 DEF storyRows
<1>6. \A i \in Job : JobStage(job'[i]) /\ JobKnows(job[i])'
  BY <1>1, <1>3, <1>4, <1>5, InJob DEF JobKnows
<1>7. q.key \notin {Nothing, place} => q.crossed
  BY <1>1, <1>2 DEF JobKnows
<1>8. /\ place \in Site \cup {Nothing} /\ facts \in [Field -> Site \cup {Nothing}] /\ moved \subseteq Field
      /\ \A f \in Field : facts[f] \notin {Nothing, place} => f \in moved
  BY DEF EnrichmentInv, EnrichmentTypeOK, EnrichmentHolds
<1>9. facts' \in [Field -> Site \cup {Nothing}] /\ moved' \subseteq Field
  BY <1>1, <1>2, <1>8
<1>10. ASSUME NEW f \in Field, facts'[f] \notin {Nothing, place} PROVE f \in moved'
  <2>1. CASE f \in told
    BY <1>1, <1>7, <1>10, <2>1
  <2>2. CASE f \notin told
    BY <1>1, <1>8, <1>10, <2>2
  <2> QED BY <2>1, <2>2
<1> QED BY <1>1, <1>4, <1>6, <1>8, <1>9, <1>10, PlaceMoves

(* Whoever works on a place is crossed by another one.                      *)
LEMMA CrossedKeeps ==
  ASSUME EnrichmentInv, NEW p \in Site, NEW j \in Job, NEW ends \in BOOLEAN,
         place' = p, moved' = Field, UNCHANGED <<storyRows, facts, cached>>,
         job' = IF ends THEN [Crossed(Job) EXCEPT ![j] = NoJob] ELSE Crossed(Job)
  PROVE  EnrichmentInv'
<1>1. UNCHANGED name /\ UNCHANGED facts /\ UNCHANGED cached /\ UNCHANGED storyRows
  BY DEF storyRows
<1>2. NoJob \in JobRecord /\ JobStage(NoJob) /\ NoJob.op = "none"
  BY DEF NoJob, JobRecord, Lang, MaybeStory, JobStage
<1>3. ASSUME NEW i \in Job
      PROVE  job'[i] \in JobRecord /\ JobStage(job'[i]) /\ JobKnows(job[i])'
  <2>1. job[i] \in JobRecord /\ JobStage(job[i]) /\ JobKnows(job[i])
    BY InJob
  <2> DEFINE q == [job[i] EXCEPT !.crossed = TRUE]
  <2>2. /\ q.op = job[i].op /\ q.pc = job[i].pc /\ q.meal = job[i].meal /\ q.key = job[i].key
        /\ q.lang = job[i].lang /\ q.story = job[i].story /\ q.crossed /\ q \in JobRecord
    BY <2>1 DEF JobRecord
  <2>3. \/ job'[i] = NoJob
        \/ job'[i] = q /\ job[i].op \in {"place", "find"}
        \/ job'[i] = job[i] /\ job[i].op \notin {"place", "find"}
    BY DEF Crossed
  <2> HIDE DEF q
  <2>4. CASE job'[i] = NoJob
    BY <1>2, <2>4 DEF JobKnows
  <2>5. CASE job'[i] = q /\ job[i].op \in {"place", "find"}
    <3>1. JobStage(q)
      BY <2>1, <2>2, <2>5 DEF JobStage
    <3>2. JobKnows(job[i])'
      BY <1>1, <2>1, <2>2, <2>5 DEF JobKnows
    <3> QED BY <2>2, <2>5, <3>1, <3>2
  <2>6. CASE job'[i] = job[i] /\ job[i].op \notin {"place", "find"}
    BY <1>1, <2>1, <2>6 DEF JobKnows
  <2> QED BY <2>3, <2>4, <2>5, <2>6
<1>4. job' = [i \in Job |-> job'[i]]
  BY DEF Crossed
<1>5. job' \in [Job -> JobRecord]
  BY <1>3, <1>4
<1> QED BY <1>1, <1>3, <1>5, PlaceMoves DEF EnrichmentInv, EnrichmentTypeOK

LEMMA ExpireKeeps ==
  ASSUME EnrichmentInv, Expire
  PROVE  EnrichmentInv'
<1>1. /\ cached' = FALSE /\ UNCHANGED place /\ UNCHANGED facts /\ UNCHANGED moved
      /\ UNCHANGED storyRows /\ UNCHANGED job /\ UNCHANGED name
  BY DEF Expire, storyRows
<1>2. \A i \in Job : JobStage(job'[i]) /\ JobKnows(job[i])'
  BY <1>1, InJob DEF JobKnows
<1> QED BY <1>1, <1>2, PlaceMoves DEF EnrichmentInv, EnrichmentTypeOK, EnrichmentHolds

LEMMA EnrichmentStep ==
  ASSUME EnrichmentInv, [EnrichmentNext]_enrichmentVars
  PROVE  EnrichmentInv'
<1>1. ASSUME NEW j \in Job, NEW m \in Meal, NEW lang \in Lang, NEW force \in BOOLEAN,
             BeginStory(j, m, lang, force)
      PROVE  EnrichmentInv'
  BY <1>1, BeginStoryKeeps
<1>2. ASSUME NEW j \in Job, LoadMeal(j) \/ ReadCache(j) \/ GenerateBlurb(j) \/ StoreBlurb(j)
      PROVE  EnrichmentInv'
  BY <1>2, LoadMealKeeps, ReadCacheKeeps, GenerateBlurbKeeps, StoreBlurbKeeps
<1>3. ASSUME NEW m \in Meal, NEW new \in Name \cup {Nothing}, UpdateMeal(m, new)
      PROVE  EnrichmentInv'
  BY <1>3, UpdateMealKeeps
<1>4. CASE ClearCache \/ Release
  BY <1>4, ClearCacheKeeps, ReleaseKeeps
<1>5. ASSUME NEW j \in Job, NEW force \in BOOLEAN, BeginPlace(j, force)
      PROVE  EnrichmentInv'
  BY <1>5, BeginPlaceKeeps
<1>6. ASSUME NEW j \in Job,
             BeginFind(j) \/ FetchPlace(j) \/ \E told \in SUBSET Field : StorePlace(j, told)
      PROVE  EnrichmentInv'
  BY <1>6, BeginFindKeeps, FetchPlaceKeeps, StorePlaceKeeps
<1>7. ASSUME NEW j \in Job, StoreFound(j)
      PROVE  EnrichmentInv'
  <2>1. job[j].key \in Site
    BY <1>7, InJob DEF StoreFound, JobStage
  <2>2. /\ place' = job[j].key /\ moved' = Field /\ UNCHANGED <<storyRows, facts, cached>>
        /\ job' = [Crossed(Job) EXCEPT ![j] = NoJob]
    BY <1>7 DEF StoreFound
  <2> QED BY <2>1, <2>2, CrossedKeeps
<1>8. ASSUME NEW p \in Site, SetPlace(p)
      PROVE  EnrichmentInv'
  <2>1. /\ place' = p /\ moved' = Field /\ UNCHANGED <<storyRows, facts, cached>>
        /\ job' = Crossed(Job)
    BY <1>8 DEF SetPlace
  <2>2. CASE Job = {}
    <3>1. job' \in [Job -> JobRecord] /\ \A i \in Job : JobStage(job'[i]) /\ JobKnows(job[i])'
      BY <2>1, <2>2 DEF Crossed
    <3> QED BY <2>1, <3>1, PlaceMoves DEF EnrichmentInv, EnrichmentTypeOK
  <2>3. ASSUME NEW j \in Job PROVE EnrichmentInv'
    BY <2>1, CrossedKeeps
  <2> QED BY <2>2, <2>3
<1>9. CASE Expire
  BY <1>9, ExpireKeeps
<1>10. CASE UNCHANGED enrichmentVars
  <2>1. /\ UNCHANGED name /\ UNCHANGED blurb /\ UNCHANGED cache /\ UNCHANGED lapsed
        /\ UNCHANGED place /\ UNCHANGED facts /\ UNCHANGED cached /\ UNCHANGED moved
        /\ UNCHANGED job
    BY <1>10 DEF enrichmentVars
  <2> QED BY <2>1 DEF EnrichmentInv, EnrichmentTypeOK, EnrichmentHolds, JobStage, JobKnows
<1>11. CASE StoryNext
  BY <1>11, <1>1, <1>2, <1>3, <1>4 DEF StoryNext
<1>12. CASE PlaceNext
  BY <1>12, <1>5, <1>6, <1>7, <1>8, <1>9 DEF PlaceNext
<1> QED BY <1>10, <1>11, <1>12 DEF EnrichmentNext

THEOREM EnrichmentInvariant == EnrichmentSpec => []EnrichmentInv
<1>1. EnrichmentInv /\ [EnrichmentNext]_enrichmentVars => EnrichmentInv'
  BY EnrichmentStep
<1> QED BY <1>1, EnrichmentStarts, PTL DEF EnrichmentSpec

(* A cached story answers its own name and language only; a story on a dish *)
(* and Google's data on a restaurant are of what the row is now, or were    *)
(* crossed (StoreBlurb, StorePlace).                                        *)
THEOREM StoriesAreOfTheirDish == EnrichmentSpec => []EnrichmentHolds
<1>1. EnrichmentInv => EnrichmentHolds
  BY DEF EnrichmentInv
<1> QED BY <1>1, EnrichmentInvariant, PTL

HIDE EnrichmentAssumption

------------------------------------------------------------------------------
(* The owner's desk.                                                        *)

SeatStage(q) ==
  /\ q.op = "none" <=> q.pc = "none"
  /\ q.pc = "none" => q = NoSeat
  /\ q.op \in {"cover", "uncover", "answer", "withdraw"} => q.pc \in {"look", "write", "commit"}
  /\ q.op = "promote" => q.pc = "write"
  /\ q.op \in {"add", "remove"} => q.pc \in {"look", "commit"}
  /\ q.op \in {"upload", "erase"} => q.pc \in {"file", "commit"}

(* Who has counted the photos and adds one; who writes the answer.          *)
IsAdding(q) == q.op = "add" /\ q.pc = "commit"
Adding == {s \in Seat : IsAdding(desk[s])}
Answers(q) == q.op \in {"answer", "withdraw"} /\ q.pc = "commit"

(* The script is crossed by the claim; the row of the answer is as it was   *)
(* seen by who has locked it; an upload is alone with its new file.         *)
SeatKnows(s, q) ==
  /\ q.op = "promote" /\ owned => q.crossed
  /\ Answers(q) <=> answerLock = s
  /\ Answers(q) => answer = q.saw
  /\ q.op = "upload" => ~image /\ (q.pc = "commit" => file)

SeatsApart(q, r) == q.op = "upload" => r.op \notin {"upload", "erase"}

ImageWhole == image /\ ~file => halved \/ \E s \in Seat : Sits(s, "erase", "commit")

DeskInv ==
  /\ DeskTypeOK
  /\ \A s \in Seat : SeatStage(desk[s]) /\ SeatKnows(s, desk[s])
  /\ \A r \in Seat : \A s \in Seat \ {r} : SeatsApart(desk[r], desk[s])
  /\ IsFiniteSet(photos)
  /\ Cardinality(photos) + Cardinality(Adding) <= PhotoCap + Cardinality(Seat) - 1
  /\ answerTold <= 1 /\ (~answer => answerTold = 0)
  /\ ImageWhole

USE OwnerDeskAssumption

LEMMA AddingIsFinite ==
  /\ IsFiniteSet(Adding) /\ Cardinality(Adding) \in Nat /\ Cardinality(Seat) \in Nat
  /\ Cardinality(Adding) <= Cardinality(Seat)
<1>1. Adding \subseteq Seat
  BY DEF Adding
<1>2. IsFiniteSet(Adding) /\ Cardinality(Adding) <= Cardinality(Seat)
  BY ONLY <1>1, OwnerDeskAssumption, FS_Subset
<1> QED BY ONLY <1>2, OwnerDeskAssumption, FS_CardinalityType

LEMMA InSeat ==
  ASSUME DeskInv, NEW s \in Seat
  PROVE  /\ desk[s] \in SeatRecord /\ SeatStage(desk[s]) /\ SeatKnows(s, desk[s])
         /\ desk = [r \in Seat |-> desk[r]]
BY DEF DeskInv, DeskTypeOK

LEMMA DeskStarts == DeskInit => DeskInv
<1> SUFFICES ASSUME DeskInit PROVE DeskInv
  OBVIOUS
<1>1. NoSeat \in SeatRecord /\ NoSeat.op = "none" /\ NoSeat.pc = "none"
  BY DEF NoSeat, SeatRecord, DeskOp
<1>2. DeskTypeOK
  <2>1. desk \in [Seat -> SeatRecord]
    BY <1>1 DEF DeskInit
  <2>2. 0 \in 0 .. 2
    OBVIOUS
  <2> QED BY <2>1, <2>2 DEF DeskInit, DeskTypeOK
<1>3. Adding = {} /\ photos = {} /\ IsFiniteSet({}) /\ Cardinality({}) = 0
  BY <1>1, FS_EmptySet DEF DeskInit, Adding, IsAdding
<1>4. Cardinality(photos) + Cardinality(Adding) <= PhotoCap + Cardinality(Seat) - 1
  <2>1. PhotoCap \in Nat \ {0} /\ Cardinality(Seat) \in Nat
    BY AddingIsFinite
  <2> QED BY ONLY <1>3, <2>1
<1>5. \A s \in Seat : SeatStage(desk[s]) /\ SeatKnows(s, desk[s])
  BY <1>1 DEF DeskInit, SeatStage, SeatKnows, Answers
<1>6. \A r, s \in Seat : SeatsApart(desk[r], desk[s])
  BY <1>1 DEF DeskInit, SeatsApart
<1> QED BY <1>2, <1>3, <1>4, <1>5, <1>6 DEF DeskInv, DeskInit, ImageWhole

(* Fewer or no more who add: the count stays within its bound.              *)
LEMMA NoMoreAdding ==
  ASSUME DeskInv, UNCHANGED photos, \A s \in Seat : IsAdding(desk'[s]) => IsAdding(desk[s])
  PROVE  Cardinality(photos)' + Cardinality(Adding)' <= PhotoCap + Cardinality(Seat) - 1
<1>1. Adding' \subseteq Adding
  BY DEF Adding
<1>2. IsFiniteSet(Adding')
  BY ONLY <1>1, AddingIsFinite, FS_Subset
<1>3. Cardinality(Adding') <= Cardinality(Adding) /\ Cardinality(Adding') \in Nat
  BY ONLY <1>1, <1>2, AddingIsFinite, FS_Subset, FS_CardinalityType
<1>4. Cardinality(photos) \in Nat
  BY FS_CardinalityType DEF DeskInv
<1>5. Cardinality(photos) + Cardinality(Adding) <= PhotoCap + Cardinality(Seat) - 1
  BY DEF DeskInv
<1>6. Cardinality(photos)' = Cardinality(photos) /\ Cardinality(Adding)' = Cardinality(Adding')
  OBVIOUS
<1> QED BY <1>3, <1>4, <1>5, <1>6, AddingIsFinite

(* One request moves, and neither the answer nor the image does.            *)
LEMMA SeatTurns ==
  ASSUME DeskInv, NEW s \in Seat, NEW q \in SeatRecord, GoesOn(s, q),
         UNCHANGED <<owned, answerRows, imageRows>>, photos' \subseteq Photo, IsFiniteSet(photos'),
         Cardinality(photos)' + Cardinality(Adding)' <= PhotoCap + Cardinality(Seat) - 1,
         cover' \in {"none", "fans", "owner"}, coverLock' \in Seat \cup {Unlocked},
         SeatStage(q), SeatKnows(s, q), q.op \in {desk[s].op, "none", "cover", "uncover",
           "promote", "add", "remove", "answer", "withdraw", "erase"},
         q.op # desk[s].op /\ q.op = "erase" => image,
         Sits(s, "erase", "commit") => q = desk[s]
  PROVE  DeskInv'
<1>1. desk' \in [Seat -> SeatRecord] /\ \A r \in Seat : desk'[r] = IF r = s THEN q ELSE desk[r]
  BY DEF GoesOn, DeskInv, DeskTypeOK
<1>2. /\ UNCHANGED owned /\ UNCHANGED reviewThere /\ UNCHANGED answer
      /\ UNCHANGED answerTold /\ UNCHANGED answerLock /\ UNCHANGED file /\ UNCHANGED image
      /\ UNCHANGED halved
  BY DEF answerRows, imageRows
<1>3. DeskTypeOK'
  BY <1>1, <1>2 DEF DeskInv, DeskTypeOK
<1>4. \A r \in Seat : SeatStage(desk'[r]) /\ SeatKnows(r, desk[r])'
  BY <1>1, <1>2, InSeat DEF SeatKnows
<1>5. ASSUME NEW r \in Seat, NEW p \in Seat \ {r}
      PROVE  SeatsApart(desk'[r], desk'[p])
  <2>1. SeatsApart(desk[r], desk[p])
    BY DEF DeskInv
  <2>2. desk[r].op = "upload" => ~image
    BY InSeat DEF SeatKnows
  <2> QED BY <1>1, <2>1, <2>2 DEF SeatsApart
<1>6. ImageWhole'
  BY <1>1, <1>2 DEF DeskInv, ImageWhole, Sits
<1> QED BY <1>2, <1>3, <1>4, <1>5, <1>6 DEF DeskInv

(* Nor do the photos.                                                       *)
LEMMA SeatMoves ==
  ASSUME DeskInv, NEW s \in Seat, NEW q \in SeatRecord, GoesOn(s, q),
         UNCHANGED <<owned, photos, answerRows, imageRows>>,
         cover' \in {"none", "fans", "owner"}, coverLock' \in Seat \cup {Unlocked},
         SeatStage(q), SeatKnows(s, q), q.op \in {desk[s].op, "none", "cover", "uncover",
           "promote", "add", "remove", "answer", "withdraw", "erase"},
         IsAdding(q) => IsAdding(desk[s]),
         q.op # desk[s].op /\ q.op = "erase" => image,
         Sits(s, "erase", "commit") => q = desk[s]
  PROVE  DeskInv'
<1>1. /\ UNCHANGED <<owned, answerRows, imageRows>> /\ UNCHANGED photos
      /\ photos \subseteq Photo /\ IsFiniteSet(photos)
  BY DEF DeskInv, DeskTypeOK
<1>2. \A r \in Seat : IsAdding(desk'[r]) => IsAdding(desk[r])
  BY DEF GoesOn, DeskInv, DeskTypeOK
<1>3. Cardinality(photos)' + Cardinality(Adding)' <= PhotoCap + Cardinality(Seat) - 1
  BY <1>1, <1>2, NoMoreAdding
<1> QED BY <1>1, <1>3, SeatTurns

LEMMA NoSeatStands ==
  NoSeat \in SeatRecord /\ SeatStage(NoSeat) /\ NoSeat.op = "none" /\ NoSeat.pc = "none"
BY DEF NoSeat, SeatRecord, DeskOp, SeatStage

(* A request ends that has neither written the answer nor removed a file.   *)
LEMMA SeatEnds ==
  ASSUME DeskInv, NEW s \in Seat, Leaves(s), UNCHANGED <<owned, photos, answerRows, imageRows>>,
         cover' \in {"none", "fans", "owner"}, coverLock' \in Seat \cup {Unlocked},
         ~Answers(desk[s]), ~Sits(s, "erase", "commit")
  PROVE  DeskInv'
<1>1. answerLock # s
  BY InSeat DEF SeatKnows
<1>2. SeatKnows(s, NoSeat)
  BY <1>1, NoSeatStands DEF SeatKnows, Answers
<1>3. ~IsAdding(NoSeat)
  BY NoSeatStands DEF IsAdding
<1> QED BY <1>2, <1>3, NoSeatStands, SeatMoves DEF Leaves

(* A request goes one step on.                                              *)
LEMMA SeatSteps ==
  ASSUME DeskInv, NEW s \in Seat, NEW q, NEW pc \in {"look", "write", "file", "commit"},
         q = [desk[s] EXCEPT !.pc = pc]
  PROVE  /\ q \in SeatRecord /\ q.op = desk[s].op /\ q.pc = pc /\ q.saw = desk[s].saw
         /\ q.photo = desk[s].photo /\ q.crossed = desk[s].crossed
BY InSeat DEF SeatRecord

LEMMA BeginOwnerKeeps ==
  ASSUME DeskInv, NEW s \in Seat, NEW op \in {"cover", "uncover", "add", "remove", "answer", "withdraw"},
         NEW admin \in BOOLEAN, BeginOwner(s, op, admin)
  PROVE  DeskInv'
<1> DEFINE q == [NoSeat EXCEPT !.op = op, !.pc = "look"]
<1>1. q \in SeatRecord /\ q.op = op /\ q.pc = "look"
  BY DEF NoSeat, SeatRecord, DeskOp
<1>2. GoesOn(s, q)
  BY DEF BeginOwner
<1> HIDE DEF q
<1>3. desk[s].op = "none" /\ desk[s].pc = "none" /\ answerLock # s
  BY InSeat DEF BeginOwner, SeatStage, SeatKnows, Answers
<1>4. SeatStage(q) /\ ~Answers(q) /\ ~IsAdding(q)
  BY <1>1 DEF SeatStage, Answers, IsAdding
<1>5. SeatKnows(s, q)
  BY <1>1, <1>3, <1>4 DEF SeatKnows
<1>6. UNCHANGED <<owned, photos, answerRows, imageRows>> /\ UNCHANGED cover /\ UNCHANGED coverLock
  BY DEF BeginOwner, coverRows
<1>7. cover \in {"none", "fans", "owner"} /\ coverLock \in Seat \cup {Unlocked}
  BY DEF DeskInv, DeskTypeOK
<1>8. ~Sits(s, "erase", "commit")
  BY <1>3 DEF Sits
<1> QED BY <1>1, <1>2, <1>3, <1>4, <1>5, <1>6, <1>7, <1>8, SeatMoves

LEMMA BeginPromotionKeeps ==
  ASSUME DeskInv, NEW s \in Seat, BeginPromotion(s)
  PROVE  DeskInv'
<1> DEFINE q == [NoSeat EXCEPT !.op = "promote", !.pc = "write"]
<1>1. q \in SeatRecord /\ q.op = "promote" /\ q.pc = "write"
  BY DEF NoSeat, SeatRecord, DeskOp
<1>2. GoesOn(s, q) /\ ~owned
  BY DEF BeginPromotion
<1> HIDE DEF q
<1>3. desk[s].op = "none" /\ desk[s].pc = "none" /\ answerLock # s
  BY InSeat DEF BeginPromotion, SeatStage, SeatKnows, Answers
<1>4. SeatStage(q) /\ ~Answers(q) /\ ~IsAdding(q)
  BY <1>1 DEF SeatStage, Answers, IsAdding
<1>5. SeatKnows(s, q)
  BY <1>1, <1>2, <1>3, <1>4 DEF SeatKnows
<1>6. UNCHANGED <<owned, photos, answerRows, imageRows>> /\ UNCHANGED cover /\ UNCHANGED coverLock
  BY DEF BeginPromotion, coverRows
<1>7. cover \in {"none", "fans", "owner"} /\ coverLock \in Seat \cup {Unlocked}
  BY DEF DeskInv, DeskTypeOK
<1>8. ~Sits(s, "erase", "commit")
  BY <1>3 DEF Sits
<1> QED BY <1>1, <1>2, <1>3, <1>4, <1>5, <1>6, <1>7, <1>8, SeatMoves

LEMMA CoverKeeps ==
  ASSUME DeskInv, NEW s \in Seat, LookAtDish(s) \/ WriteCover(s) \/ CommitCover(s) \/ Promote(s)
  PROVE  DeskInv'
<1>1. /\ UNCHANGED <<owned, photos, answerRows, imageRows>>
      /\ desk[s].op \in {"cover", "uncover", "promote"}
      /\ cover' \in {"none", "fans", "owner"} /\ coverLock' \in Seat \cup {Unlocked}
  BY DEF LookAtDish, WriteCover, CommitCover, Promote, Sits, coverRows, DeskInv, DeskTypeOK
<1>2. ~Answers(desk[s]) /\ ~Sits(s, "erase", "commit") /\ answerLock # s
  BY <1>1, InSeat DEF Answers, Sits, SeatKnows
<1>3. CASE Leaves(s)
  BY <1>1, <1>2, <1>3, SeatEnds
<1>4. ASSUME NEW pc \in {"write", "commit"}, Steps(s, pc), desk[s].op \in {"cover", "uncover"}
      PROVE  DeskInv'
  <2> DEFINE q == [desk[s] EXCEPT !.pc = pc]
  <2>1. GoesOn(s, q)
    BY <1>4 DEF Steps
  <2>2. q \in SeatRecord /\ q.op = desk[s].op /\ q.pc = pc
    BY SeatSteps
  <2> HIDE DEF q
  <2>3. SeatStage(q) /\ ~Answers(q) /\ ~IsAdding(q)
    BY <1>4, <2>2 DEF SeatStage, Answers, IsAdding
  <2>4. SeatKnows(s, q)
    BY <1>2, <1>4, <2>2, <2>3 DEF SeatKnows
  <2> QED BY <1>1, <1>2, <2>1, <2>2, <2>3, <2>4, SeatMoves
<1> QED BY <1>3, <1>4 DEF LookAtDish, WriteCover, CommitCover, Promote, Sits

LEMMA FindPhotoKeeps ==
  ASSUME DeskInv, NEW s \in Seat, NEW p \in Photo, FindPhoto(s, p)
  PROVE  DeskInv'
<1>1. /\ UNCHANGED <<owned, photos, answerRows, imageRows>>
      /\ desk[s].op = "remove" /\ desk[s].pc = "look"
      /\ cover' \in {"none", "fans", "owner"} /\ coverLock' \in Seat \cup {Unlocked}
  BY DEF FindPhoto, Sits, coverRows, DeskInv, DeskTypeOK
<1>2. ~Answers(desk[s]) /\ ~Sits(s, "erase", "commit") /\ answerLock # s
  BY <1>1, InSeat DEF Answers, Sits, SeatKnows
<1> DEFINE q == [desk[s] EXCEPT !.pc = "commit", !.photo = {p}]
<1>3. q \in SeatRecord /\ q.op = desk[s].op /\ q.pc = "commit"
  BY InSeat DEF SeatRecord
<1>4. GoesOn(s, q) \/ Leaves(s)
  BY DEF FindPhoto
<1> HIDE DEF q
<1>5. SeatStage(q) /\ ~Answers(q) /\ ~IsAdding(q)
  BY <1>1, <1>3 DEF SeatStage, Answers, IsAdding
<1>6. SeatKnows(s, q)
  BY <1>1, <1>2, <1>3, <1>5 DEF SeatKnows
<1>7. CASE GoesOn(s, q)
  BY <1>1, <1>2, <1>3, <1>5, <1>6, <1>7, SeatMoves
<1> QED BY <1>1, <1>2, <1>4, <1>7, SeatEnds

(* There is room for one more when it is counted, so for all who add then.  *)
LEMMA CountPhotosKeeps ==
  ASSUME DeskInv, NEW s \in Seat, CountPhotos(s)
  PROVE  DeskInv'
<1>1. /\ UNCHANGED <<owned, photos, answerRows, imageRows>> /\ UNCHANGED photos
      /\ UNCHANGED <<owned, answerRows, imageRows>>
      /\ desk[s].op = "add" /\ desk[s].pc = "look"
      /\ cover' \in {"none", "fans", "owner"} /\ coverLock' \in Seat \cup {Unlocked}
  BY DEF CountPhotos, Sits, coverRows, DeskInv, DeskTypeOK
<1>2. ~Answers(desk[s]) /\ ~Sits(s, "erase", "commit") /\ answerLock # s
  BY <1>1, InSeat DEF Answers, Sits, SeatKnows
<1>3. CASE Leaves(s)
  BY <1>1, <1>2, <1>3, SeatEnds
<1>4. CASE Steps(s, "commit") /\ ~(Cardinality(photos) >= PhotoCap)
  <2> DEFINE q == [desk[s] EXCEPT !.pc = "commit"]
  <2>1. GoesOn(s, q)
    BY <1>4 DEF Steps
  <2>2. q \in SeatRecord /\ q.op = desk[s].op /\ q.pc = "commit"
    BY SeatSteps
  <2> HIDE DEF q
  <2>3. SeatStage(q) /\ ~Answers(q)
    BY <1>1, <2>2 DEF SeatStage, Answers
  <2>4. SeatKnows(s, q)
    BY <1>1, <1>2, <2>2, <2>3 DEF SeatKnows
  <2>5. Adding' \subseteq Seat
    BY DEF Adding
  <2>6. Cardinality(Adding') \in Nat /\ Cardinality(Adding') <= Cardinality(Seat)
    BY ONLY <2>5, OwnerDeskAssumption, FS_Subset, FS_CardinalityType
  <2>7. photos \subseteq Photo /\ IsFiniteSet(photos) /\ Cardinality(photos) \in Nat
    BY FS_CardinalityType DEF DeskInv, DeskTypeOK
  <2>8. Cardinality(photos)' = Cardinality(photos) /\ Cardinality(Adding)' = Cardinality(Adding')
    BY <1>1
  <2>9. Cardinality(photos)' + Cardinality(Adding)' <= PhotoCap + Cardinality(Seat) - 1
    BY <1>4, <2>6, <2>7, <2>8, AddingIsFinite
  <2> QED BY <1>1, <1>2, <2>1, <2>2, <2>3, <2>4, <2>7, <2>9, SeatTurns
<1> QED BY <1>3, <1>4 DEF CountPhotos

LEMMA CommitPhotoKeeps ==
  ASSUME DeskInv, NEW s \in Seat, NEW p \in Photo, CommitPhoto(s, p)
  PROVE  DeskInv'
<1>1. /\ UNCHANGED <<owned, answerRows, imageRows>>
      /\ desk[s].op \in {"add", "remove"} /\ desk[s].pc = "commit" /\ GoesOn(s, NoSeat)
      /\ cover' \in {"none", "fans", "owner"} /\ coverLock' \in Seat \cup {Unlocked}
      /\ photos' \subseteq Photo
  BY DEF CommitPhoto, Sits, coverRows, DeskInv, DeskTypeOK, Leaves
<1>2. ~Sits(s, "erase", "commit") /\ answerLock # s
  BY <1>1, InSeat DEF Answers, Sits, SeatKnows
<1>3. ~Answers(NoSeat) /\ ~IsAdding(NoSeat) /\ SeatKnows(s, NoSeat)
  BY <1>2, NoSeatStands DEF SeatKnows, Answers, IsAdding
<1>4. \A r \in Seat : desk'[r] = IF r = s THEN NoSeat ELSE desk[r]
  BY <1>1 DEF GoesOn, DeskInv, DeskTypeOK
<1>5. IsFiniteSet(photos) /\ Cardinality(photos) \in Nat
  BY FS_CardinalityType DEF DeskInv
<1>6. Cardinality(photos) + Cardinality(Adding) <= PhotoCap + Cardinality(Seat) - 1
  BY DEF DeskInv
<1>7. IsFiniteSet(photos')
      /\ Cardinality(photos') + Cardinality(Adding') <= PhotoCap + Cardinality(Seat) - 1
  <2>1. CASE Sits(s, "add", "commit") /\ p \notin photos /\ photos' = photos \cup {p}
    <3>1. s \in Adding /\ Adding' = Adding \ {s}
      BY <1>3, <1>4, <2>1 DEF Adding, IsAdding, Sits
    <3>2. IsFiniteSet(photos \cup {p}) /\ Cardinality(photos \cup {p}) = Cardinality(photos) + 1
      BY ONLY <1>5, <2>1, FS_AddElement
    <3>3. Cardinality(Adding \ {s}) = Cardinality(Adding) - 1
      BY ONLY <3>1, AddingIsFinite, FS_RemoveElement
    <3> QED BY <1>5, <1>6, <2>1, <3>1, <3>2, <3>3, AddingIsFinite
  <2>2. CASE photos' = photos \ {p}
    <3>1. Adding' \subseteq Adding
      BY <1>3, <1>4 DEF Adding
    <3>2. Cardinality(Adding') \in Nat /\ Cardinality(Adding') <= Cardinality(Adding)
      BY ONLY <3>1, AddingIsFinite, FS_Subset, FS_CardinalityType
    <3>3. photos' \subseteq photos
      BY <2>2
    <3>4. /\ IsFiniteSet(photos') /\ Cardinality(photos') \in Nat
          /\ Cardinality(photos') <= Cardinality(photos)
      BY ONLY <1>5, <3>3, FS_Subset, FS_CardinalityType
    <3> QED BY <1>5, <1>6, <3>2, <3>4, AddingIsFinite
  <2> QED BY <2>1, <2>2 DEF CommitPhoto
<1>8. Cardinality(photos)' + Cardinality(Adding)' <= PhotoCap + Cardinality(Seat) - 1
  BY <1>7
<1> QED BY <1>1, <1>2, <1>3, <1>7, <1>8, NoSeatStands, SeatTurns

(* The answer is as it was when it was looked up, or nothing is written.    *)
LEMMA LookAtAnswerKeeps ==
  ASSUME DeskInv, NEW s \in Seat, LookAtAnswer(s)
  PROVE  DeskInv'
<1>1. /\ UNCHANGED <<owned, photos, answerRows, imageRows>>
      /\ desk[s].op \in {"answer", "withdraw"} /\ desk[s].pc = "look" /\ answer \in BOOLEAN
      /\ cover' \in {"none", "fans", "owner"} /\ coverLock' \in Seat \cup {Unlocked}
  BY DEF LookAtAnswer, Sits, coverRows, DeskInv, DeskTypeOK
<1>2. ~Answers(desk[s]) /\ ~Sits(s, "erase", "commit") /\ answerLock # s
  BY <1>1, InSeat DEF Answers, Sits, SeatKnows
<1> DEFINE q == [desk[s] EXCEPT !.pc = "write", !.saw = answer]
<1>3. q \in SeatRecord /\ q.op = desk[s].op /\ q.pc = "write"
  BY <1>1, InSeat DEF SeatRecord
<1>4. GoesOn(s, q) \/ Leaves(s)
  BY DEF LookAtAnswer
<1> HIDE DEF q
<1>5. SeatStage(q) /\ ~Answers(q) /\ ~IsAdding(q)
  BY <1>1, <1>3 DEF SeatStage, Answers, IsAdding
<1>6. SeatKnows(s, q)
  BY <1>1, <1>2, <1>3, <1>5 DEF SeatKnows
<1>7. CASE GoesOn(s, q)
  BY <1>1, <1>2, <1>3, <1>5, <1>6, <1>7, SeatMoves
<1> QED BY <1>1, <1>2, <1>4, <1>7, SeatEnds

(* A request writes the answer, and nobody else has it.                     *)
LEMMA AnswerTurns ==
  ASSUME DeskInv, NEW s \in Seat, NEW q \in SeatRecord, GoesOn(s, q),
         UNCHANGED <<owned, photos, reviewThere, imageRows>>,
         coverLock' \in Seat \cup {Unlocked}, UNCHANGED cover,
         answer' \in BOOLEAN, answerTold' \in {0, 1}, ~answer' => answerTold' = 0,
         answerLock' \in Seat \cup {Unlocked},
         SeatStage(q), q.op \in {desk[s].op, "none"}, desk[s].op \in {"answer", "withdraw"},
         Answers(q) <=> answerLock' = s, Answers(q) => answer' = q.saw,
         \A r \in Seat \ {s} : answerLock' = r <=> answerLock = r,
         \A r \in Seat \ {s} : answerLock = r => answer' = answer
  PROVE  DeskInv'
<1>1. desk' \in [Seat -> SeatRecord] /\ \A r \in Seat : desk'[r] = IF r = s THEN q ELSE desk[r]
  BY DEF GoesOn, DeskInv, DeskTypeOK
<1>2. /\ UNCHANGED owned /\ UNCHANGED photos /\ UNCHANGED reviewThere
      /\ UNCHANGED file /\ UNCHANGED image /\ UNCHANGED halved
  BY DEF imageRows
<1>3. DeskTypeOK'
  BY <1>1, <1>2 DEF DeskInv, DeskTypeOK
<1>4. ASSUME NEW r \in Seat
      PROVE  SeatStage(desk'[r]) /\ SeatKnows(r, desk[r])'
  <2>1. CASE r = s
    BY <1>1, <2>1 DEF SeatKnows
  <2>2. CASE r # s
    <3>1. SeatStage(desk[r]) /\ SeatKnows(r, desk[r]) /\ desk'[r] = desk[r]
      BY <1>1, <2>2, InSeat
    <3>2. (answerLock' = r <=> answerLock = r) /\ (answerLock = r => answer' = answer)
      BY <2>2
    <3> QED BY <1>2, <3>1, <3>2 DEF SeatKnows
  <2> QED BY <2>1, <2>2
<1>5. ASSUME NEW r \in Seat, NEW p \in Seat \ {r}
      PROVE  SeatsApart(desk'[r], desk'[p])
  BY <1>1 DEF DeskInv, SeatsApart
<1>6. \A r \in Seat : IsAdding(desk'[r]) => IsAdding(desk[r])
  BY <1>1 DEF IsAdding
<1>7. Cardinality(photos)' + Cardinality(Adding)' <= PhotoCap + Cardinality(Seat) - 1
  BY <1>2, <1>6, NoMoreAdding
<1>8. ImageWhole'
  BY <1>1, <1>2 DEF DeskInv, ImageWhole, Sits
<1> QED BY <1>2, <1>3, <1>4, <1>5, <1>7, <1>8 DEF DeskInv

LEMMA WriteAnswerKeeps ==
  ASSUME DeskInv, NEW s \in Seat, WriteAnswer(s)
  PROVE  DeskInv'
<1>1. /\ UNCHANGED <<owned, photos, imageRows>> /\ UNCHANGED reviewThere /\ UNCHANGED answer
      /\ UNCHANGED answerTold /\ UNCHANGED <<owned, photos, reviewThere, imageRows>>
      /\ desk[s].op \in {"answer", "withdraw"} /\ desk[s].pc = "write" /\ answerLock = Unlocked
      /\ UNCHANGED cover /\ cover' \in {"none", "fans", "owner"}
      /\ coverLock' \in Seat \cup {Unlocked}
  BY DEF WriteAnswer, Sits, coverRows, DeskInv, DeskTypeOK
<1>2. answer \in BOOLEAN /\ answerTold \in {0, 1} /\ (~answer => answerTold = 0)
  BY DEF DeskInv, DeskTypeOK
<1>3. ~Answers(desk[s]) /\ ~Sits(s, "erase", "commit")
  BY <1>1 DEF Answers, Sits
<1>4. CASE Leaves(s) /\ UNCHANGED answerLock
  BY <1>1, <1>3, <1>4, SeatEnds DEF answerRows
<1>5. CASE answer = desk[s].saw /\ answerLock' = s /\ Steps(s, "commit")
  <2> DEFINE q == [desk[s] EXCEPT !.pc = "commit"]
  <2>1. GoesOn(s, q)
    BY <1>5 DEF Steps
  <2>2. q \in SeatRecord /\ q.op = desk[s].op /\ q.pc = "commit" /\ q.saw = desk[s].saw
    BY SeatSteps
  <2> HIDE DEF q
  <2>3. SeatStage(q) /\ Answers(q)
    BY <1>1, <2>2 DEF SeatStage, Answers
  <2>4. \A r \in Seat \ {s} : (answerLock' = r <=> answerLock = r)
    BY <1>1, <1>5
  <2> QED BY <1>1, <1>2, <1>5, <2>1, <2>2, <2>3, <2>4, AnswerTurns
<1> QED BY <1>4, <1>5 DEF WriteAnswer

LEMMA CommitAnswerKeeps ==
  ASSUME DeskInv, NEW s \in Seat, CommitAnswer(s)
  PROVE  DeskInv'
<1>1. /\ UNCHANGED <<owned, photos, reviewThere, imageRows>>
      /\ desk[s].op \in {"answer", "withdraw"} /\ desk[s].pc = "commit"
      /\ UNCHANGED cover /\ coverLock' \in Seat \cup {Unlocked} /\ GoesOn(s, NoSeat)
      /\ answerLock' = Unlocked /\ answer' = (desk[s].op = "answer")
  BY DEF CommitAnswer, Sits, coverRows, DeskInv, DeskTypeOK, Leaves
<1>2. answerLock = s /\ answer = desk[s].saw
  BY <1>1, InSeat DEF Answers, SeatKnows
<1>3. answer \in BOOLEAN /\ answerTold \in {0, 1} /\ (~answer => answerTold = 0)
  BY DEF DeskInv, DeskTypeOK
<1>4. answer' \in BOOLEAN /\ answerTold' \in {0, 1} /\ (~answer' => answerTold' = 0)
  <2>1. answerTold' = IF desk[s].op = "withdraw" THEN 0
                      ELSE IF FirstText(desk[s]) THEN answerTold + 1 ELSE answerTold
    BY DEF CommitAnswer
  <2>2. CASE desk[s].op = "withdraw"
    BY <1>1, <2>1, <2>2
  <2>3. CASE desk[s].op = "answer"
    <3>1. answer' = TRUE
      BY <1>1, <2>3
    <3>2. answerTold' \in {0, 1}
      BY <1>2, <1>3, <2>1, <2>3 DEF FirstText
    <3> QED BY <3>1, <3>2
  <2> QED BY <1>1, <2>2, <2>3
<1>5. ~Answers(NoSeat)
  BY NoSeatStands DEF Answers
<1>6. \A r \in Seat \ {s} : (answerLock' = r <=> answerLock = r) /\ answerLock # r
  BY <1>1, <1>2
<1> QED BY <1>1, <1>4, <1>5, <1>6, NoSeatStands, AnswerTurns

LEMMA DeleteReviewKeeps ==
  ASSUME DeskInv, DeleteReview
  PROVE  DeskInv'
<1>1. /\ UNCHANGED owned /\ UNCHANGED cover /\ UNCHANGED coverLock /\ UNCHANGED photos
      /\ UNCHANGED answerLock /\ UNCHANGED file /\ UNCHANGED image /\ UNCHANGED halved
      /\ UNCHANGED desk /\ answer' = FALSE /\ answerTold' = 0 /\ reviewThere' = FALSE
      /\ answerLock = Unlocked
  BY DEF DeleteReview, coverRows, imageRows
<1>2. DeskTypeOK'
  <2>1. 0 \in 0 .. 2 /\ {owned, TRUE, FALSE, file, image, halved} \subseteq BOOLEAN
    BY DEF DeskInv, DeskTypeOK
  <2> QED BY <1>1, <2>1 DEF DeskInv, DeskTypeOK
<1>3. ASSUME NEW r \in Seat
      PROVE  SeatStage(desk'[r]) /\ SeatKnows(r, desk[r])'
  BY <1>1, InSeat DEF SeatKnows
<1>4. Cardinality(photos)' + Cardinality(Adding)' <= PhotoCap + Cardinality(Seat) - 1
  BY <1>1, NoMoreAdding
<1>5. ImageWhole'
  BY <1>1 DEF DeskInv, ImageWhole, Sits
<1> QED BY <1>1, <1>2, <1>3, <1>4, <1>5 DEF DeskInv

(* A request touches the image, and no upload is beside it.                 *)
LEMMA ImageTurns ==
  ASSUME DeskInv, NEW s \in Seat, NEW q \in SeatRecord, GoesOn(s, q),
         UNCHANGED <<owned, coverRows, photos, answerRows>>,
         file' \in BOOLEAN, image' \in BOOLEAN, halved' \in BOOLEAN,
         SeatStage(q), desk[s].op \in {"none", "upload", "erase"},
         q.op \in {"none", "upload", "erase"}, q.op = "upload" => ~image' /\ (q.pc = "commit" => file'),
         \A r \in Seat \ {s} : desk[r].op # "upload",
         q.op = "upload" => \A r \in Seat \ {s} : desk[r].op \notin {"upload", "erase"},
         image' /\ ~file' => halved' \/ (q.op = "erase" /\ q.pc = "commit")
           \/ \E r \in Seat \ {s} : Sits(r, "erase", "commit")
  PROVE  DeskInv'
<1>1. desk' \in [Seat -> SeatRecord] /\ \A r \in Seat : desk'[r] = IF r = s THEN q ELSE desk[r]
  BY DEF GoesOn, DeskInv, DeskTypeOK
<1>2. /\ UNCHANGED owned /\ UNCHANGED cover /\ UNCHANGED coverLock /\ UNCHANGED photos
      /\ UNCHANGED reviewThere /\ UNCHANGED answer /\ UNCHANGED answerTold /\ UNCHANGED answerLock
  BY DEF coverRows, answerRows
<1>3. DeskTypeOK'
  BY <1>1, <1>2 DEF DeskInv, DeskTypeOK
<1>4. ASSUME NEW r \in Seat
      PROVE  SeatStage(desk'[r]) /\ SeatKnows(r, desk[r])'
  <2>1. CASE r = s
    <3>1. answerLock # s
      BY InSeat DEF SeatKnows, Answers
    <3> QED BY <1>1, <1>2, <2>1, <3>1 DEF SeatKnows, Answers
  <2>2. CASE r # s
    <3>1. SeatStage(desk[r]) /\ SeatKnows(r, desk[r]) /\ desk'[r] = desk[r]
      BY <1>1, <2>2, InSeat
    <3>2. desk[r].op # "upload"
      BY <2>2
    <3> QED BY <1>2, <3>1, <3>2 DEF SeatKnows
  <2> QED BY <2>1, <2>2
<1>5. ASSUME NEW r \in Seat, NEW p \in Seat \ {r}
      PROVE  SeatsApart(desk'[r], desk'[p])
  BY <1>1 DEF SeatsApart
<1>6. \A r \in Seat : IsAdding(desk'[r]) => IsAdding(desk[r])
  BY <1>1 DEF IsAdding
<1>7. Cardinality(photos)' + Cardinality(Adding)' <= PhotoCap + Cardinality(Seat) - 1
  BY <1>2, <1>6, NoMoreAdding
<1>8. ImageWhole'
  BY <1>1 DEF ImageWhole, Sits
<1> QED BY <1>2, <1>3, <1>4, <1>5, <1>7, <1>8 DEF DeskInv

LEMMA BeginUploadKeeps ==
  ASSUME DeskInv, NEW s \in Seat, BeginUpload(s)
  PROVE  DeskInv'
<1> DEFINE q == [NoSeat EXCEPT !.op = "upload", !.pc = "file"]
<1>1. q \in SeatRecord /\ q.op = "upload" /\ q.pc = "file"
  BY DEF NoSeat, SeatRecord, DeskOp
<1>2. GoesOn(s, q) /\ UNCHANGED <<owned, coverRows, photos, answerRows>> /\ ~image' /\ image' = image
      /\ file' = FALSE /\ halved' = FALSE
  BY DEF BeginUpload
<1> HIDE DEF q
<1>3. SeatStage(q)
  BY <1>1 DEF SeatStage
<1>4. \A r \in Seat : desk[r].op = "none"
  BY InSeat DEF BeginUpload, SeatStage
<1>5. image' \in BOOLEAN
  BY <1>2 DEF DeskInv, DeskTypeOK
<1> QED BY <1>1, <1>2, <1>3, <1>4, <1>5, ImageTurns

LEMMA BeginEraseKeeps ==
  ASSUME DeskInv, NEW s \in Seat, BeginErase(s)
  PROVE  DeskInv'
<1> DEFINE q == [NoSeat EXCEPT !.op = "erase", !.pc = "file"]
<1>1. q \in SeatRecord /\ q.op = "erase" /\ q.pc = "file"
  BY DEF NoSeat, SeatRecord, DeskOp
<1>2. /\ GoesOn(s, q) /\ UNCHANGED <<owned, coverRows, photos, answerRows>>
      /\ UNCHANGED image /\ UNCHANGED file /\ UNCHANGED halved /\ image
  BY DEF BeginErase, imageRows
<1> HIDE DEF q
<1>3. SeatStage(q)
  BY <1>1 DEF SeatStage
<1>4. desk[s].op = "none" /\ \A r \in Seat : desk[r].op # "upload"
  BY <1>2, InSeat DEF BeginErase, SeatStage, SeatKnows
<1>5. image' \in BOOLEAN /\ file' \in BOOLEAN /\ halved' \in BOOLEAN
  BY <1>2 DEF DeskInv, DeskTypeOK
<1>6. image' /\ ~file' => halved' \/ \E r \in Seat \ {s} : Sits(r, "erase", "commit")
  BY <1>2, <1>4 DEF DeskInv, ImageWhole, Sits
<1> QED BY <1>1, <1>2, <1>3, <1>4, <1>5, <1>6, ImageTurns

(* The file comes before its row, and goes before it.                       *)
LEMMA TouchFileKeeps ==
  ASSUME DeskInv, NEW s \in Seat, TouchFile(s)
  PROVE  DeskInv'
<1> DEFINE q == [desk[s] EXCEPT !.pc = "commit"]
<1>1. q \in SeatRecord /\ q.op = desk[s].op /\ q.pc = "commit"
  BY SeatSteps
<1>2. /\ GoesOn(s, q) /\ UNCHANGED <<owned, coverRows, photos, answerRows>>
      /\ UNCHANGED image /\ UNCHANGED halved /\ file' = (desk[s].op = "upload")
  BY DEF TouchFile, Steps
<1> HIDE DEF q
<1>3. desk[s].op \in {"upload", "erase"}
  BY InSeat DEF TouchFile, SeatStage, SeatRecord, DeskOp
<1>4. SeatStage(q)
  BY <1>1, <1>3 DEF SeatStage
<1>5. \A r \in Seat \ {s} : /\ SeatsApart(desk[r], desk[s]) /\ SeatsApart(desk[s], desk[r])
  BY DEF DeskInv
<1>6. /\ \A r \in Seat \ {s} : desk[r].op # "upload"
      /\ desk[s].op = "upload" => \A r \in Seat \ {s} : desk[r].op \notin {"upload", "erase"}
  BY <1>3, <1>5 DEF SeatsApart
<1>7. desk[s].op = "upload" => ~image
  BY InSeat DEF SeatKnows
<1>8. image' \in BOOLEAN /\ file' \in BOOLEAN /\ halved' \in BOOLEAN
  BY <1>2 DEF DeskInv, DeskTypeOK
<1> QED BY <1>1, <1>2, <1>3, <1>4, <1>6, <1>7, <1>8, ImageTurns

LEMMA CommitImageKeeps ==
  ASSUME DeskInv, NEW s \in Seat, CommitImage(s)
  PROVE  DeskInv'
<1>1. /\ GoesOn(s, NoSeat) /\ UNCHANGED <<owned, coverRows, photos, answerRows>>
      /\ UNCHANGED file /\ UNCHANGED halved /\ image' = (desk[s].op = "upload")
      /\ desk[s].op \in {"upload", "erase"} /\ desk[s].pc = "commit"
  BY DEF CommitImage, Leaves, Sits
<1>2. \A r \in Seat \ {s} : SeatsApart(desk[r], desk[s])
  BY DEF DeskInv
<1>3. \A r \in Seat \ {s} : desk[r].op # "upload"
  BY <1>1, <1>2 DEF SeatsApart
<1>4. desk[s].op = "upload" => file
  BY <1>1, InSeat DEF SeatKnows
<1>5. image' \in BOOLEAN /\ file' \in BOOLEAN /\ halved' \in BOOLEAN
  BY <1>1 DEF DeskInv, DeskTypeOK
<1>6. image' /\ ~file' => halved'
  BY <1>1, <1>4
<1> QED BY <1>1, <1>3, <1>5, <1>6, NoSeatStands, ImageTurns

(* A rollback leaves the file as it is, and remembers that it did.          *)
LEMMA CutSeatKeeps ==
  ASSUME DeskInv, NEW s \in Seat, CutSeat(s)
  PROVE  DeskInv'
<1>1. /\ UNCHANGED owned /\ UNCHANGED cover /\ UNCHANGED photos /\ UNCHANGED reviewThere
      /\ UNCHANGED answer /\ UNCHANGED answerTold /\ UNCHANGED file /\ UNCHANGED image
      /\ desk[s].pc = "commit"
      /\ coverLock' = IF coverLock = s THEN Unlocked ELSE coverLock
      /\ answerLock' = IF answerLock = s THEN Unlocked ELSE answerLock
      /\ halved' = (halved \/ desk[s].op = "erase")
  BY DEF CutSeat
<1>2. desk' \in [Seat -> SeatRecord] /\ \A r \in Seat : desk'[r] = IF r = s THEN NoSeat ELSE desk[r]
  BY NoSeatStands DEF CutSeat, Leaves, GoesOn, DeskInv, DeskTypeOK
<1>3. halved' \in BOOLEAN
  BY <1>1 DEF DeskInv, DeskTypeOK
<1>4. DeskTypeOK'
  BY <1>1, <1>2, <1>3 DEF DeskInv, DeskTypeOK
<1>5. ASSUME NEW r \in Seat
      PROVE  SeatStage(desk'[r]) /\ SeatKnows(r, desk[r])'
  <2>1. CASE r = s
    <3>1. desk'[r] = NoSeat /\ answerLock' # r
      BY <1>1, <1>2, <2>1
    <3> QED BY <3>1, NoSeatStands DEF SeatKnows, Answers
  <2>2. CASE r # s
    <3>1. SeatStage(desk[r]) /\ SeatKnows(r, desk[r]) /\ desk'[r] = desk[r]
      BY <1>2, <2>2, InSeat
    <3>2. answerLock' = r <=> answerLock = r
      BY <1>1, <2>2
    <3> QED BY <1>1, <3>1, <3>2 DEF SeatKnows
  <2> QED BY <2>1, <2>2
<1>6. ASSUME NEW r \in Seat, NEW p \in Seat \ {r}
      PROVE  SeatsApart(desk'[r], desk'[p])
  BY <1>2, NoSeatStands DEF DeskInv, SeatsApart
<1>7. \A r \in Seat : IsAdding(desk'[r]) => IsAdding(desk[r])
  BY <1>2, NoSeatStands DEF IsAdding
<1>8. Cardinality(photos)' + Cardinality(Adding)' <= PhotoCap + Cardinality(Seat) - 1
  BY <1>1, <1>7, NoMoreAdding
<1>9. ImageWhole'
  BY <1>1, <1>2 DEF DeskInv, ImageWhole, Sits
<1> QED BY <1>1, <1>4, <1>5, <1>6, <1>8, <1>9 DEF DeskInv

(* The claim crosses the script.                                            *)
LEMMA ChangeOwnerKeeps ==
  ASSUME DeskInv, ChangeOwner
  PROVE  DeskInv'
<1>1. /\ UNCHANGED cover /\ UNCHANGED coverLock /\ UNCHANGED photos /\ UNCHANGED reviewThere
      /\ UNCHANGED answer /\ UNCHANGED answerTold /\ UNCHANGED answerLock
      /\ UNCHANGED file /\ UNCHANGED image /\ UNCHANGED halved
  BY DEF ChangeOwner, coverRows, answerRows, imageRows
<1>2. owned \in BOOLEAN /\ owned' = ~owned
  BY DEF ChangeOwner, DeskInv, DeskTypeOK
<1>3. ASSUME NEW r \in Seat
      PROVE  /\ desk'[r] \in SeatRecord /\ desk'[r].op = desk[r].op /\ desk'[r].pc = desk[r].pc
             /\ desk'[r].saw = desk[r].saw /\ desk'[r].photo = desk[r].photo
             /\ desk[r].op # "promote" => desk'[r] = desk[r]
             /\ desk[r].op = "promote" /\ ~owned => desk'[r].crossed
  <2>1. desk'[r] = IF desk[r].op = "promote" /\ ~owned
                   THEN [desk[r] EXCEPT !.crossed = TRUE] ELSE desk[r]
    BY DEF ChangeOwner
  <2> QED BY <2>1, InSeat DEF SeatRecord
<1>4. desk' \in [Seat -> SeatRecord]
  BY <1>3 DEF ChangeOwner
<1>5. DeskTypeOK'
  BY <1>1, <1>2, <1>4 DEF DeskInv, DeskTypeOK
<1>6. ASSUME NEW r \in Seat
      PROVE  SeatStage(desk'[r]) /\ SeatKnows(r, desk[r])'
  <2>1. SeatStage(desk[r]) /\ SeatKnows(r, desk[r])
    BY InSeat
  <2>2. SeatStage(desk'[r])
    BY <1>3, <2>1, NoSeatStands DEF SeatStage
  <2>3. Answers(desk'[r]) <=> Answers(desk[r])
    BY <1>3 DEF Answers
  <2> QED BY <1>1, <1>2, <1>3, <2>1, <2>2, <2>3 DEF SeatKnows
<1>7. ASSUME NEW r \in Seat, NEW p \in Seat \ {r}
      PROVE  SeatsApart(desk'[r], desk'[p])
  BY <1>3 DEF DeskInv, SeatsApart
<1>8. \A r \in Seat : IsAdding(desk'[r]) => IsAdding(desk[r])
  BY <1>3 DEF IsAdding
<1>9. Cardinality(photos)' + Cardinality(Adding)' <= PhotoCap + Cardinality(Seat) - 1
  BY <1>1, <1>8, NoMoreAdding
<1>10. ImageWhole'
  BY <1>1, <1>3 DEF DeskInv, ImageWhole, Sits
<1> QED BY <1>1, <1>5, <1>6, <1>7, <1>9, <1>10 DEF DeskInv

LEMMA DeskRests == DeskInv /\ UNCHANGED deskVars => DeskInv'
<1> SUFFICES ASSUME DeskInv, UNCHANGED deskVars PROVE DeskInv'
  OBVIOUS
<1>1. /\ UNCHANGED owned /\ UNCHANGED cover /\ UNCHANGED coverLock /\ UNCHANGED photos
      /\ UNCHANGED reviewThere /\ UNCHANGED answer /\ UNCHANGED answerTold
      /\ UNCHANGED answerLock /\ UNCHANGED file /\ UNCHANGED image /\ UNCHANGED halved
      /\ UNCHANGED desk
  BY DEF deskVars
<1>2. DeskTypeOK' /\ ImageWhole'
  BY <1>1 DEF DeskInv, DeskTypeOK, ImageWhole, Sits
<1>3. ASSUME NEW r \in Seat
      PROVE  SeatStage(desk'[r]) /\ SeatKnows(r, desk[r])'
  BY <1>1, InSeat DEF SeatKnows
<1>4. Cardinality(photos)' + Cardinality(Adding)' <= PhotoCap + Cardinality(Seat) - 1
  BY <1>1, NoMoreAdding
<1> QED BY <1>1, <1>2, <1>3, <1>4 DEF DeskInv

LEMMA DeskStep == DeskInv /\ [DeskNext]_deskVars => DeskInv'
<1> SUFFICES ASSUME DeskInv, [DeskNext]_deskVars PROVE DeskInv'
  OBVIOUS
<1>1. CASE UNCHANGED deskVars
  BY <1>1, DeskRests
<1>2. CASE CoverNext
  <2>1. ASSUME NEW s \in Seat, NEW op \in {"cover", "uncover"}, NEW admin \in BOOLEAN, BeginOwner(s, op, admin)
        PROVE  DeskInv'
    BY <2>1, BeginOwnerKeeps
  <2>2. ASSUME NEW s \in Seat, BeginPromotion(s)
        PROVE  DeskInv'
    BY <2>2, BeginPromotionKeeps
  <2>3. ASSUME NEW s \in Seat, LookAtDish(s) \/ WriteCover(s) \/ CommitCover(s) \/ Promote(s)
        PROVE  DeskInv'
    BY <2>3, CoverKeeps
  <2>4. ASSUME NEW s \in Seat, CutSeat(s)
        PROVE  DeskInv'
    BY <2>4, CutSeatKeeps
  <2> QED BY <1>2, <2>1, <2>2, <2>3, <2>4, ChangeOwnerKeeps DEF CoverNext
<1>3. CASE PhotoNext
  <2>1. ASSUME NEW s \in Seat, NEW op \in {"add", "remove"}, NEW admin \in BOOLEAN, BeginOwner(s, op, admin)
        PROVE  DeskInv'
    BY <2>1, BeginOwnerKeeps
  <2>2. ASSUME NEW s \in Seat, NEW p \in Photo, FindPhoto(s, p) \/ CommitPhoto(s, p)
        PROVE  DeskInv'
    BY <2>2, FindPhotoKeeps, CommitPhotoKeeps
  <2>3. ASSUME NEW s \in Seat, CountPhotos(s) \/ CutSeat(s)
        PROVE  DeskInv'
    BY <2>3, CountPhotosKeeps, CutSeatKeeps
  <2> QED BY <1>3, <2>1, <2>2, <2>3, ChangeOwnerKeeps DEF PhotoNext
<1>4. CASE AnswerNext
  <2>1. ASSUME NEW s \in Seat, NEW op \in {"answer", "withdraw"}, NEW admin \in BOOLEAN, BeginOwner(s, op, admin)
        PROVE  DeskInv'
    BY <2>1, BeginOwnerKeeps
  <2>2. ASSUME NEW s \in Seat, LookAtAnswer(s) \/ WriteAnswer(s) \/ CommitAnswer(s) \/ CutSeat(s)
        PROVE  DeskInv'
    BY <2>2, LookAtAnswerKeeps, WriteAnswerKeeps, CommitAnswerKeeps, CutSeatKeeps
  <2> QED BY <1>4, <2>1, <2>2, DeleteReviewKeeps, ChangeOwnerKeeps DEF AnswerNext
<1>5. CASE ImageNext
  BY <1>5, BeginUploadKeeps, BeginEraseKeeps, TouchFileKeeps, CommitImageKeeps, CutSeatKeeps
     DEF ImageNext
<1> QED BY <1>1, <1>2, <1>3, <1>4, <1>5 DEF DeskNext

THEOREM DeskInvariant == DeskSpec => []DeskInv
<1> QED BY DeskStarts, DeskStep, PTL DEF DeskSpec

(* Only the script sets a cover of the fans, and only where there is none.  *)
LEMMA FansByPromotion ==
  ASSUME DeskInv, [DeskNext]_deskVars, cover' = "fans", cover # "fans"
  PROVE  /\ cover = "none"
         /\ owned => \E s \in Seat : Sits(s, "promote", "write") /\ desk[s].crossed
<1>1. PICK s \in Seat : Promote(s)
  <2>1. UNCHANGED cover \/ DeskNext
    BY DEF deskVars
  <2>2. /\ ChangeOwner \/ DeleteReview \/ ImageNext => UNCHANGED cover
        /\ \A s \in Seat : CommitCover(s) => cover' # "fans"
    BY DEF ChangeOwner, DeleteReview, ImageNext, BeginUpload, BeginErase, TouchFile, CommitImage,
           CutSeat, coverRows, CommitCover
  <2>3. ASSUME NEW s \in Seat
        PROVE  /\ \A op, admin : BeginOwner(s, op, admin) => UNCHANGED cover
               /\ LookAtDish(s) \/ WriteCover(s) \/ BeginPromotion(s) \/ CutSeat(s)
                    => UNCHANGED cover
               /\ CountPhotos(s) \/ LookAtAnswer(s) \/ WriteAnswer(s) \/ CommitAnswer(s)
                    => UNCHANGED cover
               /\ \A p \in Photo : FindPhoto(s, p) \/ CommitPhoto(s, p) => UNCHANGED cover
    BY DEF BeginOwner, LookAtDish, WriteCover, BeginPromotion, CutSeat, CountPhotos, LookAtAnswer,
           WriteAnswer, CommitAnswer, FindPhoto, CommitPhoto, coverRows
  <2>4. PhotoNext \/ AnswerNext => UNCHANGED cover
    BY <2>2, <2>3 DEF PhotoNext, AnswerNext
  <2> QED BY <2>1, <2>2, <2>3, <2>4 DEF DeskNext, CoverNext
<1>2. cover = "none" /\ Sits(s, "promote", "write")
  BY <1>1 DEF Promote, StillBare
<1>3. owned => desk[s].crossed
  BY <1>2, InSeat DEF Sits, SeatKnows
<1> QED BY <1>2, <1>3

(* The owner keeps the cover he chose, photos stay within their cap but for *)
(* additions at the same time, the mentions of an answer are told once, and *)
(* an image without its file is a deletion's that was rolled back           *)
(* (owner_content.py, promote_dish_covers.py, images.py).                   *)
THEOREM DeskIsKept == DeskSpec => DeskHolds
<1>1. DeskInv =>
        /\ Cardinality(photos) <= PhotoCap + Cardinality(Seat) - 1
        /\ answerTold <= 1
        /\ image /\ ~file => halved \/ \E s \in Seat : Sits(s, "erase", "commit")
  <2> SUFFICES ASSUME DeskInv
               PROVE  /\ Cardinality(photos) <= PhotoCap + Cardinality(Seat) - 1
                      /\ answerTold <= 1
                      /\ image /\ ~file => halved \/ \E s \in Seat : Sits(s, "erase", "commit")
    OBVIOUS
  <2>1. Cardinality(photos) \in Nat
    BY FS_CardinalityType DEF DeskInv
  <2>2. Cardinality(photos) <= PhotoCap + Cardinality(Seat) - 1
    BY <2>1, AddingIsFinite DEF DeskInv
  <2> QED BY <2>2 DEF DeskInv, ImageWhole
<1>2. DeskInv /\ [DeskNext]_deskVars =>
        [cover' = "fans" /\ cover # "fans" =>
          /\ cover = "none"
          /\ owned => \E s \in Seat : Sits(s, "promote", "write") /\ desk[s].crossed]_deskVars
  BY FansByPromotion
<1> QED BY <1>1, <1>2, DeskInvariant, PTL DEF DeskSpec, DeskHolds

HIDE OwnerDeskAssumption

------------------------------------------------------------------------------
(* The catalog.                                                             *)

PostStage(q) ==
  /\ q.op = "none" <=> q.pc = "free"
  /\ q.pc = "free" => q = Free
  /\ q.op = "create" => q.pc \in {"find", "insert", "commit"}
  /\ q.op = "dish" => q.pc \in {"serve", "commit"} /\ (q.pc = "commit" => "dish" \in q.adds)
  /\ q.op \in {"update", "erase"} => q.pc \in {"write", "commit"} /\ q.adds = {}
  /\ q.pc \in {"find", "slug", "insert"} => q.spot = None /\ q.adds = {}
  /\ q.pc \in {"dish", "serve", "write", "commit"} => q.spot \in Spot
  /\ "spot" \in q.adds => q.op \in {"post", "create"}
  /\ q.op = "create" /\ q.pc = "commit" => q.adds = {"spot"}

(* Who has put a place and a slug into the unique indexes.                  *)
HasEntry(q) == "spot" \in q.adds \/ (q.op = "update" /\ q.pc = "commit")

(* What a request adds to, or is about to commit to, is there; a new        *)
(* restaurant is not there yet; what a post has found is so, unless         *)
(* somebody has committed since; an entry clashes with no other row.        *)
PostKnows(q) ==
  /\ q.adds # {} \/ q.pc = "commit" => IsThere(q)
  /\ q.pc = "commit" /\ q.op = "post" => IsServed(q)
  /\ "spot" \in q.adds => ~spot[q.spot].there
  /\ q.op = "post" /\ q.place # None /\ q.spot # None /\ ~q.crossed /\ "spot" \notin q.adds =>
       spot[q.spot].place = q.place
  /\ q.op = "post" /\ q.place = None /\ ~q.crossed /\ (q.pc \in {"slug", "insert"} \/ "spot" \in q.adds) =>
       Standing = {}
  /\ HasEntry(q) => \A r \in Standing \ {q.spot} :
       /\ q.place # None => spot[r].place # q.place
       /\ q.slug = "base" => spot[r].slug # "base"
  /\ HasEntry(q) /\ q.slug = "base" => ~elsewhere

(* Nobody else refers to a new restaurant, entries differ, and a deletion   *)
(* is alone with what it deletes.                                           *)
PostsApart(q, e) ==
  /\ "spot" \in q.adds => e.spot # q.spot
  /\ HasEntry(q) /\ HasEntry(e) =>
       (q.place = None \/ q.place # e.place) /\ ~(q.slug = "base" /\ e.slug = "base")
  /\ q.op = "erase" /\ q.pc = "commit" /\ e.spot = q.spot => e.pc # "commit" /\ e.adds = {}

SpotsApart ==
  /\ \A r \in Spot : ~spot[r].there => ~spot[r].served
  /\ \A r, s \in Standing : r # s =>
       (spot[r].place = None \/ spot[r].place # spot[s].place) /\ ~(spot[r].slug = "base" /\ spot[s].slug = "base")
  /\ \A r \in Standing : spot[r].slug = "base" => ~elsewhere

CatalogInv ==
  /\ CatalogTypeOK
  /\ \A c \in Poster : PostStage(post[c]) /\ PostKnows(post[c])
  /\ \A c \in Poster : \A d \in Poster \ {c} : PostsApart(post[c], post[d])
  /\ SpotsApart

USE CatalogAssumption

LEMMA InPost ==
  ASSUME CatalogInv, NEW c \in Poster
  PROVE  post[c] \in PostRecord /\ PostStage(post[c]) /\ PostKnows(post[c])
BY DEF CatalogInv, CatalogTypeOK

LEMMA FreeStands ==
  /\ Free \in PostRecord /\ PostStage(Free) /\ PostKnows(Free) /\ ~HasEntry(Free)
  /\ Free.op = "none" /\ Free.pc = "free" /\ Free.adds = {} /\ Free.spot = None
  /\ Free.slug = "base"
BY DEF Free, PostRecord, PostStage, PostKnows, HasEntry, Slug

LEMMA CatalogStarts == CatalogInit => CatalogInv
<1> SUFFICES ASSUME CatalogInit PROVE CatalogInv
  OBVIOUS
<1>1. NoSpot \in SpotRow /\ ~NoSpot.there /\ ~NoSpot.served
  BY DEF NoSpot, SpotRow, Slug
<1>2. CatalogTypeOK
  BY <1>1, FreeStands DEF CatalogInit, CatalogTypeOK
<1>3. SpotsApart
  BY <1>1 DEF CatalogInit, SpotsApart, Standing
<1>4. \A c \in Poster : post[c] = Free
  BY DEF CatalogInit
<1>5. PostsApart(Free, Free)
  BY FreeStands DEF PostsApart
<1> QED BY <1>2, <1>3, <1>4, <1>5, FreeStands DEF CatalogInv

LEMMA AddedIsNew ==
  ASSUME CatalogInv, NEW c \in Poster, post[c].adds # {}
  PROVE  post[c].spot \in Spot /\ ("spot" \in post[c].adds => post[c].spot \notin Standing)
<1>1. post[c].pc \in {"dish", "serve", "write", "commit"}
  BY InPost, FreeStands DEF PostStage, PostRecord
<1> QED BY <1>1, InPost DEF PostStage, PostKnows, Standing

(* One request moves, and no row does.                                      *)
LEMMA PostMoves ==
  ASSUME CatalogInv, NEW c \in Poster, NEW q \in PostRecord, PostIs(c, q),
         PostStage(q), PostKnows(q),
         \A d \in Poster \ {c} : PostsApart(q, post[d]) /\ PostsApart(post[d], q)
  PROVE  CatalogInv'
<1>1. /\ UNCHANGED elsewhere /\ UNCHANGED spot /\ post' \in [Poster -> PostRecord]
      /\ \A d \in Poster : post'[d] = IF d = c THEN q ELSE post[d]
  BY DEF PostIs, CatalogInv, CatalogTypeOK
<1>2. CatalogTypeOK' /\ SpotsApart'
  BY <1>1 DEF CatalogInv, CatalogTypeOK, SpotsApart, Standing
<1>3. ASSUME NEW d \in Poster
      PROVE  PostStage(post'[d]) /\ PostKnows(post[d])'
  <2>1. PICK r : r = post'[d]
    OBVIOUS
  <2>2. PostStage(r) /\ PostKnows(r)
    BY <1>1, <2>1, InPost
  <2>3. PostKnows(r)'
    BY <1>1, <2>2 DEF PostKnows, IsThere, IsServed, Standing
  <2> QED BY <2>1, <2>2, <2>3 DEF PostKnows, IsThere, IsServed
<1>4. ASSUME NEW d \in Poster, NEW e \in Poster \ {d}
      PROVE  PostsApart(post'[d], post'[e])
  <2>1. PostsApart(post[d], post[e])
    BY DEF CatalogInv
  <2> QED BY <1>1, <2>1
<1> QED BY <1>2, <1>3, <1>4 DEF CatalogInv

(* A request that adds nothing and is not at its commit is in nobody's way. *)
LEMMA QuietMoves ==
  ASSUME CatalogInv, NEW c \in Poster, NEW q \in PostRecord, PostIs(c, q), PostStage(q),
         q.adds = {}, q.pc # "commit", q.spot \in {None, post[c].spot} \cup Standing,
         q.op = "post" /\ q.place # None /\ q.spot # None /\ ~q.crossed => spot[q.spot].place = q.place,
         q.op = "post" /\ q.place = None /\ ~q.crossed /\ q.pc \in {"slug", "insert"} => Standing = {}
  PROVE  CatalogInv'
<1>1. ~HasEntry(q) /\ PostKnows(q)
  BY DEF HasEntry, PostKnows
<1>2. ASSUME NEW d \in Poster \ {c}
      PROVE  PostsApart(q, post[d]) /\ PostsApart(post[d], q)
  <2>1. PostsApart(post[d], post[c])
    BY DEF CatalogInv
  <2>2. "spot" \in post[d].adds => q.spot # post[d].spot
    <3>1. "spot" \in post[d].adds => post[d].spot \in Spot /\ post[d].spot \notin Standing
      BY AddedIsNew
    <3>2. "spot" \in post[d].adds => post[c].spot # post[d].spot
      BY <2>1 DEF PostsApart
    <3> QED BY <3>1, <3>2
  <2> QED BY <1>1, <2>2 DEF PostsApart
<1> QED BY <1>1, <1>2, PostMoves

LEMMA PostEnds ==
  ASSUME CatalogInv, NEW c \in Poster, PostIs(c, Free)
  PROVE  CatalogInv'
BY FreeStands, QuietMoves

LEMMA BeginPostKeeps ==
  ASSUME CatalogInv, NEW c \in Poster, NEW p \in Place \cup {None}, NEW r \in Spot \cup {None},
         CreatePost(c, p, r) \/ CreateRestaurant(c, p)
  PROVE  CatalogInv'
<1> DEFINE q == [Free EXCEPT !.op = "post", !.pc = "find", !.place = p, !.chosen = r]
           o == [Free EXCEPT !.op = "create", !.pc = "find", !.place = p]
<1>1. /\ q \in PostRecord /\ q.op = "post" /\ q.pc = "find" /\ q.adds = {} /\ q.spot = None
      /\ o \in PostRecord /\ o.op = "create" /\ o.pc = "find" /\ o.adds = {} /\ o.spot = None
  BY DEF Free, PostRecord, Slug
<1>2. PostIs(c, q) \/ PostIs(c, o)
  BY DEF CreatePost, CreateRestaurant, StartPost
<1> HIDE DEF q, o
<1>3. PostStage(q) /\ PostStage(o)
  BY <1>1 DEF PostStage
<1>4. CASE PostIs(c, q)
  BY <1>1, <1>3, <1>4, QuietMoves
<1>5. CASE PostIs(c, o)
  BY <1>1, <1>3, <1>5, QuietMoves
<1> QED BY <1>2, <1>4, <1>5

LEMMA BeginOnSpotKeeps ==
  ASSUME CatalogInv, NEW c \in Poster, NEW r \in Spot, NEW s \in Slug, NEW p \in Place \cup {None},
         NEW d \in Spot \cup {None}, CreateDish(c, r) \/ UpdateRestaurant(c, r, s, p) \/ Erase(c, r, d)
  PROVE  CatalogInv'
<1> DEFINE q == [Free EXCEPT !.op = "dish", !.pc = "serve", !.spot = r]
           o == [Free EXCEPT !.op = "update", !.pc = "write", !.spot = r, !.slug = s, !.place = p]
           u == [Free EXCEPT !.op = "erase", !.pc = "write", !.spot = r, !.chosen = d]
<1>1. /\ q \in PostRecord /\ q.op = "dish" /\ q.pc = "serve" /\ q.adds = {} /\ q.spot = r
      /\ o \in PostRecord /\ o.op = "update" /\ o.pc = "write" /\ o.adds = {} /\ o.spot = r
      /\ u \in PostRecord /\ u.op = "erase" /\ u.pc = "write" /\ u.adds = {} /\ u.spot = r
  BY DEF Free, PostRecord, Slug
<1>2. r \in Standing /\ (PostIs(c, q) \/ PostIs(c, o) \/ PostIs(c, u))
  BY DEF CreateDish, UpdateRestaurant, Erase, StartPost
<1> HIDE DEF q, o, u
<1>3. PostStage(q) /\ PostStage(o) /\ PostStage(u)
  BY <1>1 DEF PostStage
<1>4. CASE PostIs(c, q)
  BY <1>1, <1>2, <1>3, <1>4, QuietMoves
<1>5. CASE PostIs(c, o)
  BY <1>1, <1>2, <1>3, <1>5, QuietMoves
<1>6. CASE PostIs(c, u)
  BY <1>1, <1>2, <1>3, <1>6, QuietMoves
<1> QED BY <1>2, <1>4, <1>5, <1>6

(* What a request becomes that goes on.                                     *)
PostPc == {"free", "find", "slug", "insert", "dish", "serve", "write", "commit"}
AtSpot(q, pc, r) == [q EXCEPT !.pc = pc, !.spot = r]
WithSlug(q, pc, s) == [q EXCEPT !.pc = pc, !.slug = s]

LEMMA PostAtSpot ==
  ASSUME NEW q \in PostRecord, NEW r \in Spot \cup {None},
         NEW pc \in PostPc
  PROVE  /\ AtSpot(q, pc, r) \in PostRecord /\ AtSpot(q, pc, r).op = q.op
         /\ AtSpot(q, pc, r).pc = pc /\ AtSpot(q, pc, r).place = q.place
         /\ AtSpot(q, pc, r).spot = r /\ AtSpot(q, pc, r).slug = q.slug
         /\ AtSpot(q, pc, r).adds = q.adds /\ AtSpot(q, pc, r).crossed = q.crossed
BY DEF PostRecord, PostPc, AtSpot

LEMMA PostWithSlug ==
  ASSUME NEW q \in PostRecord, NEW s \in Slug,
         NEW pc \in PostPc
  PROVE  /\ WithSlug(q, pc, s) \in PostRecord /\ WithSlug(q, pc, s).op = q.op
         /\ WithSlug(q, pc, s).pc = pc /\ WithSlug(q, pc, s).place = q.place
         /\ WithSlug(q, pc, s).spot = q.spot /\ WithSlug(q, pc, s).slug = s
         /\ WithSlug(q, pc, s).adds = q.adds /\ WithSlug(q, pc, s).crossed = q.crossed
BY DEF PostRecord, PostPc, WithSlug

LEMMA SomeSpot ==
  ASSUME NEW S, S # {}
  PROVE  TheSpot(S) \in S
BY DEF TheSpot

LEMMA FindByPlaceKeeps ==
  ASSUME CatalogInv, NEW c \in Poster, FindByPlace(c)
  PROVE  CatalogInv'
<1> DEFINE found == AtPlace(post[c].place)
           q == [post[c] EXCEPT !.pc = "slug"]
           o == AtSpot(post[c], "dish", TheSpot(found))
<1>1. /\ post[c].op = "post" /\ post[c].pc = "find" /\ post[c].place # None
      /\ post[c].adds = {} /\ post[c].spot = None
  BY InPost DEF FindByPlace, PostAt, PostStage
<1>2. (found = {} /\ PostIs(c, q)) \/ (found # {} /\ PostIs(c, o))
  BY DEF FindByPlace, AtSpot
<1>3. /\ q \in PostRecord /\ q.op = "post" /\ q.pc = "slug" /\ q.adds = {} /\ q.spot = None
      /\ q.place # None
  BY <1>1, InPost DEF PostRecord
<1>4. CASE PostIs(c, q)
  <2> HIDE DEF q
  <2>1. PostStage(q)
    BY <1>3 DEF PostStage
  <2> QED BY <1>3, <1>4, <2>1, QuietMoves
<1>5. CASE found # {} /\ PostIs(c, o)
  <2>1. TheSpot(found) \in found
    BY <1>5, SomeSpot
  <2>2. /\ TheSpot(found) \in Standing /\ TheSpot(found) \in Spot
        /\ spot[TheSpot(found)].place = post[c].place
    BY <2>1 DEF AtPlace, Standing
  <2>3. /\ o \in PostRecord /\ o.op = "post" /\ o.pc = "dish" /\ o.adds = {}
        /\ o.spot = TheSpot(found) /\ o.place = post[c].place
    <3>1. /\ TheSpot(found) \in Spot \cup {None} /\ post[c] \in PostRecord
          /\ "dish" \in PostPc
      BY <2>2, InPost DEF PostPc
    <3> HIDE DEF found
    <3> QED BY <1>1, <3>1, PostAtSpot
  <2> HIDE DEF o, found
  <2>4. PostStage(o)
    BY <2>2, <2>3 DEF PostStage
  <2> QED BY <1>1, <1>5, <2>2, <2>3, <2>4, QuietMoves
<1> QED BY <1>2, <1>4, <1>5

LEMMA FindByNameKeeps ==
  ASSUME CatalogInv, NEW c \in Poster, FindByName(c)
  PROVE  CatalogInv'
<1> DEFINE q == [post[c] EXCEPT !.pc = "slug"]
           o == AtSpot(post[c], "dish", TheSpot(Standing))
<1>1. /\ post[c].op = "post" /\ post[c].pc = "find" /\ post[c].place = None
      /\ post[c].adds = {} /\ post[c].spot = None
  BY InPost DEF FindByName, PostAt, PostStage
<1>2. \/ Standing = {} /\ PostIs(c, q)
      \/ Standing # {} /\ PostIs(c, o)
      \/ PostIs(c, Free)
  <2>1. Cardinality({}) = 0
    BY FS_EmptySet
  <2>2. CASE Standing = {}
    BY <2>1, <2>2 DEF FindByName, AtSpot
  <2>3. CASE Standing # {} /\ Cardinality(Standing) = 1
    BY <2>3 DEF FindByName, AtSpot
  <2>4. CASE Standing # {} /\ Cardinality(Standing) # 1
    BY <2>4 DEF FindByName, AtSpot
  <2> QED BY <2>2, <2>3, <2>4
<1>3. CASE Standing = {} /\ PostIs(c, q)
  <2>1. /\ q \in PostRecord /\ q.op = "post" /\ q.pc = "slug" /\ q.adds = {} /\ q.spot = None
        /\ q.place = None
    BY <1>1, InPost DEF PostRecord
  <2> HIDE DEF q
  <2>2. PostStage(q)
    BY <2>1 DEF PostStage
  <2> QED BY <1>3, <2>1, <2>2, QuietMoves
<1>4. CASE Standing # {} /\ PostIs(c, o)
  <2>1. TheSpot(Standing) \in Standing /\ TheSpot(Standing) \in Spot
    BY <1>4, SomeSpot DEF Standing
  <2>2. /\ o \in PostRecord /\ o.op = "post" /\ o.pc = "dish" /\ o.adds = {}
        /\ o.spot = TheSpot(Standing) /\ o.place = None
    <3>1. /\ TheSpot(Standing) \in Spot \cup {None} /\ post[c] \in PostRecord
          /\ "dish" \in PostPc
      BY <2>1, InPost DEF PostPc
    <3> QED BY <1>1, <3>1, PostAtSpot
  <2> HIDE DEF o
  <2>3. PostStage(o)
    BY <2>1, <2>2 DEF PostStage
  <2> QED BY <1>4, <2>1, <2>2, <2>3, QuietMoves
<1> QED BY <1>2, <1>3, <1>4, PostEnds

LEMMA LookBeforeInsertKeeps ==
  ASSUME CatalogInv, NEW c \in Poster, LookBeforeInsert(c)
  PROVE  CatalogInv'
<1> DEFINE q == [post[c] EXCEPT !.pc = "insert"]
<1>1. /\ post[c].op = "create" /\ post[c].pc = "find" /\ post[c].adds = {} /\ post[c].spot = None
  BY InPost DEF LookBeforeInsert, PostAt, PostStage
<1>2. PostIs(c, Free) \/ PostIs(c, q)
  BY DEF LookBeforeInsert
<1>3. q \in PostRecord /\ q.op = "create" /\ q.pc = "insert" /\ q.adds = {} /\ q.spot = None
  BY <1>1, InPost DEF PostRecord
<1> HIDE DEF q
<1>4. PostStage(q)
  BY <1>3 DEF PostStage
<1>5. CASE PostIs(c, q)
  BY <1>3, <1>4, <1>5, QuietMoves
<1> QED BY <1>2, <1>5, PostEnds

LEMMA UniqueSlugForKeeps ==
  ASSUME CatalogInv, NEW c \in Poster, UniqueSlugFor(c)
  PROVE  CatalogInv'
<1> DEFINE s == IF BaseIsTaken THEN "random" ELSE "base"
           q == WithSlug(post[c], "insert", s)
<1>1. post[c].op = "post" /\ post[c].pc = "slug" /\ post[c].adds = {} /\ post[c].spot = None
  <2>1. post[c].op \in {"none", "post", "create", "dish", "update", "erase"}
    BY InPost DEF PostRecord
  <2> QED BY <2>1, InPost DEF UniqueSlugFor, PostAt, PostStage
<1>2. PostIs(c, q)
  BY DEF UniqueSlugFor, WithSlug
<1>3. /\ q \in PostRecord /\ q.op = "post" /\ q.pc = "insert" /\ q.adds = {} /\ q.spot = None
      /\ q.place = post[c].place /\ q.crossed = post[c].crossed
  <2>1. s \in Slug /\ post[c] \in PostRecord /\ "insert" \in PostPc
    BY InPost DEF Slug, PostPc
  <2> HIDE DEF s
  <2> QED BY <1>1, <2>1, PostWithSlug
<1> HIDE DEF q, s
<1>4. PostStage(q)
  BY <1>3 DEF PostStage
<1>5. post[c].place = None /\ ~post[c].crossed => Standing = {}
  BY <1>1, InPost DEF PostKnows
<1> QED BY <1>2, <1>3, <1>4, <1>5, QuietMoves

(* A post goes on to its dish or its review.                                *)
AtPc(q, pc) == [q EXCEPT !.pc = pc]

LEMMA PostAtPc ==
  ASSUME NEW q \in PostRecord, NEW pc \in PostPc
  PROVE  /\ AtPc(q, pc) \in PostRecord /\ AtPc(q, pc).op = q.op /\ AtPc(q, pc).pc = pc
         /\ AtPc(q, pc).place = q.place /\ AtPc(q, pc).chosen = q.chosen /\ AtPc(q, pc).spot = q.spot
         /\ AtPc(q, pc).slug = q.slug /\ AtPc(q, pc).adds = q.adds /\ AtPc(q, pc).crossed = q.crossed
BY DEF PostRecord, PostPc, AtPc

LEMMA ResolveDishKeeps ==
  ASSUME CatalogInv, NEW c \in Poster, ResolveDish(c)
  PROVE  CatalogInv'
<1>1. post[c].op = "post" /\ post[c].pc = "dish" /\ post[c].spot \in Spot
  <2>1. post[c].op \in {"none", "post", "create", "dish", "update", "erase"}
    BY InPost DEF PostRecord
  <2> QED BY <2>1, InPost DEF ResolveDish, PostAt, PostStage
<1>2. CASE PostIs(c, Free)
  BY <1>2, PostEnds
<1>3. ASSUME NEW pc \in {"write", "serve"}, PostIs(c, AtPc(post[c], pc))
      PROVE  CatalogInv'
  <2>1. pc \in PostPc /\ post[c] \in PostRecord
    BY InPost DEF PostPc
  <2>2. PICK q : q = AtPc(post[c], pc)
    OBVIOUS
  <2>3. /\ q \in PostRecord /\ q.op = "post" /\ q.pc \in {"write", "serve"}
        /\ q.place = post[c].place /\ q.spot = post[c].spot /\ q.slug = post[c].slug
        /\ q.adds = post[c].adds /\ q.crossed = post[c].crossed
    BY <1>1, <2>1, <2>2, PostAtPc
  <2>4. PostStage(q)
    BY <1>1, <2>3, InPost DEF PostStage
  <2>5. HasEntry(q) <=> HasEntry(post[c])
    BY <1>1, <2>3 DEF HasEntry
  <2>6. PostKnows(q)
    BY <1>1, <2>3, <2>5, InPost DEF PostKnows, IsThere
  <2>7. ASSUME NEW d \in Poster \ {c}
        PROVE  PostsApart(q, post[d]) /\ PostsApart(post[d], q)
    <3>1. PostsApart(post[c], post[d]) /\ PostsApart(post[d], post[c])
      BY DEF CatalogInv
    <3> QED BY <2>3, <2>5, <3>1 DEF PostsApart
  <2> QED BY <1>3, <2>2, <2>3, <2>4, <2>6, <2>7, PostMoves
<1> QED BY <1>2, <1>3 DEF ResolveDish, AtPc

(* A commit is prepared where nobody else's is, and all it needs is there.  *)
LEMMA PreparedKeeps ==
  ASSUME CatalogInv, NEW c \in Poster, NEW q, q = AtPc(post[c], "commit"), PostIs(c, q),
         post[c].op \in {"post", "update", "erase"}, post[c].pc = "write", IsThere(post[c]),
         post[c].op = "post" => IsServed(post[c]),
         \A d \in Poster \ {c} : ~(post[d].pc = "commit" /\ post[d].spot = post[c].spot),
         post[c].op = "erase" => \A d \in Poster \ {c} : post[d].spot = post[c].spot => post[d].adds = {},
         post[c].op = "update" =>
           /\ \A r \in Standing \ {post[c].spot} :
                /\ post[c].place # None => spot[r].place # post[c].place
                /\ post[c].slug = "base" => spot[r].slug # "base"
           /\ post[c].slug = "base" => ~elsewhere
           /\ \A d \in Poster \ {c} : HasEntry(post[d]) =>
                /\ post[c].place = None \/ post[d].place # post[c].place
                /\ ~(post[c].slug = "base" /\ post[d].slug = "base")
  PROVE  CatalogInv'
<1>1. "commit" \in PostPc /\ post[c] \in PostRecord /\ PostStage(post[c]) /\ PostKnows(post[c])
  BY InPost DEF PostPc
<1>2. /\ q \in PostRecord /\ q.op = post[c].op /\ q.pc = "commit"
      /\ q.place = post[c].place /\ q.spot = post[c].spot /\ q.slug = post[c].slug
      /\ q.adds = post[c].adds /\ q.crossed = post[c].crossed
  BY <1>1, PostAtPc
<1>3. PostStage(q)
  BY <1>1, <1>2 DEF PostStage
<1>4. HasEntry(q) => q.op = "update" \/ HasEntry(post[c])
  BY <1>2 DEF HasEntry
<1>5. IsThere(q) /\ (q.op = "post" => IsServed(q))
  BY <1>2 DEF IsThere, IsServed
<1>6. PostKnows(q)
  BY <1>1, <1>2, <1>4, <1>5 DEF PostKnows
<1>7. ASSUME NEW d \in Poster \ {c}
      PROVE  PostsApart(q, post[d]) /\ PostsApart(post[d], q)
  <2>1. PostsApart(post[c], post[d]) /\ PostsApart(post[d], post[c])
    BY DEF CatalogInv
  <2>2. ~(post[d].pc = "commit" /\ post[d].spot = post[c].spot)
    OBVIOUS
  <2>3. PostsApart(q, post[d])
    <3>1. "spot" \in q.adds => post[d].spot # q.spot
      BY <1>2, <2>1 DEF PostsApart
    <3>2. HasEntry(q) /\ HasEntry(post[d]) =>
            (q.place = None \/ q.place # post[d].place) /\ ~(q.slug = "base" /\ post[d].slug = "base")
      BY <1>2, <1>4, <2>1 DEF PostsApart
    <3> QED BY <1>2, <2>2, <3>1, <3>2 DEF PostsApart
  <2>4. PostsApart(post[d], q)
    <3>1. HasEntry(q) /\ HasEntry(post[d]) =>
            (post[d].place = None \/ q.place # post[d].place) /\ ~(q.slug = "base" /\ post[d].slug = "base")
      BY <1>2, <1>4, <2>1 DEF PostsApart
    <3> QED BY <1>2, <2>1, <2>2, <3>1 DEF PostsApart
  <2> QED BY <2>3, <2>4
<1> QED BY <1>2, <1>3, <1>6, <1>7, PostMoves


LEMMA WritePostKeeps ==
  ASSUME CatalogInv, NEW c \in Poster, WritePost(c)
  PROVE  CatalogInv'
<1>1. post[c].op = "post" /\ post[c].pc = "write"
  BY DEF WritePost, PostAt
<1>2. \A d \in Poster \ {c} : ~(post[d].pc = "commit" /\ post[d].spot = post[c].spot)
  BY DEF WritePost, Rival
<1>3. \/ PostIs(c, Free)
      \/ IsThere(post[c]) /\ IsServed(post[c]) /\ PostIs(c, AtPc(post[c], "commit"))
  BY DEF WritePost, AtPc
<1> QED BY <1>1, <1>2, <1>3, PostEnds, PreparedKeeps

LEMMA WriteEraseKeeps ==
  ASSUME CatalogInv, NEW c \in Poster, WriteErase(c)
  PROVE  CatalogInv'
<1>1. post[c].op = "erase" /\ post[c].pc = "write"
  BY DEF WriteErase, PostAt
<1>2. \A d \in Poster \ {c} : post[d].spot = post[c].spot => post[d].pc # "commit" /\ post[d].adds = {}
  BY DEF WriteErase, Rival
<1>3. PostIs(c, Free) \/ (IsThere(post[c]) /\ PostIs(c, AtPc(post[c], "commit")))
  BY DEF WriteErase, AtPc
<1> QED BY <1>1, <1>2, <1>3, PostEnds, PreparedKeeps

LEMMA WriteRestaurantKeeps ==
  ASSUME CatalogInv, NEW c \in Poster, WriteRestaurant(c)
  PROVE  CatalogInv'
<1>1. post[c].op = "update" /\ post[c].pc = "write" /\ post[c].spot \in Spot /\ post[c].adds = {}
  BY InPost DEF WriteRestaurant, PostAt, PostStage
<1>2. \A d \in Poster \ {c} : ~(post[d].pc = "commit" /\ post[d].spot = post[c].spot)
  BY DEF WriteRestaurant, Rival
<1>3. ASSUME NEW d \in Poster \ {c}, HasEntry(post[d])
      PROVE  /\ post[c].place = None \/ post[d].place # post[c].place
             /\ ~(post[c].slug = "base" /\ post[d].slug = "base")
  <2>1. post[d] \in Rival(c)
    BY DEF Rival
  <2>2. ~InsertWaits(c)
    BY DEF WriteRestaurant
  <2> QED BY <1>3, <2>1, <2>2 DEF InsertWaits, HasEntry
<1>4. CASE PostIs(c, Free)
  BY <1>4, PostEnds
<1>5. CASE /\ IsThere(post[c])
           /\ ~(post[c].slug = "base" /\ spot[post[c].spot].slug # "base" /\ BaseIsTaken)
           /\ AtPlace(post[c].place) \ {post[c].spot} = {}
           /\ PostIs(c, AtPc(post[c], "commit"))
  <2>1. post[c].spot \in Standing
    BY <1>1, <1>5 DEF IsThere, Standing
  <2>2. \A r \in Standing \ {post[c].spot} : post[c].place # None => spot[r].place # post[c].place
    BY <1>5 DEF AtPlace
  <2>3. SpotsApart
    BY DEF CatalogInv
  <2>4. CASE post[c].slug = "base"
    <3>1. CASE spot[post[c].spot].slug = "base"
      <4>1. ~elsewhere
        BY <2>1, <2>3, <3>1 DEF SpotsApart
      <4>2. \A r \in Standing \ {post[c].spot} : spot[r].slug # "base"
        BY <2>1, <2>3, <3>1 DEF SpotsApart
      <4> QED BY <1>1, <1>2, <1>3, <1>5, <2>2, <4>1, <4>2, PreparedKeeps
    <3>2. CASE ~BaseIsTaken
      <4>1. ~elsewhere /\ \A r \in Standing \ {post[c].spot} : spot[r].slug # "base"
        BY <3>2 DEF BaseIsTaken
      <4> QED BY <1>1, <1>2, <1>3, <1>5, <2>2, <4>1, PreparedKeeps
    <3> QED BY <1>5, <2>4, <3>1, <3>2
  <2>5. CASE post[c].slug # "base"
    BY <1>1, <1>2, <1>3, <1>5, <2>2, <2>5, PreparedKeeps
  <2> QED BY <2>4, <2>5
<1> QED BY <1>4, <1>5 DEF WriteRestaurant, AtPc

(* A new restaurant and its entries in the indexes.                         *)
WithDish(q, pc) == [q EXCEPT !.adds = @ \cup {"dish"}, !.pc = pc]

LEMMA PostAdds ==
  ASSUME NEW q \in PostRecord, NEW r \in Spot, NEW pc \in PostPc,
         pc = IF q.op = "post" THEN "dish" ELSE "commit"
  PROVE  /\ WithSpot(q, r) \in PostRecord /\ WithSpot(q, r).op = q.op
         /\ WithSpot(q, r).pc = pc /\ WithSpot(q, r).place = q.place
         /\ WithSpot(q, r).spot = r /\ WithSpot(q, r).slug = q.slug
         /\ WithSpot(q, r).adds = {"spot"} /\ WithSpot(q, r).crossed = q.crossed
BY DEF PostRecord, PostPc, WithSpot

LEMMA PostAddsDish ==
  ASSUME NEW q \in PostRecord, NEW pc \in PostPc
  PROVE  /\ WithDish(q, pc) \in PostRecord /\ WithDish(q, pc).op = q.op
         /\ WithDish(q, pc).pc = pc /\ WithDish(q, pc).place = q.place
         /\ WithDish(q, pc).spot = q.spot /\ WithDish(q, pc).slug = q.slug
         /\ WithDish(q, pc).adds = q.adds \cup {"dish"} /\ WithDish(q, pc).crossed = q.crossed
BY DEF PostRecord, PostPc, WithDish

LEMMA InsertNewSpot ==
  ASSUME CatalogInv, NEW c \in Poster, NEW r \in NewSpot, post[c].pc = "insert",
         post[c].op \in {"post", "create"}, ~InsertWaits(c), ~Clashes(post[c]),
         PostIs(c, WithSpot(post[c], r))
  PROVE  CatalogInv'
<1> DEFINE pc == IF post[c].op = "post" THEN "dish" ELSE "commit"
<1>1. pc \in PostPc /\ post[c] \in PostRecord /\ PostStage(post[c]) /\ PostKnows(post[c])
  BY InPost DEF PostPc
<1>2. r \in Spot /\ r \notin Standing /\ \A d \in Poster : post[d].spot # r
  BY DEF NewSpot
<1>3. ~spot[r].there
  BY <1>2 DEF Standing
<1>4. PICK q : q = WithSpot(post[c], r)
  OBVIOUS
<1>5. PostIs(c, q)
  BY <1>4
<1>6. pc = IF post[c].op = "post" THEN "dish" ELSE "commit"
  OBVIOUS
<1> HIDE DEF pc
<1>7. /\ q \in PostRecord /\ q.op = post[c].op /\ q.pc = pc /\ q.place = post[c].place
      /\ q.spot = r /\ q.slug = post[c].slug /\ q.adds = {"spot"} /\ q.crossed = post[c].crossed
  BY <1>1, <1>2, <1>4, <1>6, PostAdds
<1>8. PostStage(q)
  BY <1>2, <1>6, <1>7 DEF PostStage
<1>9. PostKnows(q)
  <2>1. AtPlace(post[c].place) = {} /\ (post[c].slug = "base" => ~BaseIsTaken)
    BY DEF Clashes
  <2>2. \A s \in Standing : post[c].place # None => spot[s].place # post[c].place
    BY <2>1 DEF AtPlace
  <2>3. post[c].slug = "base" => ~elsewhere /\ \A s \in Standing : spot[s].slug # "base"
    BY <2>1 DEF BaseIsTaken
  <2>4. post[c].op = "post" /\ post[c].place = None /\ ~post[c].crossed => Standing = {}
    BY <1>1 DEF PostKnows
  <2>5. q.pc = "commit" => q.op = "create"
    BY <1>6, <1>7
  <2>6. IsThere(q) /\ "spot" \in q.adds
    BY <1>7 DEF IsThere
  <2> QED BY <1>3, <1>7, <2>2, <2>3, <2>4, <2>5, <2>6 DEF PostKnows
<1>10. ASSUME NEW d \in Poster \ {c}
       PROVE  PostsApart(q, post[d]) /\ PostsApart(post[d], q)
  <2>1. post[d].spot # r
    BY <1>2
  <2>2. HasEntry(post[d]) =>
          /\ post[d].place = None \/ post[d].place # post[c].place
          /\ ~(post[d].slug = "base" /\ post[c].slug = "base")
    <3>1. post[d] \in Rival(c)
      BY DEF Rival
    <3> QED BY <3>1 DEF InsertWaits, HasEntry
  <2> QED BY <1>7, <2>1, <2>2 DEF PostsApart
<1> QED BY <1>5, <1>7, <1>8, <1>9, <1>10, PostMoves

(* The other slug of a creation that lost the first one.                    *)
LEMMA ClashKeeps ==
  ASSUME CatalogInv, NEW c \in Poster, post[c].pc = "insert", post[c].op = "create",
         PostIs(c, [post[c] EXCEPT !.slug = "random"])
  PROVE  CatalogInv'
<1>1. [post[c] EXCEPT !.slug = "random"] = WithSlug(post[c], "insert", "random")
  BY InPost DEF WithSlug, PostRecord
<1>2. PICK q : q = WithSlug(post[c], "insert", "random")
  OBVIOUS
<1>3. PostIs(c, q)
  BY <1>1, <1>2
<1>4. "random" \in Slug /\ "insert" \in PostPc /\ post[c] \in PostRecord /\ PostStage(post[c])
  BY InPost DEF Slug, PostPc
<1>5. /\ q \in PostRecord /\ q.op = "create" /\ q.pc = "insert" /\ q.spot = post[c].spot
      /\ q.adds = post[c].adds
  BY <1>2, <1>4, PostWithSlug
<1>6. q.adds = {} /\ q.spot = None
  BY <1>4, <1>5 DEF PostStage
<1>7. PostStage(q)
  BY <1>5, <1>6 DEF PostStage
<1> QED BY <1>3, <1>5, <1>6, <1>7, QuietMoves

LEMMA InsertSpotKeeps ==
  ASSUME CatalogInv, NEW c \in Poster, InsertSpot(c)
  PROVE  CatalogInv'
<1>1. post[c].pc = "insert" /\ post[c].op \in {"post", "create"} /\ ~InsertWaits(c)
  <2>1. post[c].op \in {"none", "post", "create", "dish", "update", "erase"}
    BY InPost DEF PostRecord
  <2>2. post[c].pc = "insert" /\ ~InsertWaits(c)
    BY DEF InsertSpot, PostAt
  <2> QED BY <2>1, <2>2, InPost DEF PostStage
<1>2. CASE Clashes(post[c]) /\ PostIs(c, OnClash(post[c]))
  <2>1. PostIs(c, Free) \/ (post[c].op = "create" /\ PostIs(c, [post[c] EXCEPT !.slug = "random"]))
    BY <1>1, <1>2 DEF OnClash
  <2> QED BY <1>1, <2>1, PostEnds, ClashKeeps
<1>3. CASE ~Clashes(post[c])
  <2>1. PICK r \in NewSpot : PostIs(c, WithSpot(post[c], r))
    BY <1>3 DEF InsertSpot
  <2> QED BY <1>1, <1>3, <2>1, InsertNewSpot
<1>4. Clashes(post[c]) => PostIs(c, OnClash(post[c]))
  BY DEF InsertSpot
<1> QED BY <1>2, <1>3, <1>4

LEMMA InsertDishKeeps ==
  ASSUME CatalogInv, NEW c \in Poster, InsertDish(c)
  PROVE  CatalogInv'
<1>1. post[c].op \in {"post", "dish"} /\ post[c].pc = "serve" /\ post[c].spot \in Spot
  <2>1. post[c].op \in {"none", "post", "create", "dish", "update", "erase"}
    BY InPost DEF PostRecord
  <2> QED BY <2>1, InPost DEF InsertDish, PostAt, PostStage
<1>2. CASE PostIs(c, Free)
  BY <1>2, PostEnds
<1> DEFINE pc == IF post[c].op = "post" THEN "write" ELSE "commit"
<1>3. CASE IsThere(post[c]) /\ PostIs(c, WithDish(post[c], pc))
  <2>1. pc \in PostPc /\ post[c] \in PostRecord /\ PostStage(post[c]) /\ PostKnows(post[c])
    BY InPost DEF PostPc
  <2>2. PICK q : q = WithDish(post[c], pc)
    OBVIOUS
  <2>3. PostIs(c, q)
    BY <1>3, <2>2
  <2>4. pc = IF post[c].op = "post" THEN "write" ELSE "commit"
    OBVIOUS
  <2> HIDE DEF pc
  <2>5. /\ q \in PostRecord /\ q.op = post[c].op /\ q.pc = pc /\ q.place = post[c].place
        /\ q.spot = post[c].spot /\ q.slug = post[c].slug /\ q.adds = post[c].adds \cup {"dish"}
        /\ q.crossed = post[c].crossed
    BY <2>1, <2>2, PostAddsDish
  <2>6. "spot" \in q.adds <=> "spot" \in post[c].adds
    BY <2>5
  <2>7. HasEntry(q) => HasEntry(post[c])
    BY <1>1, <2>5, <2>6 DEF HasEntry
  <2>8. PostStage(q)
    BY <1>1, <2>1, <2>4, <2>5, <2>6 DEF PostStage
  <2>9. PostKnows(q)
    <3>1. IsThere(q)
      BY <1>3, <2>5, <2>6 DEF IsThere
    <3>2. q.pc = "commit" => q.op # "post"
      BY <2>4, <2>5
    <3> QED BY <1>1, <2>1, <2>4, <2>5, <2>6, <2>7, <3>1, <3>2 DEF PostKnows
  <2>10. ASSUME NEW d \in Poster \ {c}
         PROVE  PostsApart(q, post[d]) /\ PostsApart(post[d], q)
    <3>1. PostsApart(post[c], post[d]) /\ PostsApart(post[d], post[c])
      BY DEF CatalogInv
    <3>2. post[d].spot = post[c].spot => ~(post[d].op = "erase" /\ post[d].pc = "commit")
      BY DEF InsertDish, Rival
    <3>3. q.op # "erase"
      BY <1>1, <2>5
    <3> QED BY <2>5, <2>6, <2>7, <3>1, <3>2, <3>3 DEF PostsApart
  <2> QED BY <2>3, <2>5, <2>8, <2>9, <2>10, PostMoves
<1> QED BY <1>2, <1>3 DEF InsertDish, WithDish

(* The row that a commit stores: of what was there or of what it adds.      *)
LEMMA StoredAs ==
  ASSUME NEW q \in PostRecord, NEW old \in SpotRow, NEW n, n = Stored(q, old)
  PROVE  /\ ~(q.op \in {"erase", "update"} /\ "spot" \in q.adds) => n \in SpotRow
         /\ q.op = "erase" /\ "spot" \notin q.adds => n = NoSpot \/
              (n.there = old.there /\ n.place = old.place /\ n.slug = old.slug /\ n.served = FALSE)
         /\ q.op = "update" /\ "spot" \notin q.adds =>
              n.there = old.there /\ n.place = q.place /\ n.slug = q.slug /\ n.served = old.served
         /\ q.op \notin {"erase", "update"} /\ "spot" \in q.adds =>
              n.there /\ n.place = q.place /\ n.slug = q.slug /\ (n.served <=> "dish" \in q.adds)
         /\ q.op \notin {"erase", "update"} /\ "spot" \notin q.adds =>
              n.there = old.there /\ n.place = old.place /\ n.slug = old.slug /\ n.served
<1>0. PICK w \in BOOLEAN : w = ("dish" \in q.adds)
  <2>1. ("dish" \in q.adds) \in BOOLEAN
    OBVIOUS
  <2> QED BY <2>1
<1> DEFINE unserved == [old EXCEPT !.served = FALSE]
           updated == [old EXCEPT !.slug = q.slug, !.place = q.place]
           added == [there |-> TRUE, place |-> q.place, slug |-> q.slug, served |-> w]
           dished == [old EXCEPT !.served = TRUE]
<1>1. /\ q.op = "erase" /\ "spot" \notin q.adds => n = NoSpot \/ n = unserved
      /\ q.op = "update" /\ "spot" \notin q.adds => n = updated
      /\ q.op \notin {"erase", "update"} /\ "spot" \in q.adds => n = added
      /\ q.op \notin {"erase", "update"} /\ "spot" \notin q.adds => n = dished
  <2>1. CASE q.op = "erase" /\ "spot" \notin q.adds
    <3>1. ~(q.op = "update")
      BY <2>1
    <3>2. n = IF q.chosen = None THEN NoSpot ELSE unserved
      BY <2>1, <3>1 DEF Stored
    <3> HIDE DEF unserved, updated, added, dished
    <3> QED BY <2>1, <3>1, <3>2
  <2>2. CASE q.op = "update" /\ "spot" \notin q.adds
    <3>1. ~(q.op = "erase")
      BY <2>2
    <3>2. n = updated
      BY <2>2, <3>1 DEF Stored
    <3> HIDE DEF unserved, updated, added, dished
    <3> QED BY <2>2, <3>1, <3>2
  <2>3. CASE ~(q.op = "erase") /\ ~(q.op = "update") /\ "spot" \in q.adds
    <3>1. n = added
      BY <1>0, <2>3 DEF Stored
    <3> HIDE DEF unserved, updated, added, dished
    <3> QED BY <2>3, <3>1
  <2>4. CASE ~(q.op = "erase") /\ ~(q.op = "update") /\ "spot" \notin q.adds
    <3>1. n = dished
      BY <2>4 DEF Stored
    <3> HIDE DEF unserved, updated, added, dished
    <3> QED BY <2>4, <3>1
  <2> HIDE DEF unserved, updated, added, dished
  <2> QED BY <2>1, <2>2, <2>3, <2>4
<1>2. NoSpot \in SpotRow
  BY DEF NoSpot, SpotRow, Slug
<1>3. /\ unserved \in SpotRow /\ unserved.there = old.there /\ unserved.place = old.place
      /\ unserved.slug = old.slug /\ unserved.served = FALSE
  BY DEF SpotRow
<1>4. q.slug \in Slug /\ q.place \in Place \cup {None}
  BY DEF PostRecord
<1>5. /\ updated \in SpotRow /\ updated.there = old.there /\ updated.place = q.place
      /\ updated.slug = q.slug /\ updated.served = old.served
  BY <1>4 DEF SpotRow
<1>6. added \in SpotRow /\ added.there /\ added.place = q.place /\ added.slug = q.slug
      /\ (added.served <=> "dish" \in q.adds)
  BY <1>0, <1>4 DEF SpotRow
<1>7. /\ dished \in SpotRow /\ dished.there = old.there /\ dished.place = old.place
      /\ dished.slug = old.slug /\ dished.served
  BY DEF SpotRow
<1> HIDE DEF unserved, updated, added, dished
<1>8. CASE q.op = "erase"
  BY <1>1, <1>2, <1>3, <1>8
<1>9. CASE q.op = "update"
  BY <1>1, <1>5, <1>9
<1>10. CASE q.op \notin {"erase", "update"} /\ "spot" \in q.adds
  BY <1>1, <1>6, <1>10
<1>11. CASE q.op \notin {"erase", "update"} /\ "spot" \notin q.adds
  BY <1>1, <1>7, <1>11
<1> QED BY <1>8, <1>9, <1>10, <1>11

LEMMA StoredIs ==
  ASSUME CatalogInv, NEW c \in Poster, post[c].pc = "commit",
         NEW n, n = Stored(post[c], spot[post[c].spot])
  PROVE  /\ n \in SpotRow /\ (~n.there => ~n.served)
         /\ post[c].op # "erase" => n.there
         /\ post[c].op = "post" => n.served
         /\ post[c].op # "erase" /\ "spot" \notin post[c].adds =>
              (spot[post[c].spot].served => n.served)
         /\ HasEntry(post[c]) => n.place = post[c].place /\ n.slug = post[c].slug
         /\ n.there /\ ~HasEntry(post[c]) =>
              /\ spot[post[c].spot].there
              /\ n.place = spot[post[c].spot].place /\ n.slug = spot[post[c].spot].slug
<1>1. PICK old : old = spot[post[c].spot]
  OBVIOUS
<1>2. PICK q : q = post[c]
  OBVIOUS
<1>3. q \in PostRecord /\ PostStage(q) /\ q.spot \in Spot /\ q.pc = "commit"
  BY <1>2, InPost DEF PostStage
<1>4. old \in SpotRow /\ (~old.there => ~old.served)
  BY <1>1, <1>2, <1>3 DEF CatalogInv, CatalogTypeOK, SpotsApart
<1>5. /\ q.op = "post" => "dish" \in q.adds \/ old.served
      /\ "spot" \in q.adds <=> ~old.there
      /\ q.op \in {"erase", "update"} => "spot" \notin q.adds
  <2>1. PostKnows(q) /\ IsThere(q)
    BY <1>2, <1>3, InPost DEF PostKnows
  <2> QED BY <1>1, <1>2, <1>3, <2>1 DEF PostKnows, PostStage, IsThere, IsServed
<1>6. HasEntry(q) <=> "spot" \in q.adds \/ q.op = "update"
  BY <1>3 DEF HasEntry
<1>7. /\ n \in SpotRow
      /\ q.op = "erase" => n = NoSpot \/
           (n.there = old.there /\ n.place = old.place /\ n.slug = old.slug /\ n.served = FALSE)
      /\ q.op = "update" =>
           n.there = old.there /\ n.place = q.place /\ n.slug = q.slug /\ n.served = old.served
      /\ q.op \notin {"erase", "update"} /\ "spot" \in q.adds =>
           n.there /\ n.place = q.place /\ n.slug = q.slug /\ (n.served <=> "dish" \in q.adds)
      /\ q.op \notin {"erase", "update"} /\ "spot" \notin q.adds =>
           n.there = old.there /\ n.place = old.place /\ n.slug = old.slug /\ n.served
  <2>1. n = Stored(q, old)
    BY <1>1, <1>2
  <2> QED BY <1>3, <1>4, <1>5, <2>1, StoredAs
<1>8. ~NoSpot.there /\ ~NoSpot.served
  BY DEF NoSpot
<1>9. /\ ~n.there => ~n.served
      /\ q.op # "erase" => n.there
      /\ q.op = "post" => n.served
      /\ q.op # "erase" /\ "spot" \notin q.adds => (old.served => n.served)
      /\ HasEntry(q) => n.place = q.place /\ n.slug = q.slug
      /\ n.there /\ ~HasEntry(q) => old.there /\ n.place = old.place /\ n.slug = old.slug
  BY <1>4, <1>5, <1>6, <1>7, <1>8
<1> QED BY <1>1, <1>2, <1>7, <1>9

(* The others remember that there was a commit.                             *)
LEMMA PostsCrossed ==
  ASSUME CatalogInv, NEW c \in Poster, CommitPost(c), NEW d \in Poster \ {c}
  PROVE  /\ post'[d] \in PostRecord /\ PostStage(post'[d])
         /\ post'[d].op = post[d].op /\ post'[d].pc = post[d].pc /\ post'[d].place = post[d].place
         /\ post'[d].spot = post[d].spot /\ post'[d].slug = post[d].slug
         /\ post'[d].adds = post[d].adds /\ (post[d].pc # "free" => post'[d].crossed)
         /\ post'[d].chosen = post[d].chosen
<1>1. post[d] \in PostRecord /\ PostStage(post[d])
  BY InPost
<1>2. PICK w \in BOOLEAN : w = ~PostAt(d, "free")
  OBVIOUS
<1>3. post'[d] = [post[d] EXCEPT !.crossed = w]
  BY <1>2 DEF CommitPost
<1>4. post[d].pc # "free" => w
  BY <1>2 DEF PostAt
<1>5. post[d].pc = "free" => post'[d] = Free
  <2>1. CASE post[d].pc = "free"
    <3>1. post[d] = Free /\ w = FALSE
      BY <1>1, <1>2, <2>1 DEF PostStage, PostAt
    <3>2. \A q \in PostRecord : q.crossed = FALSE => [q EXCEPT !.crossed = FALSE] = q
      BY DEF PostRecord
    <3>3. Free.crossed = FALSE
      BY DEF Free
    <3> QED BY <1>3, <3>1, <3>2, <3>3, FreeStands
  <2> QED BY <2>1
<1>6. /\ post'[d] \in PostRecord /\ post'[d].op = post[d].op /\ post'[d].pc = post[d].pc
      /\ post'[d].place = post[d].place /\ post'[d].spot = post[d].spot
      /\ post'[d].slug = post[d].slug /\ post'[d].adds = post[d].adds
      /\ post'[d].chosen = post[d].chosen /\ post'[d].crossed = w
  BY <1>1, <1>3 DEF PostRecord
<1>7. PostStage(post'[d])
  BY <1>1, <1>5, <1>6, FreeStands DEF PostStage
<1> QED BY <1>4, <1>6, <1>7

LEMMA RowsAfter ==
  ASSUME CatalogInv, NEW c \in Poster, CommitPost(c)
  PROVE  LET n == Stored(post[c], spot[post[c].spot]) IN
         /\ post[c].spot \in Spot /\ n \in SpotRow /\ spot' \in [Spot -> SpotRow]
         /\ \A s \in Spot : spot'[s] = IF s = post[c].spot THEN n ELSE spot[s]
<1> DEFINE n == Stored(post[c], spot[post[c].spot])
<1>1. post[c].pc = "commit" /\ spot' = [spot EXCEPT ![post[c].spot] = n]
  BY DEF CommitPost, PostAt
<1>2. n \in SpotRow
  BY <1>1, StoredIs
<1>3. post[c].spot \in Spot /\ spot \in [Spot -> SpotRow]
  BY <1>1, InPost DEF PostStage, CatalogInv, CatalogTypeOK
<1> HIDE DEF n
<1>4. spot' \in [Spot -> SpotRow] /\ \A s \in Spot : spot'[s] = IF s = post[c].spot THEN n ELSE spot[s]
  BY <1>1, <1>2, <1>3
<1> QED BY <1>2, <1>3, <1>4 DEF n

(* What was so of an entry and every row is so after a commit of another.   *)
LEMMA EntryStays ==
  ASSUME CatalogInv, NEW c \in Poster, CommitPost(c), NEW q \in PostRecord,
         HasEntry(q) /\ HasEntry(post[c]) =>
           (q.place = None \/ q.place # post[c].place) /\ ~(q.slug = "base" /\ post[c].slug = "base"),
         HasEntry(q) => \A r \in Standing \ {q.spot} :
           (q.place # None => spot[r].place # q.place) /\ (q.slug = "base" => spot[r].slug # "base")
  PROVE  HasEntry(q) => \A r \in Standing' \ {q.spot} :
           (q.place # None => spot'[r].place # q.place) /\ (q.slug = "base" => spot'[r].slug # "base")
<1> SUFFICES ASSUME HasEntry(q), NEW r \in Standing' \ {q.spot}
             PROVE  (q.place # None => spot'[r].place # q.place) /\ (q.slug = "base" => spot'[r].slug # "base")
  OBVIOUS
<1>1. PICK n : n = Stored(post[c], spot[post[c].spot])
  OBVIOUS
<1>2. post[c].spot \in Spot /\ \A s \in Spot : spot'[s] = IF s = post[c].spot THEN n ELSE spot[s]
  BY <1>1, RowsAfter
<1>3. r \in Spot /\ spot'[r].there
  BY DEF Standing
<1>4. CASE r # post[c].spot
  BY <1>2, <1>3, <1>4 DEF Standing
<1>5. CASE r = post[c].spot /\ HasEntry(post[c])
  <2>1. n.place = post[c].place /\ n.slug = post[c].slug
    BY <1>1, <1>5, StoredIs DEF CommitPost, PostAt
  <2> QED BY <1>2, <1>3, <1>5, <2>1
<1>6. CASE r = post[c].spot /\ ~HasEntry(post[c])
  <2>1. n.there
    BY <1>2, <1>3, <1>6
  <2>2. spot[r].there /\ n.place = spot[r].place /\ n.slug = spot[r].slug
    BY <1>1, <1>6, <2>1, StoredIs DEF CommitPost, PostAt
  <2>3. r \in Standing
    BY <1>3, <2>2 DEF Standing
  <2> QED BY <1>2, <1>3, <1>6, <2>2, <2>3
<1> QED BY <1>4, <1>5, <1>6

(* What another request needs stays as it is.                               *)
LEMMA CommitSpares ==
  ASSUME CatalogInv, NEW c \in Poster, CommitPost(c), NEW d \in Poster \ {c}
  PROVE  PostKnows(post[d])'
<1>1. PICK q : q = post[c]
  OBVIOUS
<1>2. PICK o : o = post[d]
  OBVIOUS
<1>3. PICK r : r = post'[d]
  OBVIOUS
<1>4. PICK n : n = Stored(q, spot[q.spot])
  OBVIOUS
<1>5. /\ q \in PostRecord /\ PostStage(q) /\ q.pc = "commit"
      /\ o \in PostRecord /\ PostStage(o) /\ PostKnows(o)
  BY <1>1, <1>2, InPost DEF CommitPost, PostAt
<1>6. PostsApart(q, o) /\ PostsApart(o, q)
  BY <1>1, <1>2 DEF CatalogInv
<1>7. /\ r \in PostRecord /\ r.op = o.op /\ r.pc = o.pc /\ r.place = o.place /\ r.spot = o.spot
      /\ r.slug = o.slug /\ r.adds = o.adds /\ (o.pc # "free" => r.crossed)
  BY <1>2, <1>3, PostsCrossed
<1>8. q.spot \in Spot /\ \A s \in Spot : spot'[s] = IF s = q.spot THEN n ELSE spot[s]
  BY <1>1, <1>4, RowsAfter
<1>9. /\ q.op # "erase" => n.there
      /\ q.op # "erase" /\ "spot" \notin q.adds => (spot[q.spot].served => n.served)
  BY <1>1, <1>4, <1>5, StoredIs
<1>10. UNCHANGED elsewhere
  BY DEF CommitPost
<1>11. o.adds # {} \/ o.pc = "commit" => o.spot \in Spot
  BY <1>5, FreeStands DEF PostStage, PostRecord
<1>12. o.adds # {} \/ o.pc = "commit" => "spot" \in o.adds \/ spot'[o.spot].there
  BY <1>5, <1>6, <1>8, <1>9, <1>11 DEF PostKnows, PostsApart, IsThere
<1>13. o.pc = "commit" /\ o.op = "post" => "dish" \in o.adds \/ spot'[o.spot].served
  BY <1>5, <1>6, <1>8, <1>9, <1>11 DEF PostKnows, PostsApart, IsServed
<1>14. "spot" \in o.adds => ~spot'[o.spot].there
  BY <1>5, <1>6, <1>8, <1>11 DEF PostKnows, PostsApart
<1>15. o.op = "post" => r.crossed
  BY <1>5, <1>7 DEF PostStage
<1>16. HasEntry(r) <=> HasEntry(o)
  BY <1>7 DEF HasEntry
<1>17. HasEntry(o) => \A s \in Standing' \ {o.spot} :
         (o.place # None => spot'[s].place # o.place) /\ (o.slug = "base" => spot'[s].slug # "base")
  <2>1. HasEntry(o) /\ HasEntry(q) =>
          (o.place = None \/ o.place # q.place) /\ ~(o.slug = "base" /\ q.slug = "base")
    BY <1>6 DEF PostsApart
  <2>2. HasEntry(o) => \A s \in Standing \ {o.spot} :
          (o.place # None => spot[s].place # o.place) /\ (o.slug = "base" => spot[s].slug # "base")
    BY <1>5 DEF PostKnows
  <2> QED BY <1>1, <1>5, <2>1, <2>2, EntryStays
<1>18. HasEntry(o) /\ o.slug = "base" => ~elsewhere
  BY <1>5 DEF PostKnows
<1>19. PostKnows(r)'
  BY <1>7, <1>10, <1>12, <1>13, <1>14, <1>15, <1>16, <1>17, <1>18 DEF PostKnows, IsThere, IsServed
<1> QED BY <1>3, <1>19 DEF PostKnows, IsThere, IsServed

LEMMA CommitPostKeeps ==
  ASSUME CatalogInv, NEW c \in Poster, CommitPost(c)
  PROVE  CatalogInv'
<1>1. PICK q : q = post[c]
  OBVIOUS
<1>2. PICK n : n = Stored(q, spot[q.spot])
  OBVIOUS
<1>3. q \in PostRecord /\ PostStage(q) /\ PostKnows(q) /\ q.pc = "commit"
  BY <1>1, InPost DEF CommitPost, PostAt
<1>4. /\ q.spot \in Spot /\ spot' \in [Spot -> SpotRow]
      /\ \A s \in Spot : spot'[s] = IF s = q.spot THEN n ELSE spot[s]
  BY <1>1, <1>2, RowsAfter
<1>5. /\ ~n.there => ~n.served
      /\ HasEntry(q) => n.place = q.place /\ n.slug = q.slug
      /\ n.there /\ ~HasEntry(q) => spot[q.spot].there /\ n.place = spot[q.spot].place
                                    /\ n.slug = spot[q.spot].slug
  BY <1>1, <1>2, <1>3, StoredIs
<1>6. UNCHANGED elsewhere
  BY DEF CommitPost
<1>7. /\ \A r \in Spot : ~spot[r].there => ~spot[r].served
      /\ \A r, s \in Standing : r # s =>
           (spot[r].place = None \/ spot[r].place # spot[s].place) /\ ~(spot[r].slug = "base" /\ spot[s].slug = "base")
      /\ \A r \in Standing : spot[r].slug = "base" => ~elsewhere
  BY DEF CatalogInv, SpotsApart
<1>8. \A r \in Standing' : r \in Spot /\ spot'[r].there /\ (r # q.spot => r \in Standing /\ spot'[r] = spot[r])
  BY <1>4 DEF Standing
<1>9. ASSUME NEW s \in Standing', s # q.spot, n.there
      PROVE  /\ n.place = None \/ n.place # spot[s].place
             /\ ~(n.slug = "base" /\ spot[s].slug = "base")
  <2>1. s \in Standing
    BY <1>8, <1>9
  <2>2. CASE HasEntry(q)
    BY <1>3, <1>5, <1>9, <2>1, <2>2 DEF PostKnows
  <2>3. CASE ~HasEntry(q)
    <3>1. q.spot \in Standing
      BY <1>4, <1>5, <1>9, <2>3 DEF Standing
    <3> QED BY <1>5, <1>7, <1>9, <2>1, <2>3, <3>1
  <2> QED BY <2>2, <2>3
<1>10. SpotsApart'
  <2>1. \A r \in Spot : ~spot'[r].there => ~spot'[r].served
    BY <1>4, <1>5, <1>7
  <2>2. ASSUME NEW r \in Standing', NEW s \in Standing', r # s
        PROVE  /\ spot'[r].place = None \/ spot'[r].place # spot'[s].place
               /\ ~(spot'[r].slug = "base" /\ spot'[s].slug = "base")
    <3>1. CASE r = q.spot
      <4>1. spot'[r] = n /\ n.there /\ s # q.spot /\ spot'[s] = spot[s]
        BY <1>4, <1>8, <2>2, <3>1
      <4> QED BY <1>9, <4>1
    <3>2. CASE s = q.spot
      <4>1. spot'[s] = n /\ n.there /\ r # q.spot /\ spot'[r] = spot[r]
        BY <1>4, <1>8, <2>2, <3>2
      <4> QED BY <1>9, <4>1
    <3>3. CASE r # q.spot /\ s # q.spot
      BY <1>7, <1>8, <2>2, <3>3
    <3> QED BY <3>1, <3>2, <3>3
  <2>3. ASSUME NEW r \in Standing', spot'[r].slug = "base"
        PROVE  ~elsewhere
    <3>1. CASE r # q.spot
      BY <1>7, <1>8, <2>3, <3>1
    <3>2. CASE r = q.spot /\ HasEntry(q)
      BY <1>3, <1>4, <1>5, <1>8, <2>3, <3>2 DEF PostKnows
    <3>3. CASE r = q.spot /\ ~HasEntry(q)
      <4>1. spot'[r] = n /\ n.there
        BY <1>4, <1>8, <2>3, <3>3
      <4>2. r \in Standing /\ spot[r].slug = "base"
        BY <1>4, <1>5, <2>3, <3>3, <4>1 DEF Standing
      <4> QED BY <1>7, <4>2
    <3> QED BY <3>1, <3>2, <3>3
  <2> QED BY <1>6, <2>1, <2>2, <2>3 DEF SpotsApart
<1>11. post'[c] = Free /\ \A d \in Poster \ {c} : post'[d] \in PostRecord /\ PostStage(post'[d])
  BY PostsCrossed DEF CommitPost
<1>12. CatalogTypeOK'
  <2>1. post' \in [Poster -> PostRecord]
    <3>1. post' = [e \in Poster |-> post'[e]]
      BY DEF CommitPost
    <3>2. \A e \in Poster : post'[e] \in PostRecord
      BY <1>11, FreeStands
    <3> QED BY <3>1, <3>2
  <2>2. elsewhere \in BOOLEAN
    BY DEF CatalogInv, CatalogTypeOK
  <2> QED BY <1>4, <1>6, <2>1, <2>2 DEF CatalogTypeOK
<1>13. ASSUME NEW d \in Poster
       PROVE  PostStage(post'[d]) /\ PostKnows(post[d])'
  <2>1. CASE d = c
    <3>1. PostKnows(Free)'
      BY FreeStands DEF PostKnows
    <3> QED BY <1>11, <2>1, <3>1, FreeStands DEF PostKnows, IsThere, IsServed
  <2>2. CASE d # c
    BY <1>11, <2>2, CommitSpares
  <2> QED BY <2>1, <2>2
<1>14. ASSUME NEW d \in Poster, NEW e \in Poster \ {d}
       PROVE  PostsApart(post'[d], post'[e])
  <2>1. PostsApart(post[d], post[e])
    BY DEF CatalogInv
  <2>2. CASE d = c
    BY <1>11, <2>2, FreeStands DEF PostsApart
  <2>3. CASE e = c /\ d # c
    <3>1. post'[e] = Free /\ post'[d].adds = post[d].adds /\ post'[d].spot = post[d].spot
      BY <1>11, <2>3, PostsCrossed
    <3>2. "spot" \in post[d].adds => post[d].spot \in Spot
      BY AddedIsNew
    <3> QED BY <3>1, <3>2, FreeStands DEF PostsApart
  <2>4. CASE d # c /\ e # c
    <3>1. /\ post'[d].op = post[d].op /\ post'[d].pc = post[d].pc /\ post'[d].place = post[d].place
          /\ post'[d].spot = post[d].spot /\ post'[d].slug = post[d].slug /\ post'[d].adds = post[d].adds
      BY <2>4, PostsCrossed
    <3>2. /\ post'[e].op = post[e].op /\ post'[e].pc = post[e].pc /\ post'[e].place = post[e].place
          /\ post'[e].spot = post[e].spot /\ post'[e].slug = post[e].slug /\ post'[e].adds = post[e].adds
      BY <2>4, PostsCrossed
    <3> QED BY <2>1, <3>1, <3>2 DEF PostsApart, HasEntry
  <2> QED BY <2>2, <2>3, <2>4
<1> QED BY <1>10, <1>12, <1>13, <1>14 DEF CatalogInv

LEMMA CatalogRests == CatalogInv /\ UNCHANGED catalogVars => CatalogInv'
<1> SUFFICES ASSUME CatalogInv, UNCHANGED elsewhere, UNCHANGED spot, UNCHANGED post
             PROVE  CatalogInv'
  BY DEF catalogVars
<1>1. CatalogTypeOK' /\ SpotsApart'
  BY DEF CatalogInv, CatalogTypeOK, SpotsApart, Standing
<1>2. ASSUME NEW c \in Poster
      PROVE  PostStage(post'[c]) /\ PostKnows(post[c])'
  <2>1. PICK q : q = post[c]
    OBVIOUS
  <2>2. PostStage(q) /\ PostKnows(q) /\ q = post'[c]
    BY <2>1, InPost
  <2>3. PostKnows(q)'
    BY <2>2 DEF PostKnows, IsThere, IsServed, Standing
  <2> QED BY <2>2, <2>3 DEF PostKnows, IsThere, IsServed
<1>3. \A c \in Poster : \A d \in Poster \ {c} : PostsApart(post'[c], post'[d])
  BY DEF CatalogInv
<1> QED BY <1>1, <1>2, <1>3 DEF CatalogInv

LEMMA CatalogStep == CatalogInv /\ [CatalogNext]_catalogVars => CatalogInv'
<1> SUFFICES ASSUME CatalogInv, CatalogNext
             PROVE  CatalogInv'
  BY CatalogRests
<1>1. PICK c \in Poster :
        \/ \E p \in Place \cup {None} :
             \/ \E chosen \in Spot \cup {None} : CreatePost(c, p, chosen)
             \/ CreateRestaurant(c, p)
        \/ FindByPlace(c) \/ FindByName(c) \/ LookBeforeInsert(c)
        \/ UniqueSlugFor(c) \/ InsertSpot(c)
        \/ ResolveDish(c) \/ InsertDish(c) \/ WritePost(c)
        \/ \E r \in Spot :
             \/ CreateDish(c, r)
             \/ \E s \in Slug, p \in Place \cup {None} : UpdateRestaurant(c, r, s, p)
             \/ \E dish \in Spot \cup {None} : Erase(c, r, dish)
        \/ WriteRestaurant(c) \/ WriteErase(c)
        \/ CommitPost(c) \/ AbortPost(c)
  BY DEF CatalogNext
<1>2. CASE \E p \in Place \cup {None} :
             \/ \E chosen \in Spot \cup {None} : CreatePost(c, p, chosen)
             \/ CreateRestaurant(c, p)
  <2>1. None \in Spot \cup {None}
    OBVIOUS
  <2> QED BY <1>2, <2>1, BeginPostKeeps
<1>3. CASE FindByPlace(c) \/ FindByName(c) \/ LookBeforeInsert(c)
  BY <1>3, FindByPlaceKeeps, FindByNameKeeps, LookBeforeInsertKeeps
<1>4. CASE UniqueSlugFor(c) \/ InsertSpot(c)
  BY <1>4, UniqueSlugForKeeps, InsertSpotKeeps
<1>5. CASE ResolveDish(c) \/ InsertDish(c) \/ WritePost(c)
  BY <1>5, ResolveDishKeeps, InsertDishKeeps, WritePostKeeps
<1>6. CASE \E r \in Spot :
             \/ CreateDish(c, r)
             \/ \E s \in Slug, p \in Place \cup {None} : UpdateRestaurant(c, r, s, p)
             \/ \E dish \in Spot \cup {None} : Erase(c, r, dish)
  <2>1. "base" \in Slug /\ None \in Place \cup {None} /\ None \in Spot \cup {None}
    BY DEF Slug
  <2> QED BY <1>6, <2>1, BeginOnSpotKeeps
<1>7. CASE WriteRestaurant(c) \/ WriteErase(c)
  BY <1>7, WriteRestaurantKeeps, WriteEraseKeeps
<1>8. CASE CommitPost(c) \/ AbortPost(c)
  BY <1>8, CommitPostKeeps, PostEnds DEF AbortPost
<1> QED BY <1>1, <1>2, <1>3, <1>4, <1>5, <1>6, <1>7, <1>8

(* Entries of the unique indexes differ, what a request adds to is there,   *)
(* and what a post has found is so unless somebody has committed since      *)
(* (posts.py, restaurant_service.py).                                       *)
THEOREM CatalogInvariant == CatalogSpec => []CatalogInv
<1> QED BY CatalogStarts, CatalogStep, PTL DEF CatalogSpec

LEMMA AtMostOne ==
  ASSUME NEW S, \A x, y \in S : x = y
  PROVE  Cardinality(S) \in Nat /\ Cardinality(S) <= 1
<1>1. CASE S = {}
  BY <1>1, FS_EmptySet
<1>2. CASE S # {}
  <2>1. PICK x \in S : TRUE
    BY <1>2
  <2>2. S = {x}
    BY <2>1
  <2>3. Cardinality({x}) = 1
    BY FS_Singleton
  <2> QED BY <2>2, <2>3
<1> QED BY <1>1, <1>2

(* What a place and the base slug have.                                     *)
FewSpots ==
  /\ \A p \in Place : Cardinality(AtPlace(p)) <= 1
  /\ Cardinality({r \in Standing : spot[r].slug = "base"}) + (IF elsewhere THEN 1 ELSE 0) <= 1

LEMMA FewSpotsStand == CatalogInv => FewSpots
<1> SUFFICES ASSUME CatalogInv PROVE FewSpots
  OBVIOUS
<1>1. ASSUME NEW p \in Place
      PROVE  Cardinality(AtPlace(p)) <= 1
  <2>1. p # None
    OBVIOUS
  <2>2. \A r, s \in AtPlace(p) : r = s
    BY <2>1 DEF AtPlace, CatalogInv, SpotsApart
  <2> QED BY <2>2, AtMostOne
<1> DEFINE B == {r \in Standing : spot[r].slug = "base"}
<1>2. \A r, s \in B : r = s
  BY DEF CatalogInv, SpotsApart
<1>3. elsewhere => B = {}
  BY DEF CatalogInv, SpotsApart
<1>4. elsewhere \in BOOLEAN
  BY DEF CatalogInv, CatalogTypeOK
<1> HIDE DEF B
<1>5. Cardinality(B) \in Nat /\ Cardinality(B) <= 1
  BY <1>2, AtMostOne
<1>6. elsewhere => Cardinality(B) = 0
  BY <1>3, FS_EmptySet
<1>7. Cardinality(B) + (IF elsewhere THEN 1 ELSE 0) <= 1
  BY <1>4, <1>5, <1>6
<1> QED BY <1>1, <1>7 DEF B, FewSpots

(* One request moves, or commits; and a creation tries another slug only    *)
(* where its place has nobody.                                              *)
Moves(c, q) ==
  /\ PostIs(c, q)
  /\ q.slug = "random" /\ post[c].slug = "base" /\ post[c].op = "create" => AtPlace(post[c].place) = {}

LEMMA OneMoves ==
  ASSUME CatalogInv, CatalogNext
  PROVE  \E c \in Poster : CommitPost(c) \/ \E q : Moves(c, q)
<1>1. PICK c \in Poster :
        \/ \E p \in Place \cup {None} :
             \/ \E chosen \in Spot \cup {None} : CreatePost(c, p, chosen)
             \/ CreateRestaurant(c, p)
        \/ FindByPlace(c) \/ FindByName(c) \/ LookBeforeInsert(c)
        \/ UniqueSlugFor(c) \/ InsertSpot(c)
        \/ ResolveDish(c) \/ InsertDish(c) \/ WritePost(c)
        \/ \E r \in Spot :
             \/ CreateDish(c, r)
             \/ \E s \in Slug, p \in Place \cup {None} : UpdateRestaurant(c, r, s, p)
             \/ \E dish \in Spot \cup {None} : Erase(c, r, dish)
        \/ WriteRestaurant(c) \/ WriteErase(c)
        \/ CommitPost(c) \/ AbortPost(c)
  BY DEF CatalogNext
<1>2. post[c] \in PostRecord /\ PostStage(post[c])
  BY InPost
<1>3. CASE post[c].op # "create"
  <2>1. \A q : PostIs(c, q) => Moves(c, q)
    BY <1>3 DEF Moves
  <2>2. (\E q : PostIs(c, q)) \/ CommitPost(c)
    <3>1. CASE \E p \in Place \cup {None} :
                 \/ \E chosen \in Spot \cup {None} : CreatePost(c, p, chosen)
                 \/ CreateRestaurant(c, p)
      <4>1. ASSUME NEW p, NEW r, CreatePost(c, p, r)
            PROVE  \E q : PostIs(c, q)
        BY <4>1 DEF CreatePost, StartPost
      <4>2. ASSUME NEW p, CreateRestaurant(c, p)
            PROVE  \E q : PostIs(c, q)
        BY <4>2 DEF CreateRestaurant, StartPost
      <4> QED BY <3>1, <4>1, <4>2
    <3>2. CASE FindByPlace(c) \/ FindByName(c) \/ LookBeforeInsert(c)
      BY <3>2 DEF FindByPlace, FindByName, LookBeforeInsert
    <3>3. CASE UniqueSlugFor(c) \/ InsertSpot(c)
      BY <3>3 DEF UniqueSlugFor, InsertSpot
    <3>4. CASE ResolveDish(c) \/ InsertDish(c) \/ WritePost(c)
      BY <3>4 DEF ResolveDish, InsertDish, WritePost
    <3>5. CASE \E r \in Spot :
                 \/ CreateDish(c, r)
                 \/ \E s \in Slug, p \in Place \cup {None} : UpdateRestaurant(c, r, s, p)
                 \/ \E dish \in Spot \cup {None} : Erase(c, r, dish)
      <4>1. ASSUME NEW r, CreateDish(c, r)
            PROVE  \E q : PostIs(c, q)
        BY <4>1 DEF CreateDish, StartPost
      <4>2. ASSUME NEW r, NEW s, NEW p, UpdateRestaurant(c, r, s, p)
            PROVE  \E q : PostIs(c, q)
        BY <4>2 DEF UpdateRestaurant, StartPost
      <4>3. ASSUME NEW r, NEW d, Erase(c, r, d)
            PROVE  \E q : PostIs(c, q)
        BY <4>3 DEF Erase, StartPost
      <4> QED BY <3>5, <4>1, <4>2, <4>3
    <3>6. CASE WriteRestaurant(c) \/ WriteErase(c) \/ AbortPost(c)
      BY <3>6 DEF WriteRestaurant, WriteErase, AbortPost
    <3> QED BY <1>1, <3>1, <3>2, <3>3, <3>4, <3>5, <3>6
  <2> QED BY <2>1, <2>2
<1>4. CASE post[c].op = "create"
  <2>1. post[c].pc \in {"find", "insert", "commit"}
    BY <1>2, <1>4 DEF PostStage
  <2>2. LookBeforeInsert(c) \/ InsertSpot(c) \/ CommitPost(c) \/ AbortPost(c)
    <3>1. \A p, r \in Spot \cup {None} \cup Place \cup Slug :
            /\ ~CreatePost(c, p, r) /\ ~CreateRestaurant(c, p)
            /\ ~CreateDish(c, r) /\ ~Erase(c, p, r)
      BY <2>1 DEF CreatePost, CreateRestaurant, CreateDish, Erase, StartPost, PostAt
    <3>2. \A p, r, s : ~UpdateRestaurant(c, r, s, p)
      BY <2>1 DEF UpdateRestaurant, StartPost, PostAt
    <3>3. /\ ~FindByPlace(c) /\ ~FindByName(c) /\ ~UniqueSlugFor(c) /\ ~ResolveDish(c)
          /\ ~InsertDish(c) /\ ~WritePost(c) /\ ~WriteRestaurant(c) /\ ~WriteErase(c)
      BY <1>4, <2>1 DEF FindByPlace, FindByName, UniqueSlugFor, ResolveDish, InsertDish, WritePost,
           WriteRestaurant, WriteErase, PostAt
    <3> QED BY <1>1, <3>1, <3>2, <3>3
  <2>3. CASE AbortPost(c)
    BY <2>3, FreeStands DEF AbortPost, Moves
  <2>4. CASE LookBeforeInsert(c)
    <3>1. PICK q : q = [post[c] EXCEPT !.pc = "insert"]
      OBVIOUS
    <3>2. q.slug = post[c].slug
      BY <1>2, <3>1 DEF PostRecord
    <3>3. PostIs(c, Free) \/ PostIs(c, q)
      BY <2>4, <3>1 DEF LookBeforeInsert
    <3> QED BY <3>2, <3>3, FreeStands DEF Moves
  <2>5. CASE InsertSpot(c)
    <3>1. CASE Clashes(post[c])
      <4>1. PICK q : q = [post[c] EXCEPT !.slug = "random"]
        OBVIOUS
      <4>2. PostIs(c, Free) \/ (AtPlace(post[c].place) = {} /\ PostIs(c, q))
        BY <2>5, <3>1, <4>1 DEF InsertSpot, OnClash
      <4> QED BY <4>2, FreeStands DEF Moves
    <3>2. CASE ~Clashes(post[c])
      <4>1. PICK r : PostIs(c, WithSpot(post[c], r)) /\ r \in NewSpot
        BY <2>5, <3>2 DEF InsertSpot
      <4>2. WithSpot(post[c], r).slug = post[c].slug
        BY <1>2, <1>4 DEF PostRecord, WithSpot
      <4> QED BY <4>1, <4>2 DEF Moves
    <3> QED BY <3>1, <3>2
  <2> QED BY <2>2, <2>3, <2>4, <2>5
<1> QED BY <1>3, <1>4

LEMMA ElsewhereStays == CatalogInv /\ CatalogNext => UNCHANGED elsewhere
BY OneMoves DEF Moves, PostIs, CommitPost

(* Where a post lands.                                                      *)
LEMMA PostLands ==
  ASSUME CatalogInv, NEW c \in Poster, CommitPost(c), post[c].op = "post"
  PROVE  /\ spot'[post[c].spot].served
         /\ post[c].crossed \/ post[c].place \in {None, spot'[post[c].spot].place}
         /\ post[c].place = None /\ "spot" \in post[c].adds => post[c].crossed \/ Standing = {}
<1>1. PICK q : q = post[c]
  OBVIOUS
<1>2. PICK n : n = Stored(q, spot[q.spot])
  OBVIOUS
<1>3. q \in PostRecord /\ PostStage(q) /\ PostKnows(q) /\ q.pc = "commit" /\ q.op = "post"
  BY <1>1, InPost DEF CommitPost, PostAt
<1>4. q.spot \in Spot /\ spot'[q.spot] = n
  BY <1>1, <1>2, RowsAfter
<1>5. /\ n.served /\ n.there
      /\ HasEntry(q) => n.place = q.place
      /\ n.there /\ ~HasEntry(q) => n.place = spot[q.spot].place
  BY <1>1, <1>2, <1>3, StoredIs
<1>6. HasEntry(q) <=> "spot" \in q.adds
  BY <1>3 DEF HasEntry
<1>7. q.place # None /\ ~q.crossed => n.place = q.place
  BY <1>3, <1>4, <1>5, <1>6 DEF PostKnows
<1>8. q.place = None /\ "spot" \in q.adds => q.crossed \/ Standing = {}
  BY <1>3 DEF PostKnows
<1> QED BY <1>1, <1>4, <1>5, <1>7, <1>8

LEMMA CatalogHoldsOn ==
  CatalogInv /\ CatalogInv' /\ [CatalogNext]_catalogVars =>
  [/\ \A p \in Place : Cardinality(AtPlace(p)') <= 1
   /\ Cardinality({r \in Standing' : spot'[r].slug = "base"}) + (IF elsewhere THEN 1 ELSE 0) <= 1
   /\ \A c \in Poster :
        LET q == post[c] IN
        /\ post'[c].slug = "random" /\ q.slug = "base" /\ q.op = "create" => AtPlace(q.place) = {}
        /\ PostAt(c, "commit") /\ PostAt(c, "free")' /\ spot' # spot /\ q.op = "post" =>
             /\ spot'[q.spot].served
             /\ q.crossed \/ q.place \in {None, spot'[q.spot].place}
             /\ q.place = None /\ "spot" \in q.adds => q.crossed \/ Standing = {}]_catalogVars
<1> SUFFICES ASSUME CatalogInv, CatalogInv', CatalogNext
             PROVE  /\ \A p \in Place : Cardinality(AtPlace(p)') <= 1
                    /\ Cardinality({r \in Standing' : spot'[r].slug = "base"}) + (IF elsewhere THEN 1 ELSE 0) <= 1
                    /\ \A c \in Poster :
                         LET q == post[c] IN
                         /\ post'[c].slug = "random" /\ q.slug = "base" /\ q.op = "create" => AtPlace(q.place) = {}
                         /\ PostAt(c, "commit") /\ PostAt(c, "free")' /\ spot' # spot /\ q.op = "post" =>
                              /\ spot'[q.spot].served
                              /\ q.crossed \/ q.place \in {None, spot'[q.spot].place}
                              /\ q.place = None /\ "spot" \in q.adds => q.crossed \/ Standing = {}
  OBVIOUS
<1>0. FewSpots' /\ UNCHANGED elsewhere
  <2>1. CatalogInv' => FewSpots'
    BY FewSpotsStand, PTL
  <2> QED BY <2>1, ElsewhereStays
<1>1. \A p \in Place : Cardinality(AtPlace(p)') <= 1
  BY <1>0 DEF FewSpots
<1>2. Cardinality({r \in Standing' : spot'[r].slug = "base"}) + (IF elsewhere THEN 1 ELSE 0) <= 1
  BY <1>0 DEF FewSpots
<1>3. PICK d \in Poster : CommitPost(d) \/ \E q : Moves(d, q)
  BY OneMoves
<1>4. ASSUME NEW c \in Poster, post'[c].slug = "random", post[c].slug = "base", post[c].op = "create"
      PROVE  AtPlace(post[c].place) = {}
  <2>1. post \in [Poster -> PostRecord] /\ "random" # "base"
    BY DEF CatalogInv, CatalogTypeOK
  <2>2. CASE CommitPost(d)
    <3>1. c # d => post'[c].slug = post[c].slug
      BY <2>2, PostsCrossed
    <3>2. c = d => post'[c].slug = "base"
      BY <2>2, FreeStands DEF CommitPost
    <3> QED BY <1>4, <2>1, <3>1, <3>2
  <2>3. CASE \E q : Moves(d, q)
    BY <1>4, <2>1, <2>3 DEF Moves, PostIs
  <2> QED BY <1>3, <2>2, <2>3
<1>5. ASSUME NEW c \in Poster, PostAt(c, "commit"), PostAt(c, "free")', spot' # spot
      PROVE  CommitPost(c)
  <2>1. CommitPost(d)
    BY <1>3, <1>5 DEF Moves, PostIs
  <2>2. c # d => post'[c].pc = "commit"
    BY <1>5, <2>1, PostsCrossed DEF PostAt
  <2> QED BY <1>5, <2>1, <2>2 DEF PostAt
<1> QED BY <1>1, <1>2, <1>4, <1>5, PostLands

(* However requests race, a place has one restaurant and the base slug is   *)
(* of one; and a post lands where it said (posts.py, restaurants.py).       *)
THEOREM CatalogIsKept == CatalogSpec => CatalogHolds
<1> QED BY CatalogInvariant, CatalogHoldsOn, PTL DEF CatalogSpec, CatalogHolds

HIDE CatalogAssumption

------------------------------------------------------------------------------
(* Categories.                                                              *)

(* Who brings a category, who ends one, who refers to one that is there.    *)
Brings(q) == q.op = "coin" \/ q.coins
EndsIt(q) == q.op \in {"reject", "drop"} /\ q.pc = "commit"
Fills(q) == q.op \in {"post", "edit"} /\ q.bare # {} /\ q.cat # NoCategory /\ ~q.coins

TaskStage(q) ==
  /\ q.op = "none" <=> q.pc = "none"
  /\ q.pc = "none" => q = NoTask
  /\ q.op = "post" => q.pc \in {"infer", "pick", "write", "commit"}
  /\ q.op = "edit" => q.pc \in {"write", "commit"} /\ q.bare = {"venue"} /\ q.cat # NoCategory
  /\ q.op \in {"coin", "approve", "drop"} => q.pc \in {"write", "commit"}
  /\ q.op = "reject" => q.pc \in {"repoint", "write", "commit"}
  /\ IF q.op \in {"post", "edit"} THEN q.venue \in Venue ELSE q.bare = {}
  /\ q.op \in {"coin", "approve", "reject", "drop"} \/ q.coins => q.cat \in Category
  /\ q.coins => q.op \in {"post", "coin"}
  /\ q.tells <=> q.op = "post" /\ q.coins
  /\ q.op = "coin" => (q.coins <=> q.pc = "commit")
  /\ q.op = "post" /\ q.pc \in {"infer", "pick"} => "dish" \in q.bare /\ q.cat = NoCategory /\ ~q.coins
  /\ q.op = "post" /\ q.bare # {} => "dish" \in q.bare
  /\ q.op = "post" /\ q.pc = "pick" => q.given = "no"
  /\ q.op = "post" /\ q.bare = {} => q.cat = NoCategory /\ ~q.coins
  /\ q.op = "post" /\ q.pc \in {"write", "commit"} /\ q.given = "no" /\ q.bare # {} => q.cat # NoCategory

(* What is brought is not there yet, what is ended or approved is, and so   *)
(* is what is referred to; what was read is so unless somebody has          *)
(* committed since.                                                         *)
TaskKnows(q) ==
  /\ Brings(q) => category[q.cat] = "absent"
  /\ q.coins => OfSlug = {}
  /\ q.pc = "commit" /\ q.op \in {"approve", "reject", "drop"} => q.cat \in OfSlug
  /\ q.pc = "commit" /\ Fills(q) => Listed(q.cat)
  /\ q.op = "post" /\ ~q.crossed /\ "venue" \in q.bare => ofVenue[q.venue] = NoCategory
  /\ q.op = "reject" /\ ~q.crossed =>
       /\ category[q.cat] = "pending"
       /\ q.pc \in {"write", "commit"} => q.moves = {v \in Venue : ofVenue[v] = q.cat}

(* Nobody else refers to what is brought, one inserts at a time, and what   *)
(* is being deleted is in nobody else's commit.                             *)
TasksApart(q, e) ==
  /\ Brings(q) => e.cat # q.cat
  /\ ~(q.coins /\ e.coins)
  /\ EndsIt(q) /\ e.pc = "commit" => e.cat # q.cat

ColumnsKnow ==
  /\ \A k, l \in OfSlug : k = l
  /\ \A v \in Venue : \A k \in {ofVenue[v], ofDish[v]} : k = NoCategory \/ Listed(k)

CategoriesInv ==
  /\ CategoriesTypeOK
  /\ \A c \in Task : TaskStage(task[c]) /\ TaskKnows(task[c])
  /\ \A c \in Task : \A d \in Task \ {c} : TasksApart(task[c], task[d])
  /\ ColumnsKnow

USE CategoriesAssumption

LEMMA InTask ==
  ASSUME CategoriesInv, NEW c \in Task
  PROVE  task[c] \in TaskRecord /\ TaskStage(task[c]) /\ TaskKnows(task[c])
BY DEF CategoriesInv, CategoriesTypeOK

LEMMA NoTaskStands ==
  /\ NoTask \in TaskRecord /\ TaskStage(NoTask) /\ TaskKnows(NoTask)
  /\ ~Brings(NoTask) /\ ~EndsIt(NoTask) /\ ~Fills(NoTask)
  /\ NoTask.op = "none" /\ NoTask.pc = "none" /\ ~NoTask.coins /\ NoTask.cat = NoCategory
  /\ NoTask.bare = {} /\ NoTask.moves = {} /\ ~NoTask.crossed
BY DEF NoTask, TaskRecord, TaskStage, TaskKnows, Brings, EndsIt, Fills, Given, AnyCategory

LEMMA CategoriesStart == CategoriesInit => CategoriesInv
<1> SUFFICES ASSUME CategoriesInit PROVE CategoriesInv
  OBVIOUS
<1>1. CategoriesTypeOK
  BY NoTaskStands DEF CategoriesInit, CategoriesTypeOK, AnyCategory
<1>2. ColumnsKnow
  BY DEF CategoriesInit, ColumnsKnow, OfSlug, Listed
<1>3. \A c \in Task : task[c] = NoTask
  BY DEF CategoriesInit
<1>4. TasksApart(NoTask, NoTask)
  BY NoTaskStands DEF TasksApart
<1> QED BY <1>1, <1>2, <1>3, <1>4, NoTaskStands DEF CategoriesInv

(* One request moves, and no row does.                                      *)
LEMMA TaskMoves ==
  ASSUME CategoriesInv, NEW c \in Task, NEW q \in TaskRecord, TaskIs(c, q),
         TaskStage(q), TaskKnows(q),
         \A d \in Task \ {c} : TasksApart(q, task[d]) /\ TasksApart(task[d], q)
  PROVE  CategoriesInv'
<1>1. /\ UNCHANGED category /\ UNCHANGED ofVenue /\ UNCHANGED ofDish
      /\ task' \in [Task -> TaskRecord]
      /\ \A d \in Task : task'[d] = IF d = c THEN q ELSE task[d]
  BY DEF TaskIs, CategoriesInv, CategoriesTypeOK
<1>2. CategoriesTypeOK' /\ ColumnsKnow'
  BY <1>1 DEF CategoriesInv, CategoriesTypeOK, ColumnsKnow, OfSlug, Listed
<1>3. ASSUME NEW d \in Task
      PROVE  TaskStage(task'[d]) /\ TaskKnows(task[d])'
  <2>1. PICK r : r = task'[d]
    OBVIOUS
  <2>2. TaskStage(r) /\ TaskKnows(r)
    BY <1>1, <2>1, InTask
  <2>3. TaskKnows(r)'
    BY <1>1, <2>2 DEF TaskKnows, OfSlug, Listed
  <2> QED BY <2>1, <2>2, <2>3 DEF TaskKnows
<1>4. ASSUME NEW d \in Task, NEW e \in Task \ {d}
      PROVE  TasksApart(task'[d], task'[e])
  <2>1. TasksApart(task[d], task[e])
    BY DEF CategoriesInv
  <2> QED BY <1>1, <2>1
<1> QED BY <1>2, <1>3, <1>4 DEF CategoriesInv

LEMMA BroughtIsNew ==
  ASSUME CategoriesInv, NEW c \in Task, Brings(task[c])
  PROVE  task[c].cat \in Category /\ task[c].cat \notin OfSlug
BY InTask DEF TaskStage, TaskKnows, Brings, OfSlug

(* A request that brings nothing and is not at its commit is in nobody's    *)
(* way.                                                                     *)
LEMMA QuietTask ==
  ASSUME CategoriesInv, NEW c \in Task, NEW q \in TaskRecord, TaskIs(c, q), TaskStage(q),
         ~Brings(q), q.pc # "commit", q.cat \in {NoCategory, Otros, task[c].cat} \cup OfSlug,
         q.op = "post" /\ ~q.crossed /\ "venue" \in q.bare => ofVenue[q.venue] = NoCategory,
         q.op = "reject" /\ ~q.crossed =>
           /\ category[q.cat] = "pending"
           /\ q.pc = "write" => q.moves = {v \in Venue : ofVenue[v] = q.cat}
  PROVE  CategoriesInv'
<1>1. ~q.coins /\ TaskKnows(q)
  BY DEF Brings, TaskKnows
<1>2. ASSUME NEW d \in Task \ {c}
      PROVE  TasksApart(q, task[d]) /\ TasksApart(task[d], q)
  <2>1. TasksApart(task[d], task[c])
    BY DEF CategoriesInv
  <2>2. Brings(task[d]) => q.cat # task[d].cat
    <3>1. Brings(task[d]) => task[d].cat \in Category /\ task[d].cat \notin OfSlug
      BY BroughtIsNew
    <3>2. Brings(task[d]) => task[c].cat # task[d].cat
      BY <2>1 DEF TasksApart
    <3> QED BY <3>1, <3>2
  <2> QED BY <1>1, <2>2 DEF TasksApart, EndsIt
<1> QED BY <1>1, <1>2, TaskMoves

LEMMA TaskEnds ==
  ASSUME CategoriesInv, NEW c \in Task, TaskIs(c, NoTask)
  PROVE  CategoriesInv'
BY NoTaskStands, QuietTask
LEMMA Found ==
  ASSUME NEW given
  PROVE  FindCategory(given) \in {NoCategory, Otros} \cup OfSlug
<1>1. OneOf(OfSlug) \in {NoCategory} \cup OfSlug
  BY DEF OneOf
<1>2. CASE given = "otros"
  BY <1>2 DEF FindCategory
<1>3. CASE given = "slug"
  BY <1>1, <1>3 DEF FindCategory
<1>4. CASE ~(given = "otros") /\ ~(given = "slug")
  BY <1>4 DEF FindCategory
<1> QED BY <1>2, <1>3, <1>4

LEMMA SlugsAreCategories == OfSlug \in SUBSET Category /\ OfSlug \cup {NoCategory, Otros} \in SUBSET AnyCategory
BY DEF OfSlug, AnyCategory

LEMMA BeginPostingKeeps ==
  ASSUME CategoriesInv, NEW c \in Task, NEW v \in Venue, NEW given \in Given, BeginPosting(c, v, given)
  PROVE  CategoriesInv'
<1>1. PICK b : b = Bare(v)
  OBVIOUS
<1>2. PICK pc : pc = IF b # {} THEN "infer" ELSE "write"
  OBVIOUS
<1>3. b \in SUBSET {"venue", "dish"} /\ (b # {} => "dish" \in b) /\ ("venue" \in b => ofVenue[v] = NoCategory)
  BY <1>1 DEF Bare
<1>4. pc \in {"infer", "write"} /\ (pc = "infer" <=> b # {})
  BY <1>2
<1> DEFINE q == [NoTask EXCEPT !.op = "post", !.venue = v, !.given = given, !.bare = b, !.pc = pc]
<1>5. TaskIs(c, q)
  BY <1>1, <1>2 DEF BeginPosting, StartTask
<1>6. /\ q \in TaskRecord /\ q.op = "post" /\ q.pc = pc /\ q.venue = v /\ q.given = given /\ q.bare = b
      /\ q.cat = NoCategory /\ ~q.coins /\ ~q.tells
  BY <1>3, <1>4 DEF NoTask, TaskRecord, AnyCategory
<1> HIDE DEF q
<1>7. TaskStage(q) /\ ~Brings(q)
  BY <1>3, <1>4, <1>6 DEF TaskStage, Brings
<1> QED BY <1>3, <1>4, <1>5, <1>6, <1>7, QuietTask

LEMMA UpdateVenueKeeps ==
  ASSUME CategoriesInv, NEW c \in Task, NEW v \in Venue, NEW given, UpdateVenue(c, v, given)
  PROVE  CategoriesInv'
<1>1. PICK k : k = FindCategory(given)
  OBVIOUS
<1>2. k \in Category \cup {Otros} /\ k \in {Otros} \cup OfSlug /\ k # NoCategory
  BY <1>1, Found, SlugsAreCategories DEF UpdateVenue
<1> DEFINE q == [NoTask EXCEPT !.op = "edit", !.pc = "write", !.venue = v, !.bare = {"venue"}, !.cat = k]
<1>3. TaskIs(c, q)
  BY <1>1 DEF UpdateVenue, StartTask
<1>4. /\ q \in TaskRecord /\ q.op = "edit" /\ q.pc = "write" /\ q.venue = v /\ q.bare = {"venue"}
      /\ q.cat = k /\ ~q.coins /\ ~q.tells
  BY <1>2 DEF NoTask, TaskRecord, AnyCategory, Given
<1> HIDE DEF q
<1>5. TaskStage(q) /\ ~Brings(q)
  BY <1>2, <1>4 DEF TaskStage, Brings
<1> QED BY <1>2, <1>3, <1>4, <1>5, QuietTask

LEMMA OnCategoryKeeps ==
  ASSUME CategoriesInv, NEW c \in Task, NEW k \in Category,
         ApprovePendingCategory(c, k) \/ RejectPendingCategory(c, k) \/ DeleteCategory(c, k)
  PROVE  CategoriesInv'
<1>1. PICK op \in {"approve", "reject", "drop"}, pc \in {"repoint", "write"} :
        /\ OnCategory(c, op, pc, k) /\ k \in OfSlug /\ (op = "reject" <=> pc = "repoint")
        /\ op = "reject" => category[k] = "pending"
  BY DEF ApprovePendingCategory, RejectPendingCategory, DeleteCategory, OfSlug
<1> DEFINE q == [NoTask EXCEPT !.op = op, !.pc = pc, !.cat = k]
<1>2. TaskIs(c, q)
  BY <1>1 DEF OnCategory, StartTask
<1>3. q \in TaskRecord /\ q.op = op /\ q.pc = pc /\ q.cat = k /\ q.bare = {} /\ ~q.coins /\ ~q.tells
  BY DEF NoTask, TaskRecord, AnyCategory, Given
<1> HIDE DEF q
<1>4. TaskStage(q) /\ ~Brings(q)
  BY <1>1, <1>3 DEF TaskStage, Brings
<1> QED BY <1>1, <1>2, <1>3, <1>4, QuietTask

(* What a request becomes that goes on.                                     *)
TaskPc == {"none", "infer", "pick", "repoint", "write", "commit"}
WithCat(q, k) == [q EXCEPT !.pc = "write", !.cat = k]
OnTo(q, pc) == [q EXCEPT !.pc = pc]
Inserting(q) == [q EXCEPT !.pc = "commit", !.coins = TRUE]
Moving(q, has) == [q EXCEPT !.pc = "write", !.moves = has]
Shown(q, w) == [q EXCEPT !.pc = "pick", !.shown = w]

LEMMA TaskWithCat ==
  ASSUME NEW q \in TaskRecord, NEW k \in AnyCategory
  PROVE  /\ WithCat(q, k) \in TaskRecord /\ WithCat(q, k).op = q.op /\ WithCat(q, k).pc = "write"
         /\ WithCat(q, k).venue = q.venue /\ WithCat(q, k).given = q.given
         /\ WithCat(q, k).bare = q.bare /\ WithCat(q, k).cat = k
         /\ WithCat(q, k).coins = q.coins /\ WithCat(q, k).moves = q.moves
         /\ WithCat(q, k).tells = q.tells /\ WithCat(q, k).crossed = q.crossed
BY DEF TaskRecord, WithCat

LEMMA TaskWithNew ==
  ASSUME NEW q \in TaskRecord, NEW k \in AnyCategory
  PROVE  /\ WithNew(q, k) \in TaskRecord /\ WithNew(q, k).op = q.op /\ WithNew(q, k).pc = "write"
         /\ WithNew(q, k).venue = q.venue /\ WithNew(q, k).given = q.given
         /\ WithNew(q, k).bare = q.bare /\ WithNew(q, k).cat = k
         /\ WithNew(q, k).coins /\ WithNew(q, k).tells /\ WithNew(q, k).crossed = q.crossed
BY DEF TaskRecord, WithNew

LEMMA TaskOnTo ==
  ASSUME NEW q \in TaskRecord, NEW pc \in TaskPc
  PROVE  /\ OnTo(q, pc) \in TaskRecord /\ OnTo(q, pc).op = q.op /\ OnTo(q, pc).pc = pc
         /\ OnTo(q, pc).venue = q.venue /\ OnTo(q, pc).given = q.given
         /\ OnTo(q, pc).bare = q.bare /\ OnTo(q, pc).cat = q.cat
         /\ OnTo(q, pc).coins = q.coins /\ OnTo(q, pc).moves = q.moves
         /\ OnTo(q, pc).tells = q.tells /\ OnTo(q, pc).crossed = q.crossed
BY DEF TaskRecord, TaskPc, OnTo

LEMMA PostsOnly ==
  ASSUME CategoriesInv, NEW c \in Task, task[c].pc \in {"infer", "pick"}
  PROVE  /\ task[c].op = "post" /\ "dish" \in task[c].bare /\ task[c].cat = NoCategory
         /\ ~task[c].coins /\ ~task[c].tells /\ task[c].venue \in Venue
         /\ task[c].pc = "pick" => task[c].given = "no"
<1>1. task[c].op \in {"none", "post", "edit", "coin", "approve", "reject", "drop"}
  BY InTask DEF TaskRecord
<1> QED BY <1>1, InTask DEF TaskStage

LEMMA CategorizedKeeps ==
  ASSUME CategoriesInv, NEW c \in Task, task[c].pc \in {"infer", "pick"},
         NEW k \in {NoCategory, Otros} \cup OfSlug, TaskIs(c, WithCat(task[c], k)),
         task[c].given = "no" => k # NoCategory
  PROVE  CategoriesInv'
<1>1. PICK q : q = WithCat(task[c], k)
  OBVIOUS
<1>2. /\ task[c].op = "post" /\ "dish" \in task[c].bare /\ ~task[c].coins /\ ~task[c].tells
      /\ task[c].venue \in Venue
  BY PostsOnly
<1>3. k \in AnyCategory
  BY SlugsAreCategories
<1>4. /\ q \in TaskRecord /\ q.op = "post" /\ q.pc = "write" /\ q.venue = task[c].venue
      /\ q.given = task[c].given /\ q.bare = task[c].bare /\ q.cat = k /\ ~q.coins /\ ~q.tells
      /\ q.crossed = task[c].crossed
  BY <1>1, <1>2, <1>3, InTask, TaskWithCat
<1>5. TaskStage(q) /\ ~Brings(q)
  BY <1>2, <1>4 DEF TaskStage, Brings
<1>6. ~q.crossed /\ "venue" \in q.bare => ofVenue[q.venue] = NoCategory
  BY <1>2, <1>4, InTask DEF TaskKnows
<1> QED BY <1>1, <1>4, <1>5, <1>6, QuietTask

LEMMA ChooseCategoryKeeps ==
  ASSUME CategoriesInv, NEW c \in Task, TakeGiven(c) \/ FallbackOtros(c) \/ PickExisting(c)
  PROVE  CategoriesInv'
<1>1. CASE TakeGiven(c)
  <2>1. PICK k : k = FindCategory(task[c].given)
    OBVIOUS
  <2>2. k \in {NoCategory, Otros} \cup OfSlug
    BY <2>1, Found
  <2>3. TaskIs(c, WithCat(task[c], k)) /\ task[c].pc = "infer" /\ task[c].given # "no"
    BY <1>1, <2>1 DEF TakeGiven, TaskAt, WithCat
  <2> QED BY <2>2, <2>3, CategorizedKeeps
<1>2. CASE FallbackOtros(c)
  <2>1. TaskIs(c, WithCat(task[c], Otros)) /\ task[c].pc = "pick"
    BY <1>2 DEF FallbackOtros, Decide, TaskAt, WithCat
  <2> QED BY <2>1, CategorizedKeeps
<1>3. CASE PickExisting(c)
  <2>1. PICK k : k = OneOf(OfSlug)
    OBVIOUS
  <2>2. k \in OfSlug /\ k # NoCategory
    BY <1>3, <2>1, SlugsAreCategories DEF PickExisting, OneOf
  <2>3. TaskIs(c, WithCat(task[c], k)) /\ task[c].pc = "pick"
    BY <1>3, <2>1 DEF PickExisting, Decide, TaskAt, WithCat
  <2> QED BY <2>2, <2>3, CategorizedKeeps
<1> QED BY <1>1, <1>2, <1>3

LEMMA InferCategoryKeeps ==
  ASSUME CategoriesInv, NEW c \in Task, InferCategory(c)
  PROVE  CategoriesInv'
<1>1. PICK w \in BOOLEAN : w = (Approved # {Otros})
  OBVIOUS
<1>2. PICK q : q = Shown(task[c], w)
  OBVIOUS
<1>3. TaskIs(c, q) /\ task[c].pc = "infer" /\ task[c].given = "no"
  BY <1>1, <1>2 DEF InferCategory, TaskAt, Shown
<1>4. /\ task[c].op = "post" /\ "dish" \in task[c].bare /\ task[c].cat = NoCategory
      /\ ~task[c].coins /\ ~task[c].tells /\ task[c].venue \in Venue
  BY <1>3, PostsOnly
<1>5. ASSUME NEW r \in TaskRecord, NEW x \in BOOLEAN
      PROVE  /\ Shown(r, x) \in TaskRecord /\ Shown(r, x).op = r.op /\ Shown(r, x).pc = "pick"
             /\ Shown(r, x).venue = r.venue /\ Shown(r, x).given = r.given
             /\ Shown(r, x).bare = r.bare /\ Shown(r, x).cat = r.cat
             /\ Shown(r, x).coins = r.coins /\ Shown(r, x).tells = r.tells
             /\ Shown(r, x).crossed = r.crossed
  BY DEF TaskRecord, Shown
<1>6. task[c] \in TaskRecord
  BY InTask
<1>7. /\ q \in TaskRecord /\ q.op = "post" /\ q.pc = "pick" /\ q.venue = task[c].venue
      /\ q.given = "no" /\ q.bare = task[c].bare /\ q.cat = NoCategory /\ ~q.coins /\ ~q.tells
      /\ q.crossed = task[c].crossed
  BY <1>1, <1>2, <1>3, <1>4, <1>5, <1>6
<1>8. TaskStage(q) /\ ~Brings(q)
  BY <1>4, <1>7 DEF TaskStage, Brings
<1>9. ~q.crossed /\ "venue" \in q.bare => ofVenue[q.venue] = NoCategory
  BY <1>4, <1>7, InTask DEF TaskKnows
<1> QED BY <1>3, <1>7, <1>8, <1>9, QuietTask

LEMMA NewIsNobodys ==
  ASSUME NEW k \in NewCategory
  PROVE  k \in Category /\ category[k] = "absent" /\ \A e \in Task : task[e].cat # k
BY DEF NewCategory

LEMMA ProposeNewKeeps ==
  ASSUME CategoriesInv, NEW c \in Task, ProposeNew(c)
  PROVE  CategoriesInv'
<1>1. CASE TaskIs(c, NoTask)
  BY <1>1, TaskEnds
<1>2. ASSUME OfSlug = {}, NEW k \in NewCategory,
             TaskIs(c, WithNew(task[c], k))
      PROVE  CategoriesInv'
  <2>1. PICK q : q = WithNew(task[c], k)
    OBVIOUS
  <2>2. task[c].pc = "pick" /\ task[c].op = "post" /\ "dish" \in task[c].bare /\ task[c].venue \in Venue
    <3>1. task[c].pc = "pick"
      BY DEF ProposeNew, TaskAt
    <3> QED BY <3>1, PostsOnly
  <2>3. k \in Category /\ category[k] = "absent" /\ \A e \in Task : task[e].cat # k
    BY NewIsNobodys
  <2>4. k \in AnyCategory
    BY <2>3 DEF AnyCategory
  <2>5. /\ q \in TaskRecord /\ q.op = "post" /\ q.pc = "write" /\ q.venue = task[c].venue
        /\ q.given = task[c].given /\ q.bare = task[c].bare /\ q.cat = k /\ q.coins /\ q.tells
        /\ q.crossed = task[c].crossed
    BY <2>1, <2>2, <2>4, InTask, TaskWithNew
  <2>6. TaskStage(q)
    BY <2>2, <2>3, <2>5 DEF TaskStage
  <2>7. TaskKnows(q)
    BY <1>2, <2>2, <2>3, <2>5, InTask DEF TaskKnows
  <2>8. \A d \in Task \ {c} : ~task[d].coins
    BY DEF ProposeNew, OtherTasks
  <2>9. \A d \in Task \ {c} : TasksApart(q, task[d]) /\ TasksApart(task[d], q)
    BY <2>3, <2>5, <2>8 DEF TasksApart, EndsIt
  <2> QED BY <1>2, <2>1, <2>5, <2>6, <2>7, <2>9, TaskMoves
<1> QED BY <1>1, <1>2 DEF ProposeNew

LEMMA CreateCategoryKeeps ==
  ASSUME CategoriesInv, NEW c \in Task, CreateCategory(c)
  PROVE  CategoriesInv'
<1>1. PICK k \in NewCategory : OnCategory(c, "coin", "write", k)
  BY DEF CreateCategory
<1>2. k \in Category /\ category[k] = "absent" /\ \A e \in Task : task[e].cat # k
  BY NewIsNobodys
<1> DEFINE q == [NoTask EXCEPT !.op = "coin", !.pc = "write", !.cat = k]
<1>3. TaskIs(c, q)
  BY <1>1 DEF OnCategory, StartTask
<1>4. q \in TaskRecord /\ q.op = "coin" /\ q.pc = "write" /\ q.cat = k /\ q.bare = {} /\ ~q.coins /\ ~q.tells
  BY <1>2 DEF NoTask, TaskRecord, AnyCategory, Given
<1> HIDE DEF q
<1>5. TaskStage(q) /\ TaskKnows(q)
  BY <1>2, <1>4 DEF TaskStage, TaskKnows, Fills
<1>6. \A d \in Task \ {c} : TasksApart(q, task[d]) /\ TasksApart(task[d], q)
  BY <1>2, <1>4 DEF TasksApart, EndsIt
<1> QED BY <1>3, <1>4, <1>5, <1>6, TaskMoves

LEMMA InsertCategoryKeeps ==
  ASSUME CategoriesInv, NEW c \in Task, InsertCategory(c)
  PROVE  CategoriesInv'
<1>1. CASE TaskIs(c, NoTask)
  BY <1>1, TaskEnds
<1>2. CASE OfSlug = {} /\ TaskIs(c, Inserting(task[c]))
  <2>1. PICK q : q = Inserting(task[c])
    OBVIOUS
  <2>2. task[c].op = "coin" /\ task[c].cat \in Category /\ task[c].bare = {} /\ ~task[c].tells
    BY InTask DEF InsertCategory, TaskStage
  <2>3. /\ q \in TaskRecord /\ q.op = "coin" /\ q.pc = "commit" /\ q.bare = {} /\ q.cat = task[c].cat
        /\ q.coins /\ ~q.tells
    <3>1. task[c] \in TaskRecord
      BY InTask
    <3>2. \A r \in TaskRecord : /\ Inserting(r) \in TaskRecord /\ Inserting(r).op = r.op /\ Inserting(r).pc = "commit"
                               /\ Inserting(r).bare = r.bare /\ Inserting(r).cat = r.cat
                               /\ Inserting(r).coins /\ Inserting(r).tells = r.tells
      BY DEF TaskRecord, Inserting
    <3> QED BY <2>1, <2>2, <3>1, <3>2
  <2>4. TaskStage(q)
    BY <2>2, <2>3 DEF TaskStage
  <2>5. Brings(task[c])
    BY <2>2 DEF Brings
  <2>6. TaskKnows(q)
    BY <1>2, <2>2, <2>3, <2>5, InTask DEF TaskKnows, Fills
  <2>7. ASSUME NEW d \in Task \ {c}
        PROVE  TasksApart(q, task[d]) /\ TasksApart(task[d], q)
    <3>1. TasksApart(task[c], task[d]) /\ TasksApart(task[d], task[c])
      BY DEF CategoriesInv
    <3>2. ~task[d].coins
      BY DEF InsertCategory, OtherTasks
    <3> QED BY <2>3, <2>5, <3>1, <3>2 DEF TasksApart, EndsIt
  <2> QED BY <1>2, <2>1, <2>3, <2>4, <2>6, <2>7, TaskMoves
<1> QED BY <1>1, <1>2 DEF InsertCategory, Inserting

LEMMA WriteColumnsKeeps ==
  ASSUME CategoriesInv, NEW c \in Task, WriteColumns(c)
  PROVE  CategoriesInv'
<1>1. CASE TaskIs(c, NoTask)
  BY <1>1, TaskEnds
<1>2. CASE /\ ~(task[c].bare # {} /\ task[c].cat # NoCategory /\ ~task[c].coins /\ ~Listed(task[c].cat))
           /\ TaskIs(c, OnTo(task[c], "commit"))
  <2>1. PICK q : q = OnTo(task[c], "commit")
    OBVIOUS
  <2>2. task[c].op \in {"post", "edit"} /\ task[c].pc = "write" /\ TaskStage(task[c]) /\ TaskKnows(task[c])
    BY InTask DEF WriteColumns, TaskAt
  <2>3. /\ q \in TaskRecord /\ q.op = task[c].op /\ q.pc = "commit" /\ q.venue = task[c].venue
        /\ q.given = task[c].given /\ q.bare = task[c].bare /\ q.cat = task[c].cat
        /\ q.coins = task[c].coins /\ q.tells = task[c].tells /\ q.crossed = task[c].crossed
    <3>1. "commit" \in TaskPc
      BY DEF TaskPc
    <3> QED BY <2>1, <3>1, InTask, TaskOnTo
  <2>4. TaskStage(q)
    BY <2>2, <2>3 DEF TaskStage
  <2>5. Brings(q) <=> Brings(task[c])
    BY <2>3 DEF Brings
  <2>6. TaskKnows(q)
    BY <1>2, <2>2, <2>3, <2>5 DEF TaskKnows, Fills
  <2>7. ASSUME NEW d \in Task \ {c}
        PROVE  TasksApart(q, task[d]) /\ TasksApart(task[d], q)
    <3>1. TasksApart(task[c], task[d]) /\ TasksApart(task[d], task[c])
      BY DEF CategoriesInv
    <3>2. EndsIt(task[d]) => task[d].cat # task[c].cat
      BY DEF WriteColumns, Dropping, OtherTasks, EndsIt
    <3> QED BY <2>2, <2>3, <2>5, <3>1, <3>2 DEF TasksApart, EndsIt
  <2> QED BY <1>2, <2>1, <2>3, <2>4, <2>6, <2>7, TaskMoves
<1> QED BY <1>1, <1>2 DEF WriteColumns, OnTo

LEMMA RepointKeeps ==
  ASSUME CategoriesInv, NEW c \in Task, Repoint(c)
  PROVE  CategoriesInv'
<1>1. PICK has : has = {v \in Venue : ofVenue[v] = task[c].cat}
  OBVIOUS
<1>2. PICK q : q = Moving(task[c], has)
  OBVIOUS
<1>3. TaskIs(c, q) /\ task[c].pc = "repoint"
  BY <1>1, <1>2 DEF Repoint, TaskAt, Moving
<1>4. /\ task[c].op = "reject" /\ task[c].bare = {} /\ task[c].cat \in Category
      /\ ~task[c].coins /\ ~task[c].tells
  <2>1. task[c].op \in {"none", "post", "edit", "coin", "approve", "reject", "drop"}
    BY InTask DEF TaskRecord
  <2> QED BY <1>3, <2>1, InTask DEF TaskStage
<1>5. has \in SUBSET Venue
  BY <1>1
<1>6. /\ q \in TaskRecord /\ q.op = "reject" /\ q.pc = "write" /\ q.bare = {} /\ q.cat = task[c].cat
      /\ ~q.coins /\ ~q.tells /\ q.moves = has /\ q.crossed = task[c].crossed
  <2>1. task[c] \in TaskRecord
    BY InTask
  <2>2. ASSUME NEW r \in TaskRecord, NEW m \in SUBSET Venue
        PROVE  /\ Moving(r, m) \in TaskRecord /\ Moving(r, m).op = r.op /\ Moving(r, m).pc = "write"
               /\ Moving(r, m).bare = r.bare /\ Moving(r, m).cat = r.cat
               /\ Moving(r, m).coins = r.coins /\ Moving(r, m).tells = r.tells
               /\ Moving(r, m).moves = m /\ Moving(r, m).crossed = r.crossed
    BY DEF TaskRecord, Moving
  <2> QED BY <1>2, <1>4, <1>5, <2>1, <2>2
<1>7. TaskStage(q) /\ ~Brings(q)
  BY <1>4, <1>6 DEF TaskStage, Brings
<1>8. ~q.crossed => category[q.cat] = "pending" /\ q.moves = {v \in Venue : ofVenue[v] = q.cat}
  BY <1>1, <1>4, <1>6, InTask DEF TaskKnows
<1> QED BY <1>3, <1>6, <1>7, <1>8, QuietTask

LEMMA WriteCategoryKeeps ==
  ASSUME CategoriesInv, NEW c \in Task, WriteCategory(c)
  PROVE  CategoriesInv'
<1>1. CASE TaskIs(c, NoTask)
  BY <1>1, TaskEnds
<1>2. CASE Listed(task[c].cat) /\ TaskIs(c, OnTo(task[c], "commit"))
  <2>1. PICK q : q = OnTo(task[c], "commit")
    OBVIOUS
  <2>2. /\ task[c].op \in {"approve", "reject", "drop"} /\ task[c].pc = "write"
        /\ TaskStage(task[c]) /\ TaskKnows(task[c])
    BY InTask DEF WriteCategory, TaskAt
  <2>3. /\ q \in TaskRecord /\ q.op = task[c].op /\ q.pc = "commit" /\ q.venue = task[c].venue
        /\ q.given = task[c].given /\ q.bare = task[c].bare /\ q.cat = task[c].cat
        /\ q.coins = task[c].coins /\ q.tells = task[c].tells /\ q.crossed = task[c].crossed
        /\ q.moves = task[c].moves
    <3>1. "commit" \in TaskPc
      BY DEF TaskPc
    <3> QED BY <2>1, <3>1, InTask, TaskOnTo
  <2>4. TaskStage(q) /\ ~q.coins /\ ~Brings(q)
    BY <2>2, <2>3 DEF TaskStage, Brings
  <2>5. q.cat \in OfSlug
    BY <1>2, <2>2, <2>3 DEF TaskStage, Listed
  <2>6. TaskKnows(q)
    BY <2>2, <2>3, <2>4, <2>5 DEF TaskKnows, Fills
  <2>7. ASSUME NEW d \in Task \ {c}
        PROVE  TasksApart(q, task[d]) /\ TasksApart(task[d], q)
    <3>1. TasksApart(task[d], task[c])
      BY DEF CategoriesInv
    <3>2. task[d].pc = "commit" => task[d].cat # task[c].cat
      BY DEF WriteCategory, OtherTasks
    <3> QED BY <2>3, <2>4, <3>1, <3>2 DEF TasksApart, EndsIt
  <2> QED BY <1>2, <2>1, <2>3, <2>4, <2>6, <2>7, TaskMoves
<1> QED BY <1>1, <1>2 DEF WriteCategory, OnTo

LEMMA CommitsAs ==
  ASSUME CategoriesInv, NEW c \in Task, CommitTask(c)
  PROVE  /\ task[c] \in TaskRecord /\ TaskStage(task[c]) /\ TaskKnows(task[c]) /\ task[c].pc = "commit"
         /\ task[c].op \in {"post", "edit", "coin", "approve", "reject", "drop"}
<1>1. task[c].op \in {"none", "post", "edit", "coin", "approve", "reject", "drop"} /\ TaskStage(task[c])
  BY InTask DEF TaskRecord
<1>2. task[c].pc = "commit"
  BY DEF CommitTask, TaskAt
<1> QED BY <1>1, <1>2, InTask DEF TaskStage

(* The status of a category, and the columns, after a commit.               *)
LEMMA StatusIs ==
  ASSUME CategoriesInv, NEW c \in Task, CommitTask(c), NEW k \in Category
  PROVE  /\ category'[k] =
              IF k # task[c].cat \/ (task[c].op \in {"post", "edit"} /\ ~task[c].coins) THEN category[k]
              ELSE IF task[c].op \in {"coin", "approve"} THEN "approved"
              ELSE IF task[c].op \in {"reject", "drop"} THEN "dropped" ELSE "pending"
         /\ category'[k] \in {"absent", "pending", "approved", "dropped"}
<1>1. category'[k] = StatusAfter(task[c], k)
  BY DEF CommitTask
<1>2. category[k] \in {"absent", "pending", "approved", "dropped"}
  BY DEF CategoriesInv, CategoriesTypeOK
<1>3. PICK q : q = task[c]
  OBVIOUS
<1>4. PICK s : s = StatusAfter(q, k)
  OBVIOUS
<1>5. CASE k # q.cat \/ (q.op \in {"post", "edit"} /\ ~q.coins)
  <2>1. s = category[k]
    BY <1>4, <1>5 DEF StatusAfter
  <2> QED BY <1>1, <1>2, <1>3, <1>4, <1>5, <2>1
<1>6. CASE ~(k # q.cat \/ (q.op \in {"post", "edit"} /\ ~q.coins)) /\ q.op \in {"coin", "approve"}
  <2>1. s = "approved"
    BY <1>4, <1>6 DEF StatusAfter
  <2> QED BY <1>1, <1>3, <1>4, <1>6, <2>1
<1>7. CASE ~(k # q.cat \/ (q.op \in {"post", "edit"} /\ ~q.coins)) /\ q.op \in {"reject", "drop"}
  <2>1. q.op \notin {"coin", "approve"}
    BY <1>7
  <2>2. s = "dropped"
    BY <1>4, <1>7, <2>1 DEF StatusAfter
  <2> QED BY <1>1, <1>3, <1>4, <1>7, <2>1, <2>2
<1>8. CASE /\ ~(k # q.cat \/ (q.op \in {"post", "edit"} /\ ~q.coins))
           /\ q.op \notin {"coin", "approve"} /\ q.op \notin {"reject", "drop"}
  <2>1. s = "pending"
    BY <1>4, <1>8 DEF StatusAfter
  <2> QED BY <1>1, <1>3, <1>4, <1>8, <2>1
<1> QED BY <1>5, <1>6, <1>7, <1>8

LEMMA ColumnsAre ==
  ASSUME CategoriesInv, NEW c \in Task, CommitTask(c), NEW v \in Venue
  PROVE  /\ ofVenue'[v] =
              IF task[c].op \in {"reject", "drop"} /\ ofVenue[v] = task[c].cat
              THEN IF v \in task[c].moves THEN Otros ELSE NoCategory
              ELSE IF v = task[c].venue /\ "venue" \in task[c].bare /\ task[c].cat # NoCategory
              THEN task[c].cat ELSE ofVenue[v]
         /\ ofDish'[v] =
              IF task[c].op \in {"reject", "drop"} /\ ofDish[v] = task[c].cat THEN NoCategory
              ELSE IF v = task[c].venue /\ "dish" \in task[c].bare /\ task[c].cat # NoCategory
              THEN task[c].cat ELSE ofDish[v]
<1>1. PICK q : q = task[c]
  OBVIOUS
<1>2. PICK s : s = VenueAfter(q, v)
  OBVIOUS
<1>3. PICK t : t = DishAfter(q, v)
  OBVIOUS
<1>4. ofVenue'[v] = s /\ ofDish'[v] = t
  BY <1>1, <1>2, <1>3 DEF CommitTask
<1>5. q.op \in {"reject", "drop"} => q.bare = {}
  BY <1>1, CommitsAs DEF TaskStage
<1>6. s = IF q.op \in {"reject", "drop"} /\ ofVenue[v] = q.cat
          THEN IF v \in q.moves THEN Otros ELSE NoCategory
          ELSE IF v = q.venue /\ "venue" \in q.bare /\ q.cat # NoCategory THEN q.cat ELSE ofVenue[v]
  <2>1. CASE q.op \in {"reject", "drop"} /\ ofVenue[v] = q.cat
    <3>1. ~("venue" \in q.bare)
      BY <1>5, <2>1
    <3> QED BY <1>2, <2>1, <3>1 DEF VenueAfter
  <2>2. CASE /\ ~(q.op \in {"reject", "drop"} /\ ofVenue[v] = q.cat)
             /\ v = q.venue /\ "venue" \in q.bare /\ q.cat # NoCategory
    BY <1>2, <2>2 DEF VenueAfter
  <2>3. CASE /\ ~(q.op \in {"reject", "drop"} /\ ofVenue[v] = q.cat)
             /\ ~(v = q.venue /\ "venue" \in q.bare /\ q.cat # NoCategory)
    BY <1>2, <2>3 DEF VenueAfter
  <2> QED BY <2>1, <2>2, <2>3
<1>7. t = IF q.op \in {"reject", "drop"} /\ ofDish[v] = q.cat THEN NoCategory
          ELSE IF v = q.venue /\ "dish" \in q.bare /\ q.cat # NoCategory THEN q.cat ELSE ofDish[v]
  <2>1. CASE q.op \in {"reject", "drop"} /\ ofDish[v] = q.cat
    <3>1. ~("dish" \in q.bare)
      BY <1>5, <2>1
    <3> QED BY <1>3, <2>1, <3>1 DEF DishAfter
  <2>2. CASE /\ ~(q.op \in {"reject", "drop"} /\ ofDish[v] = q.cat)
             /\ v = q.venue /\ "dish" \in q.bare /\ q.cat # NoCategory
    BY <1>3, <2>2 DEF DishAfter
  <2>3. CASE /\ ~(q.op \in {"reject", "drop"} /\ ofDish[v] = q.cat)
             /\ ~(v = q.venue /\ "dish" \in q.bare /\ q.cat # NoCategory)
    BY <1>3, <2>3 DEF DishAfter
  <2> QED BY <2>1, <2>2, <2>3
<1> QED BY <1>1, <1>4, <1>6, <1>7

(* The others remember that there was a commit.                             *)
LEMMA TasksCrossed ==
  ASSUME CategoriesInv, NEW c \in Task, CommitTask(c), NEW d \in Task \ {c}
  PROVE  /\ task'[d] \in TaskRecord /\ TaskStage(task'[d])
         /\ task'[d].op = task[d].op /\ task'[d].pc = task[d].pc /\ task'[d].venue = task[d].venue
         /\ task'[d].bare = task[d].bare /\ task'[d].cat = task[d].cat
         /\ task'[d].coins = task[d].coins /\ task'[d].moves = task[d].moves
         /\ (task[d].pc # "none" => task'[d].crossed)
<1>1. task[d] \in TaskRecord /\ TaskStage(task[d])
  BY InTask
<1>2. PICK w \in BOOLEAN : w = ~TaskAt(d, "none")
  OBVIOUS
<1>3. task'[d] = [task[d] EXCEPT !.crossed = w]
  BY <1>2 DEF CommitTask
<1>4. task[d].pc # "none" => w
  BY <1>2 DEF TaskAt
<1>5. task[d].pc = "none" => task'[d] = NoTask
  <2>1. CASE task[d].pc = "none"
    <3>1. task[d] = NoTask /\ w = FALSE
      BY <1>1, <1>2, <2>1 DEF TaskStage, TaskAt
    <3>2. \A q \in TaskRecord : q.crossed = FALSE => [q EXCEPT !.crossed = FALSE] = q
      BY DEF TaskRecord
    <3>3. NoTask.crossed = FALSE
      BY DEF NoTask
    <3> QED BY <1>3, <3>1, <3>2, <3>3, NoTaskStands
  <2> QED BY <2>1
<1>6. /\ task'[d] \in TaskRecord /\ task'[d].op = task[d].op /\ task'[d].pc = task[d].pc
      /\ task'[d].venue = task[d].venue /\ task'[d].given = task[d].given
      /\ task'[d].bare = task[d].bare /\ task'[d].cat = task[d].cat
      /\ task'[d].coins = task[d].coins /\ task'[d].moves = task[d].moves
      /\ task'[d].tells = task[d].tells /\ task'[d].crossed = w
  BY <1>1, <1>3 DEF TaskRecord
<1>7. TaskStage(task'[d])
  BY <1>1, <1>5, <1>6, NoTaskStands DEF TaskStage
<1> QED BY <1>4, <1>6, <1>7

(* The slug after a commit: of what it brings, or without what it ends.     *)
LEMMA SlugIs ==
  ASSUME CategoriesInv, NEW c \in Task, CommitTask(c)
  PROVE  OfSlug' = IF task[c].coins THEN OfSlug \cup {task[c].cat}
                   ELSE IF task[c].op \in {"reject", "drop"} THEN OfSlug \ {task[c].cat} ELSE OfSlug
<1>1. PICK q : q = task[c]
  OBVIOUS
<1>2. /\ q \in TaskRecord /\ TaskStage(q) /\ TaskKnows(q) /\ q.pc = "commit"
      /\ q.op \in {"post", "edit", "coin", "approve", "reject", "drop"}
  BY <1>1, CommitsAs
<1>3. \A k \in Category :
        category'[k] =
          IF k # q.cat \/ (q.op \in {"post", "edit"} /\ ~q.coins) THEN category[k]
          ELSE IF q.op \in {"coin", "approve"} THEN "approved"
          ELSE IF q.op \in {"reject", "drop"} THEN "dropped" ELSE "pending"
  BY <1>1, StatusIs
<1>4. CASE q.coins
  <2>1. q.cat \in Category /\ q.op \in {"post", "coin"}
    BY <1>2, <1>4 DEF TaskStage
  <2> QED BY <1>1, <1>3, <1>4, <2>1 DEF OfSlug
<1>5. CASE ~q.coins /\ q.op \in {"reject", "drop"}
  BY <1>1, <1>3, <1>5 DEF OfSlug
<1>6. CASE ~q.coins /\ q.op \in {"post", "edit"}
  BY <1>1, <1>3, <1>6 DEF OfSlug
<1>7. CASE ~q.coins /\ q.op = "approve"
  <2>1. q.cat \in OfSlug
    BY <1>2, <1>7 DEF TaskKnows
  <2> QED BY <1>1, <1>3, <1>7, <2>1 DEF OfSlug
<1>8. q.op = "coin" => q.coins
  BY <1>2 DEF TaskStage
<1> QED BY <1>2, <1>4, <1>5, <1>6, <1>7, <1>8

LEMMA ColumnsStand ==
  ASSUME CategoriesInv, NEW c \in Task, CommitTask(c)
  PROVE  ColumnsKnow'
<1>1. PICK q : q = task[c]
  OBVIOUS
<1>2. /\ q \in TaskRecord /\ TaskStage(q) /\ TaskKnows(q) /\ q.pc = "commit"
      /\ q.op \in {"post", "edit", "coin", "approve", "reject", "drop"}
  BY <1>1, CommitsAs
<1>3. OfSlug' = IF q.coins THEN OfSlug \cup {q.cat}
                ELSE IF q.op \in {"reject", "drop"} THEN OfSlug \ {q.cat} ELSE OfSlug
  BY <1>1, SlugIs
<1>4. /\ \A k, l \in OfSlug : k = l
      /\ \A v \in Venue : \A k \in {ofVenue[v], ofDish[v]} : k = NoCategory \/ k = Otros \/ k \in OfSlug
  BY DEF CategoriesInv, ColumnsKnow, Listed
<1>5. \A k, l \in OfSlug' : k = l
  BY <1>2, <1>3, <1>4 DEF TaskKnows
<1>6. q.coins => q.op \notin {"reject", "drop"}
  BY <1>2 DEF TaskStage
<1>7. ASSUME NEW k, k = NoCategory \/ k = Otros \/ k \in OfSlug, ~(q.op \in {"reject", "drop"} /\ k = q.cat)
      PROVE  k = NoCategory \/ k = Otros \/ k \in OfSlug'
  BY <1>3, <1>6, <1>7
<1>8. q.bare # {} /\ q.cat # NoCategory => q.cat = Otros \/ q.cat \in OfSlug'
  <2> SUFFICES ASSUME q.bare # {}, q.cat # NoCategory
               PROVE  q.cat = Otros \/ q.cat \in OfSlug'
    OBVIOUS
  <2>1. q.op \in {"post", "edit"}
    BY <1>2 DEF TaskStage
  <2>2. ~q.coins => q.cat = Otros \/ q.cat \in OfSlug
    BY <1>2, <2>1 DEF TaskKnows, Fills, Listed
  <2> QED BY <1>3, <2>1, <2>2
<1>9. ASSUME NEW v \in Venue
      PROVE  \A k \in {ofVenue'[v], ofDish'[v]} : k = NoCategory \/ k = Otros \/ k \in OfSlug'
  <2>1. ofVenue'[v] = NoCategory \/ ofVenue'[v] = Otros \/ ofVenue'[v] \in OfSlug'
    <3>1. ofVenue'[v] =
            IF q.op \in {"reject", "drop"} /\ ofVenue[v] = q.cat
            THEN IF v \in q.moves THEN Otros ELSE NoCategory
            ELSE IF v = q.venue /\ "venue" \in q.bare /\ q.cat # NoCategory THEN q.cat ELSE ofVenue[v]
      BY <1>1, ColumnsAre
    <3> QED BY <1>4, <1>7, <1>8, <3>1
  <2>2. ofDish'[v] = NoCategory \/ ofDish'[v] = Otros \/ ofDish'[v] \in OfSlug'
    <3>1. ofDish'[v] =
            IF q.op \in {"reject", "drop"} /\ ofDish[v] = q.cat THEN NoCategory
            ELSE IF v = q.venue /\ "dish" \in q.bare /\ q.cat # NoCategory THEN q.cat ELSE ofDish[v]
      BY <1>1, ColumnsAre
    <3> QED BY <1>4, <1>7, <1>8, <3>1
  <2> QED BY <2>1, <2>2
<1> QED BY <1>5, <1>9 DEF ColumnsKnow, Listed

(* What another request needs stays as it is.                               *)
LEMMA CommitSparesTask ==
  ASSUME CategoriesInv, NEW c \in Task, CommitTask(c), NEW d \in Task \ {c}
  PROVE  TaskKnows(task[d])'
<1>1. PICK q : q = task[c]
  OBVIOUS
<1>2. PICK o : o = task[d]
  OBVIOUS
<1>3. PICK r : r = task'[d]
  OBVIOUS
<1>4. /\ q \in TaskRecord /\ TaskStage(q) /\ TaskKnows(q) /\ q.pc = "commit"
      /\ q.op \in {"post", "edit", "coin", "approve", "reject", "drop"}
  BY <1>1, CommitsAs
<1>5. o \in TaskRecord /\ TaskStage(o) /\ TaskKnows(o) /\ TasksApart(q, o) /\ TasksApart(o, q)
  BY <1>1, <1>2, InTask DEF CategoriesInv
<1>6. /\ r.op = o.op /\ r.pc = o.pc /\ r.venue = o.venue /\ r.bare = o.bare /\ r.cat = o.cat
      /\ r.coins = o.coins /\ r.moves = o.moves /\ (o.pc # "none" => r.crossed)
  BY <1>2, <1>3, TasksCrossed
<1>7. OfSlug' = IF q.coins THEN OfSlug \cup {q.cat}
                ELSE IF q.op \in {"reject", "drop"} THEN OfSlug \ {q.cat} ELSE OfSlug
  BY <1>1, SlugIs
<1>8. Brings(o) => category'[o.cat] = "absent"
  <2>1. CASE Brings(o)
    <3>1. o.cat \in Category /\ category[o.cat] = "absent" /\ o.cat # q.cat
      BY <1>5, <2>1 DEF TaskStage, TaskKnows, TasksApart, Brings
    <3> QED BY <1>1, <3>1, StatusIs
  <2> QED BY <2>1
<1>9. o.coins => OfSlug' = {}
  BY <1>5, <1>7 DEF TaskKnows, TasksApart
<1>10. o.pc = "commit" /\ q.op \in {"reject", "drop"} => o.cat # q.cat
  BY <1>4, <1>5 DEF TasksApart, EndsIt
<1>11. o.pc = "commit" /\ o.op \in {"approve", "reject", "drop"} => o.cat \in OfSlug'
  BY <1>5, <1>7, <1>10 DEF TaskKnows
<1>12. o.pc = "commit" /\ Fills(o) => o.cat = Otros \/ o.cat \in OfSlug'
  BY <1>5, <1>7, <1>10 DEF TaskKnows, Listed
<1>13. o.op \in {"post", "reject"} => r.crossed
  BY <1>5, <1>6 DEF TaskStage
<1>14. (Brings(r) <=> Brings(o)) /\ (Fills(r) <=> Fills(o))
  BY <1>6 DEF Brings, Fills
<1>15. TaskKnows(r)'
  BY <1>6, <1>8, <1>9, <1>11, <1>12, <1>13, <1>14 DEF TaskKnows, Listed
<1> QED BY <1>3, <1>15 DEF TaskKnows

LEMMA CommitTaskKeeps ==
  ASSUME CategoriesInv, NEW c \in Task, CommitTask(c)
  PROVE  CategoriesInv'
<1>1. task'[c] = NoTask /\ \A d \in Task \ {c} : task'[d] \in TaskRecord /\ TaskStage(task'[d])
  BY TasksCrossed DEF CommitTask
<1>2. CategoriesTypeOK'
  <2>1. task' \in [Task -> TaskRecord]
    <3>1. task' = [e \in Task |-> task'[e]]
      BY DEF CommitTask
    <3>2. \A e \in Task : task'[e] \in TaskRecord
      BY <1>1, NoTaskStands
    <3> QED BY <3>1, <3>2
  <2>2. category' \in [Category -> {"absent", "pending", "approved", "dropped"}]
    <3>1. category' = [k \in Category |-> category'[k]]
      BY DEF CommitTask
    <3> QED BY <3>1, StatusIs
  <2>3. ASSUME NEW v \in Venue
        PROVE  ofVenue'[v] \in AnyCategory /\ ofDish'[v] \in AnyCategory
    <3>1. task[c].cat \in AnyCategory /\ Otros \in AnyCategory /\ NoCategory \in AnyCategory
      BY InTask DEF TaskRecord, AnyCategory
    <3>2. ofVenue[v] \in AnyCategory /\ ofDish[v] \in AnyCategory
      BY DEF CategoriesInv, CategoriesTypeOK
    <3> QED BY <3>1, <3>2, ColumnsAre
  <2>4. ofVenue' \in [Venue -> AnyCategory] /\ ofDish' \in [Venue -> AnyCategory]
    <3>1. ofVenue' = [v \in Venue |-> ofVenue'[v]] /\ ofDish' = [v \in Venue |-> ofDish'[v]]
      BY DEF CommitTask
    <3> QED BY <2>3, <3>1
  <2> QED BY <2>1, <2>2, <2>4 DEF CategoriesTypeOK
<1>3. ASSUME NEW d \in Task
      PROVE  TaskStage(task'[d]) /\ TaskKnows(task[d])'
  <2>1. CASE d = c
    <3>1. TaskKnows(NoTask)'
      BY NoTaskStands DEF TaskKnows
    <3> QED BY <1>1, <2>1, <3>1, NoTaskStands DEF TaskKnows
  <2>2. CASE d # c
    BY <1>1, <2>2, CommitSparesTask
  <2> QED BY <2>1, <2>2
<1>4. ASSUME NEW d \in Task, NEW e \in Task \ {d}
      PROVE  TasksApart(task'[d], task'[e])
  <2>1. TasksApart(task[d], task[e])
    BY DEF CategoriesInv
  <2>2. CASE d = c
    BY <1>1, <2>2, NoTaskStands DEF TasksApart
  <2>3. CASE e = c /\ d # c
    <3>1. /\ task'[e] = NoTask /\ task'[d].op = task[d].op
          /\ task'[d].cat = task[d].cat /\ task'[d].coins = task[d].coins
      BY <1>1, <2>3, TasksCrossed
    <3>2. Brings(task[d]) => task[d].cat \in Category
      BY BroughtIsNew
    <3> QED BY <3>1, <3>2, NoTaskStands DEF TasksApart, Brings
  <2>4. CASE d # c /\ e # c
    <3>1. /\ task'[d].op = task[d].op /\ task'[d].pc = task[d].pc
          /\ task'[d].cat = task[d].cat /\ task'[d].coins = task[d].coins
      BY <2>4, TasksCrossed
    <3>2. task'[e].pc = task[e].pc /\ task'[e].cat = task[e].cat /\ task'[e].coins = task[e].coins
      BY <2>4, TasksCrossed
    <3> QED BY <2>1, <3>1, <3>2 DEF TasksApart, Brings, EndsIt
  <2> QED BY <2>2, <2>3, <2>4
<1> QED BY <1>2, <1>3, <1>4, ColumnsStand DEF CategoriesInv

LEMMA CategoriesRest == CategoriesInv /\ UNCHANGED categoryVars => CategoriesInv'
<1> SUFFICES ASSUME CategoriesInv, UNCHANGED category, UNCHANGED ofVenue, UNCHANGED ofDish, UNCHANGED task
             PROVE  CategoriesInv'
  BY DEF categoryVars
<1>1. CategoriesTypeOK' /\ ColumnsKnow'
  BY DEF CategoriesInv, CategoriesTypeOK, ColumnsKnow, OfSlug, Listed
<1>2. ASSUME NEW c \in Task
      PROVE  TaskStage(task'[c]) /\ TaskKnows(task[c])'
  <2>1. PICK q : q = task[c]
    OBVIOUS
  <2>2. TaskStage(q) /\ TaskKnows(q) /\ q = task'[c]
    BY <2>1, InTask
  <2>3. TaskKnows(q)'
    BY <2>2 DEF TaskKnows, OfSlug, Listed
  <2> QED BY <2>2, <2>3 DEF TaskKnows
<1>3. \A c \in Task : \A d \in Task \ {c} : TasksApart(task'[c], task'[d])
  BY DEF CategoriesInv
<1> QED BY <1>1, <1>2, <1>3 DEF CategoriesInv

LEMMA CategoriesStep == CategoriesInv /\ [CategoriesNext]_categoryVars => CategoriesInv'
<1> SUFFICES ASSUME CategoriesInv, CategoriesNext
             PROVE  CategoriesInv'
  BY CategoriesRest
<1>1. PICK c \in Task :
        \/ \E v \in Venue :
             \/ \E given \in Given : BeginPosting(c, v, given)
             \/ \E given \in Given : UpdateVenue(c, v, given)
        \/ TakeGiven(c) \/ InferCategory(c)
        \/ FallbackOtros(c) \/ PickExisting(c) \/ ProposeNew(c)
        \/ WriteColumns(c)
        \/ CreateCategory(c) \/ InsertCategory(c)
        \/ \E k \in Category :
             ApprovePendingCategory(c, k) \/ RejectPendingCategory(c, k) \/ DeleteCategory(c, k)
        \/ Repoint(c) \/ WriteCategory(c)
        \/ CommitTask(c) \/ AbortTask(c)
  BY DEF CategoriesNext
<1>2. CASE \E v \in Venue :
             \/ \E given \in Given : BeginPosting(c, v, given)
             \/ \E given \in Given : UpdateVenue(c, v, given)
  BY <1>2, BeginPostingKeeps, UpdateVenueKeeps
<1>3. CASE TakeGiven(c) \/ InferCategory(c)
  BY <1>3, ChooseCategoryKeeps, InferCategoryKeeps
<1>4. CASE FallbackOtros(c) \/ PickExisting(c) \/ ProposeNew(c)
  BY <1>4, ChooseCategoryKeeps, ProposeNewKeeps
<1>5. CASE WriteColumns(c) \/ CreateCategory(c) \/ InsertCategory(c)
  BY <1>5, WriteColumnsKeeps, CreateCategoryKeeps, InsertCategoryKeeps
<1>6. CASE \E k \in Category :
             ApprovePendingCategory(c, k) \/ RejectPendingCategory(c, k) \/ DeleteCategory(c, k)
  BY <1>6, OnCategoryKeeps
<1>7. CASE Repoint(c) \/ WriteCategory(c)
  BY <1>7, RepointKeeps, WriteCategoryKeeps
<1>8. CASE CommitTask(c) \/ AbortTask(c)
  BY <1>8, CommitTaskKeeps, TaskEnds DEF AbortTask
<1> QED BY <1>1, <1>2, <1>3, <1>4, <1>5, <1>6, <1>7, <1>8

(* A slug is of one category, and what refers to one finds it, however      *)
(* proposals, decisions and deletions race (category_inference_service.py,  *)
(* categories.py).                                                          *)
THEOREM CategoriesInvariant == CategoriesSpec => []CategoriesInv
<1> QED BY CategoriesStart, CategoriesStep, PTL DEF CategoriesSpec

LEMMA OneTaskMoves ==
  ASSUME CategoriesNext
  PROVE  \E c \in Task : CommitTask(c) \/ \E q : TaskIs(c, q)
<1>1. PICK c \in Task :
        \/ \E v \in Venue :
             \/ \E given \in Given : BeginPosting(c, v, given)
             \/ \E given \in Given : UpdateVenue(c, v, given)
        \/ TakeGiven(c) \/ InferCategory(c)
        \/ FallbackOtros(c) \/ PickExisting(c) \/ ProposeNew(c)
        \/ WriteColumns(c)
        \/ CreateCategory(c) \/ InsertCategory(c)
        \/ \E k \in Category :
             ApprovePendingCategory(c, k) \/ RejectPendingCategory(c, k) \/ DeleteCategory(c, k)
        \/ Repoint(c) \/ WriteCategory(c)
        \/ CommitTask(c) \/ AbortTask(c)
  BY DEF CategoriesNext
<1>2. CASE \E v \in Venue :
             \/ \E given \in Given : BeginPosting(c, v, given)
             \/ \E given \in Given : UpdateVenue(c, v, given)
  <2>1. ASSUME NEW v, NEW given, BeginPosting(c, v, given)
        PROVE  \E q : TaskIs(c, q)
    BY <2>1 DEF BeginPosting, StartTask
  <2>2. ASSUME NEW v, NEW given, UpdateVenue(c, v, given)
        PROVE  \E q : TaskIs(c, q)
    BY <2>2 DEF UpdateVenue, StartTask
  <2> QED BY <1>2, <2>1, <2>2
<1>3. CASE TakeGiven(c) \/ InferCategory(c)
  BY <1>3 DEF TakeGiven, InferCategory
<1>4. CASE FallbackOtros(c) \/ PickExisting(c) \/ ProposeNew(c)
  BY <1>4 DEF FallbackOtros, PickExisting, ProposeNew, Decide
<1>5. ASSUME NEW op, NEW pc, NEW k, OnCategory(c, op, pc, k)
      PROVE  \E q : TaskIs(c, q)
  BY <1>5 DEF OnCategory, StartTask
<1>6. CASE WriteColumns(c) \/ CreateCategory(c) \/ InsertCategory(c)
  BY <1>5, <1>6 DEF WriteColumns, CreateCategory, InsertCategory
<1>7. CASE \E k \in Category :
             ApprovePendingCategory(c, k) \/ RejectPendingCategory(c, k) \/ DeleteCategory(c, k)
  BY <1>5, <1>7 DEF ApprovePendingCategory, RejectPendingCategory, DeleteCategory
<1>8. CASE Repoint(c) \/ WriteCategory(c) \/ AbortTask(c)
  BY <1>8 DEF Repoint, WriteCategory, AbortTask
<1> QED BY <1>1, <1>2, <1>3, <1>4, <1>6, <1>7, <1>8

FewOfSlug ==
  /\ Cardinality(OfSlug) <= 1
  /\ \A v \in Venue : \A k \in {ofVenue[v], ofDish[v]} : k = NoCategory \/ Listed(k)

LEMMA FewOfSlugStand == CategoriesInv => FewOfSlug
BY AtMostOne DEF CategoriesInv, ColumnsKnow, FewOfSlug

(* Whom the admins are told of.                                             *)
LEMMA TellsOfPending ==
  ASSUME CategoriesInv, NEW c \in Task, CommitTask(c)
  PROVE  task[c].tells <=> OfSlug' \ OfSlug # {} /\ Approved' = Approved
<1>1. PICK q : q = task[c]
  OBVIOUS
<1>2. /\ q \in TaskRecord /\ TaskStage(q) /\ TaskKnows(q) /\ q.pc = "commit"
      /\ q.op \in {"post", "edit", "coin", "approve", "reject", "drop"}
  BY <1>1, CommitsAs
<1>3. OfSlug' = IF q.coins THEN OfSlug \cup {q.cat}
                ELSE IF q.op \in {"reject", "drop"} THEN OfSlug \ {q.cat} ELSE OfSlug
  BY <1>1, SlugIs
<1>4. CASE ~q.coins
  BY <1>1, <1>2, <1>3, <1>4 DEF TaskStage
<1>5. CASE q.coins
  <2>1. OfSlug = {} /\ q.cat \in Category /\ q.op \in {"post", "coin"} /\ (q.tells <=> q.op = "post")
    BY <1>2, <1>5 DEF TaskStage, TaskKnows
  <2>2. OfSlug' = {q.cat} /\ Approved = {Otros} /\ q.cat # Otros
    BY <1>3, <1>5, <2>1 DEF Approved
  <2>3. category'[q.cat] = IF q.op = "coin" THEN "approved" ELSE "pending"
    BY <1>1, <1>5, <2>1, StatusIs
  <2>4. CASE q.op = "post"
    <3>1. Approved' = {Otros}
      BY <2>2, <2>3, <2>4 DEF Approved
    <3> QED BY <1>1, <2>1, <2>2, <2>4, <3>1
  <2>5. CASE q.op = "coin"
    <3>1. q.cat \in Approved'
      BY <2>2, <2>3, <2>5 DEF Approved
    <3> QED BY <1>1, <2>1, <2>2, <2>5, <3>1
  <2> QED BY <2>1, <2>4, <2>5
<1> QED BY <1>4, <1>5

LEMMA ColumnsFit ==
  ASSUME CategoriesInv, NEW c \in Task, CommitTask(c)
  PROVE  /\ category = [k \in Category |-> category[k]] /\ category' = [k \in Category |-> category'[k]]
         /\ ofVenue = [v \in Venue |-> ofVenue[v]] /\ ofVenue' = [v \in Venue |-> ofVenue'[v]]
         /\ ofDish = [v \in Venue |-> ofDish[v]] /\ ofDish' = [v \in Venue |-> ofDish'[v]]
BY DEF CommitTask, CategoriesInv, CategoriesTypeOK

(* A post that asked the provider gives its dish a category, unless it has  *)
(* nothing to write, and its restaurant one that had none.                  *)
LEMMA PostGives ==
  ASSUME CategoriesInv, NEW c \in Task, CommitTask(c), task[c].op = "post"
  PROVE  /\ <<category, ofVenue, ofDish>>' # <<category, ofVenue, ofDish>> /\ task[c].given = "no" =>
              ofDish'[task[c].venue] # NoCategory
         /\ ~task[c].crossed /\ ofVenue[task[c].venue] # NoCategory => ofVenue' = ofVenue
<1>1. PICK q : q = task[c]
  OBVIOUS
<1>2. q \in TaskRecord /\ TaskStage(q) /\ TaskKnows(q) /\ q.pc = "commit" /\ q.op = "post"
  BY <1>1, CommitsAs
<1>3. q.venue \in Venue
  BY <1>2 DEF TaskStage
<1>4. \A v \in Venue :
        /\ ofVenue'[v] = IF v = q.venue /\ "venue" \in q.bare /\ q.cat # NoCategory THEN q.cat ELSE ofVenue[v]
        /\ ofDish'[v] = IF v = q.venue /\ "dish" \in q.bare /\ q.cat # NoCategory THEN q.cat ELSE ofDish[v]
  BY <1>1, <1>2, ColumnsAre
<1>5. "venue" \notin q.bare => ofVenue' = ofVenue
  BY <1>4, ColumnsFit
<1>6. q.bare = {} => UNCHANGED category /\ UNCHANGED ofVenue /\ UNCHANGED ofDish
  <2>1. CASE q.bare = {}
    <3>1. ~q.coins
      BY <1>2, <2>1 DEF TaskStage
    <3>2. \A k \in Category : category'[k] = category[k]
      BY <1>1, <1>2, <3>1, StatusIs
    <3>3. \A v \in Venue : ofDish'[v] = ofDish[v]
      BY <1>4, <2>1
    <3> QED BY <1>5, <2>1, <3>2, <3>3, ColumnsFit
  <2> QED BY <2>1
<1>7. q.bare # {} /\ q.given = "no" => ofDish'[q.venue] # NoCategory
  BY <1>2, <1>3, <1>4 DEF TaskStage
<1>8. ~q.crossed /\ ofVenue[q.venue] # NoCategory => "venue" \notin q.bare
  BY <1>2 DEF TaskKnows
<1> QED BY <1>1, <1>5, <1>6, <1>7, <1>8

LEMMA RejectionMoves ==
  ASSUME CategoriesInv, NEW c \in Task, CommitTask(c), task[c].op = "reject", ~task[c].crossed
  PROVE  /\ category[task[c].cat] = "pending"
         /\ ofVenue' = [v \in Venue |-> IF ofVenue[v] = task[c].cat THEN Otros ELSE ofVenue[v]]
<1>1. PICK q : q = task[c]
  OBVIOUS
<1>2. /\ q \in TaskRecord /\ TaskStage(q) /\ TaskKnows(q) /\ q.pc = "commit"
      /\ q.op = "reject" /\ ~q.crossed
  BY <1>1, CommitsAs
<1>3. category[q.cat] = "pending" /\ q.moves = {v \in Venue : ofVenue[v] = q.cat} /\ q.bare = {}
  BY <1>2 DEF TaskKnows, TaskStage
<1>4. \A v \in Venue : ofVenue'[v] = IF ofVenue[v] = q.cat THEN Otros ELSE ofVenue[v]
  BY <1>1, <1>2, <1>3, ColumnsAre
<1> QED BY <1>1, <1>3, <1>4, ColumnsFit

LEMMA CategoriesHoldOn ==
  CategoriesInv /\ CategoriesInv' /\ [CategoriesNext]_categoryVars =>
  [/\ Cardinality(OfSlug') <= 1
   /\ \A v \in Venue : \A k \in {ofVenue'[v], ofDish'[v]} : k = NoCategory \/ Listed(k)'
   /\ \A c \in Task : Lands(c) =>
        LET q == task[c] IN
        /\ q.tells <=> OfSlug' \ OfSlug # {} /\ Approved' = Approved
        /\ q.op = "post" /\ q.given = "no" => ofDish'[q.venue] # NoCategory
        /\ q.op = "post" /\ ~q.crossed /\ ofVenue[q.venue] # NoCategory => ofVenue' = ofVenue
        /\ q.op = "reject" /\ ~q.crossed =>
             /\ category[q.cat] = "pending"
             /\ ofVenue' = [v \in Venue |-> IF ofVenue[v] = q.cat THEN Otros ELSE ofVenue[v]]]_categoryVars
<1> SUFFICES ASSUME CategoriesInv, CategoriesInv', CategoriesNext
             PROVE  /\ Cardinality(OfSlug') <= 1
                    /\ \A v \in Venue : \A k \in {ofVenue'[v], ofDish'[v]} : k = NoCategory \/ Listed(k)'
                    /\ \A c \in Task : Lands(c) =>
                         LET q == task[c] IN
                         /\ q.tells <=> OfSlug' \ OfSlug # {} /\ Approved' = Approved
                         /\ q.op = "post" /\ q.given = "no" => ofDish'[q.venue] # NoCategory
                         /\ q.op = "post" /\ ~q.crossed /\ ofVenue[q.venue] # NoCategory => ofVenue' = ofVenue
                         /\ q.op = "reject" /\ ~q.crossed =>
                              /\ category[q.cat] = "pending"
                              /\ ofVenue' = [v \in Venue |-> IF ofVenue[v] = q.cat THEN Otros ELSE ofVenue[v]]
  OBVIOUS
<1>1. FewOfSlug'
  <2>1. CategoriesInv' => FewOfSlug'
    BY FewOfSlugStand, PTL
  <2> QED BY <2>1
<1>2. Cardinality(OfSlug') <= 1
  BY <1>1 DEF FewOfSlug
<1>3. \A v \in Venue : \A k \in {ofVenue'[v], ofDish'[v]} : k = NoCategory \/ Listed(k)'
  BY <1>1 DEF FewOfSlug, Listed
<1>4. PICK d \in Task : CommitTask(d) \/ \E q : TaskIs(d, q)
  BY OneTaskMoves
<1>5. ASSUME NEW c \in Task, Lands(c)
      PROVE  CommitTask(c)
  <2>1. CommitTask(d)
    BY <1>4, <1>5 DEF TaskIs, Lands
  <2>2. c # d => task'[c].pc = "commit"
    BY <1>5, <2>1, TasksCrossed DEF Lands, TaskAt
  <2> QED BY <1>5, <2>1, <2>2 DEF Lands, TaskAt
<1>6. ASSUME NEW c \in Task, Lands(c)
      PROVE  <<category, ofVenue, ofDish>>' # <<category, ofVenue, ofDish>>
  BY <1>6 DEF Lands
<1>7. \A c \in Task : Lands(c) => (task[c].tells <=> OfSlug' \ OfSlug # {} /\ Approved' = Approved)
  BY <1>5, TellsOfPending
<1>8. \A c \in Task : Lands(c) /\ task[c].op = "post" =>
        /\ task[c].given = "no" => ofDish'[task[c].venue] # NoCategory
        /\ ~task[c].crossed /\ ofVenue[task[c].venue] # NoCategory => ofVenue' = ofVenue
  BY <1>5, <1>6, PostGives
<1>9. \A c \in Task : Lands(c) /\ task[c].op = "reject" /\ ~task[c].crossed =>
        /\ category[task[c].cat] = "pending"
        /\ ofVenue' = [v \in Venue |-> IF ofVenue[v] = task[c].cat THEN Otros ELSE ofVenue[v]]
  BY <1>5, RejectionMoves
<1> QED BY <1>2, <1>3, <1>7, <1>8, <1>9

(* No slug has two categories and nothing refers to one that went, admins   *)
(* are told of what is proposed, and a rejection moves its restaurants      *)
(* (category_inference_service.py, categories.py, posts.py).                *)
THEOREM CategoriesAreKept == CategoriesSpec => CategoriesHold
<1> QED BY CategoriesInvariant, CategoriesHoldOn, PTL DEF CategoriesSpec, CategoriesHold

HIDE CategoriesAssumption
=============================================================================
