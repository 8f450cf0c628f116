------------------------------ MODULE HouseProofs ------------------------------
(***************************************************************************)
(* Proofs about the sommelier and the readers: the signals of reviews,      *)
(* recalls, the tools of a turn, duels and maps; and, at the end, that the  *)
(* properties of each part, those of PlacesProofs and ChatTurnProofs        *)
(* included, are properties of the whole.                                   *)
(***************************************************************************)
EXTENDS MCHouse, PlacesProofs, ChatTurnProofs, FiniteSetTheorems, SequenceTheorems, TLAPS

------------------------------------------------------------------------------
(* What is derived from reviews.                                            *)

WriteRecord == [note : Note \cup {Unset}, row : {"none", "insert", "fold"}]

ScriptIs(s) ==
  s = [pc |-> s.pc, list |-> s.list, sent |-> s.sent, left |-> s.left, at |-> s.at,
       was |-> s.was, again |-> s.again, resumed |-> s.resumed]

RunStage(q) ==
  /\ q.pc \in {"idle", "load", "ask", "dish", "hash", "embed"}
  /\ q.pc = "idle" => q = IdleRun
  /\ q.pc \in {"load", "ask"} => q.review \in Opinion
  /\ rows = "sentiment" => q.pc \in {"idle", "load", "ask"}

(* What heard keeps of a review, and whether somebody is on the way to the  *)
(* current text of a review, of the dish.                                   *)
HeardOk(o) ==
  /\ heard[o].of # Unset => heard[o].of[1] = o \/ o \in shifted
  /\ heard[o].of # Unset => heard[o].label = CoerceLabel(heard[o].label, heard[o].score) \/ o \in torn
Followed(o) ==
  rows = "sentiment" /\ note[o] \in Words /\ heard[o].of # <<o, note[o]>> => o \in missed \/ WillHear(o)
DishFollowed ==
  rows = "embed" /\ vector # DishAggregateText => TheDish \in missed \/ WillEmbed

(* A script that was not resumed has the answers of its own snapshots.      *)
ScriptStage ==
  /\ ScriptIs(script) /\ script.resumed \in BOOLEAN
  /\ script.pc = "wait" => \E n \in Nat : script.list = [i \in 1..n |-> script.list[i]]
  /\ script.pc # "none" /\ ~script.resumed => script.sent = script.list
  /\ rows = "embed" => script = NoScript

(* Reviews that there are.                                                  *)
Noted == {o \in Opinion : note[o] # Unset}

SignalsInv ==
  /\ IsFiniteSet(Noted)
  /\ rows \in {"sentiment", "embed"}
  /\ note \in [Opinion -> Note \cup {Unset}] /\ write \in [Opinion -> WriteRecord]
  /\ heard = [o \in Opinion |-> heard[o]] /\ run = [r \in Loop |-> run[r]]
  /\ \A o \in Opinion : rows = "embed" /\ write[o] # NoWrite => write[o].row # "none"
  /\ \A r \in Loop : RunStage(run[r])
  /\ ScriptStage
  /\ \A o \in Opinion : HeardOk(o) /\ Followed(o)
  /\ DishFollowed

USE SignalsAssumption

LEMMA SignalsAre == SignalsInv => SignalsHold
BY DEF SignalsInv, SignalsHold, HeardOk, Followed, DishFollowed

LEMMA RunsAt ==
  ASSUME NEW pc, NEW o
  PROVE  /\ RunAt(pc, o).pc = pc /\ RunAt(pc, o).review = o
         /\ \A n : LET q == [RunAt(pc, o) EXCEPT !.note = n] IN q.pc = pc /\ q.review = o /\ q.note = n
         /\ \A x : LET q == [RunAt(pc, o) EXCEPT !.text = x] IN q.pc = pc /\ q.review = o /\ q.text = x
         /\ \A n, w : LET q == [RunAt(pc, o) EXCEPT !.note = n, !.was = w] IN
                      q.pc = pc /\ q.review = o /\ q.note = n /\ q.was = w
         /\ IdleRun.pc = "idle"
BY DEF RunAt, IdleRun

LEMMA NothingRuns ==
  /\ ScriptIs(NoScript) /\ NoScript.resumed = FALSE /\ NoScript.pc = "none" /\ NoScript.sent = <<>>
  /\ Unheard.of = Unset /\ NoWrite \in WriteRecord /\ IdleRun.pc = "idle"
BY DEF NoScript, ScriptIs, Unheard, NoWrite, WriteRecord, IdleRun, Note

LEMMA SignalsStart == SignalsInit => SignalsInv
<1> SUFFICES ASSUME SignalsInit PROVE SignalsInv
  OBVIOUS
<1>1. note \in [Opinion -> Note \cup {Unset}] /\ write \in [Opinion -> WriteRecord]
  BY NothingRuns DEF SignalsInit
<1>2. heard = [o \in Opinion |-> heard[o]] /\ run = [r \in Loop |-> run[r]]
  BY DEF SignalsInit
<1>3. \A r \in Loop : RunStage(run[r])
  BY NothingRuns DEF SignalsInit, RunStage
<1>4. ScriptStage
  BY NothingRuns DEF SignalsInit, ScriptStage
<1>5. \A o \in Opinion : HeardOk(o) /\ Followed(o)
  BY NothingRuns DEF SignalsInit, HeardOk, Followed
<1>6. DishFollowed
  BY DEF SignalsInit, DishFollowed
<1>7. Noted = {}
  BY DEF SignalsInit, Noted
<1> QED BY <1>1, <1>2, <1>3, <1>4, <1>5, <1>6, <1>7, FS_EmptySet DEF SignalsInit, SignalsInv

LEMMA InRun ==
  ASSUME SignalsInv, NEW r \in Loop
  PROVE  RunStage(run[r])
BY DEF SignalsInv

(* Only loops and missed move.                                              *)
LEMMA RunMoves ==
  ASSUME SignalsInv, NEW r \in Loop, NEW q, RunIs(r, q), RunStage(q),
         UNCHANGED <<rows, note, erased, dubbed, write, script, heard, vector, torn, shifted>>,
         \A o \in Opinion : Followed(o)', DishFollowed'
  PROVE  SignalsInv'
<1>1. /\ UNCHANGED rows /\ UNCHANGED note /\ UNCHANGED write /\ UNCHANGED script /\ UNCHANGED heard
      /\ UNCHANGED torn /\ UNCHANGED shifted
  OBVIOUS
<1>2. /\ run' = [p \in Loop |-> run'[p]] /\ \A p \in Loop : run'[p] = IF p = r THEN q ELSE run[p]
  BY DEF SignalsInv, RunIs
<1>3. \A p \in Loop : RunStage(run[p])'
  BY <1>1, <1>2, InRun DEF RunStage
<1>4. ScriptStage'
  BY <1>1 DEF SignalsInv, ScriptStage
<1>5. \A o \in Opinion : HeardOk(o)'
  BY <1>1 DEF SignalsInv, HeardOk
<1> QED BY <1>1, <1>2, <1>3, <1>4, <1>5 DEF SignalsInv, Noted

(* What a run hears or embeds.                                              *)
Hears(q, o) == q.review = o /\ (q.pc = "load" \/ (q.pc = "ask" /\ q.note = note[o]))
Embeds(q) ==
  \/ q.pc = "load"
  \/ q.pc \in {"ask", "dish"} /\ SeenText(q) = DishAggregateText
  \/ q.pc \in {"hash", "embed"} /\ q.text = DishAggregateText

LEMMA WillBe ==
  /\ \A o : WillHear(o) <=> o \in queued \/ \E r \in Loop : Hears(run[r], o)
  /\ WillEmbed <=> queued # {} \/ \E r \in Loop : Embeds(run[r])
BY DEF WillHear, WillEmbed, Hears, Embeds

(* While nothing changes that the text of the dish is made of.              *)
LEMMA DishStays ==
  ASSUME SignalsInv, UNCHANGED rows, UNCHANGED note, UNCHANGED dubbed, UNCHANGED run,
         UNCHANGED queued, UNCHANGED vector, UNCHANGED missed
  PROVE  DishFollowed'
<1>1. DishAggregateText' = DishAggregateText
  BY DEF DishAggregateText, AggregateText
<1>2. \A r \in Loop : SeenText(run[r])' = SeenText(run[r])
  BY DEF SeenText, AggregateText
<1>3. WillEmbed => WillEmbed'
  BY <1>1, <1>2 DEF WillEmbed
<1> QED BY <1>1, <1>3 DEF SignalsInv, DishFollowed

LEMMA StageReviewKeeps ==
  ASSUME SignalsInv, NEW o \in Opinion, NEW n \in Note, NEW how, StageReview(o, n, how)
  PROVE  SignalsInv'
<1>1. /\ UNCHANGED rows /\ UNCHANGED note /\ UNCHANGED run /\ UNCHANGED script /\ UNCHANGED heard
      /\ UNCHANGED torn /\ UNCHANGED shifted /\ UNCHANGED queued /\ UNCHANGED dubbed /\ UNCHANGED vector
      /\ UNCHANGED missed
  BY DEF StageReview, derived
<1>2. PICK row : row = IF ~Queues(o, n, how) THEN "none" ELSE IF o \in queued THEN "fold" ELSE "insert"
  OBVIOUS
<1>3. row \in {"none", "fold", "insert"} /\ (rows = "embed" => row # "none")
  BY <1>2 DEF Queues
<1>4. write' = [write EXCEPT ![o] = [note |-> n, row |-> row]]
  BY <1>2 DEF StageReview
<1>5. [note |-> n, row |-> row] \in WriteRecord
  BY <1>3 DEF WriteRecord
<1>6. write' \in [Opinion -> WriteRecord] /\ \A p \in Opinion : rows = "embed" /\ write'[p] # NoWrite => write'[p].row # "none"
  BY <1>3, <1>4, <1>5 DEF SignalsInv
<1>7. \A r \in Loop : RunStage(run[r])'
  BY <1>1, InRun DEF RunStage
<1>8. ScriptStage' /\ \A p \in Opinion : HeardOk(p)'
  <2>1. ScriptStage'
    BY <1>1 DEF SignalsInv, ScriptStage
  <2>2. \A p \in Opinion : HeardOk(p)'
    BY <1>1 DEF SignalsInv, HeardOk
  <2> QED BY <2>1, <2>2
<1>9. \A p \in Opinion : Followed(p)'
  BY <1>1 DEF SignalsInv, Followed, WillHear
<1>10. DishFollowed'
  BY <1>1, DishStays
<1> QED BY <1>1, <1>6, <1>7, <1>8, <1>9, <1>10 DEF SignalsInv, Noted

LEMMA AbortReviewKeeps ==
  ASSUME SignalsInv, NEW o \in Opinion, AbortReview(o)
  PROVE  SignalsInv'
<1>1. /\ UNCHANGED rows /\ UNCHANGED note /\ UNCHANGED run /\ UNCHANGED script /\ UNCHANGED heard
      /\ UNCHANGED torn /\ UNCHANGED shifted /\ UNCHANGED queued /\ UNCHANGED dubbed /\ UNCHANGED vector
      /\ UNCHANGED missed
  BY DEF AbortReview, derived
<1>2. write' \in [Opinion -> WriteRecord] /\ \A p \in Opinion : rows = "embed" /\ write'[p] # NoWrite => write'[p].row # "none"
  BY NothingRuns DEF SignalsInv, AbortReview
<1>3. \A r \in Loop : RunStage(run[r])'
  BY <1>1, InRun DEF RunStage
<1>4. ScriptStage' /\ \A p \in Opinion : HeardOk(p)'
  <2>1. ScriptStage'
    BY <1>1 DEF SignalsInv, ScriptStage
  <2>2. \A p \in Opinion : HeardOk(p)'
    BY <1>1 DEF SignalsInv, HeardOk
  <2> QED BY <2>1, <2>2
<1>5. \A p \in Opinion : Followed(p)'
  BY <1>1 DEF SignalsInv, Followed, WillHear
<1>6. DishFollowed'
  BY <1>1, DishStays
<1> QED BY <1>1, <1>2, <1>3, <1>4, <1>5, <1>6 DEF SignalsInv, Noted

LEMMA CommitReviewKeeps ==
  ASSUME SignalsInv, NEW o \in Opinion, CommitReview(o)
  PROVE  SignalsInv'
<1>1. /\ UNCHANGED rows /\ UNCHANGED run /\ UNCHANGED script /\ UNCHANGED heard
      /\ UNCHANGED torn /\ UNCHANGED shifted /\ UNCHANGED dubbed /\ UNCHANGED vector
  BY DEF CommitReview
<1>2. write[o] \in WriteRecord /\ write[o] # NoWrite
  BY DEF SignalsInv, CommitReview
<1>3. write' \in [Opinion -> WriteRecord] /\ \A p \in Opinion : rows = "embed" /\ write'[p] # NoWrite => write'[p].row # "none"
  BY NothingRuns DEF SignalsInv, CommitReview
<1>4. /\ note' \in [Opinion -> Note \cup {Unset}]
      /\ \A p \in Opinion : note'[p] = IF p = o THEN write[o].note ELSE note[p]
  BY <1>2 DEF SignalsInv, CommitReview, WriteRecord
<1>5. /\ queued \subseteq queued'
      /\ missed' = IF o \in queued' /\ write[o].row # "none" THEN missed \ {Subject(o)}
                   ELSE IF write[o].row = "none" /\ write[o].note = note[o] THEN missed
                   ELSE missed \cup {Subject(o)}
  BY DEF CommitReview
<1>6. \A r \in Loop : RunStage(run[r])'
  BY <1>1, InRun DEF RunStage
<1>7. ScriptStage' /\ \A p \in Opinion : HeardOk(p)'
  <2>1. ScriptStage'
    BY <1>1 DEF SignalsInv, ScriptStage
  <2>2. \A p \in Opinion : HeardOk(p)'
    BY <1>1 DEF SignalsInv, HeardOk
  <2> QED BY <2>1, <2>2
<1>8. ASSUME NEW p \in Opinion
      PROVE  Followed(p)'
  <2> SUFFICES ASSUME rows = "sentiment", note'[p] \in Words, heard[p].of # <<p, note'[p]>>
               PROVE  p \in missed' \/ WillHear(p)'
    BY <1>1 DEF Followed
  <2>1. Subject(o) = o
    BY DEF Subject
  <2>2. CASE p = o /\ ~(write[o].row = "none" /\ write[o].note = note[o])
    BY <1>5, <2>1, <2>2 DEF WillHear
  <2>3. CASE p # o \/ (write[o].row = "none" /\ write[o].note = note[o])
    <3>1. note'[p] = note[p]
      BY <1>4, <2>3
    <3>2. p \in missed \/ WillHear(p)
      BY <3>1 DEF SignalsInv, Followed
    <3>3. WillHear(p) => WillHear(p)'
      BY <1>1, <1>5, <3>1 DEF WillHear
    <3>4. p \in missed => p \in missed'
      BY <1>5, <2>1, <2>3
    <3> QED BY <3>2, <3>3, <3>4
  <2> QED BY <2>2, <2>3
<1>9. DishFollowed'
  <2> SUFFICES ASSUME rows = "embed"
               PROVE  TheDish \in missed' \/ WillEmbed'
    BY <1>1 DEF DishFollowed
  <2>1. Subject(o) = TheDish /\ write[o].row # "none"
    BY <1>2 DEF Subject, SignalsInv
  <2> QED BY <1>5, <2>1 DEF WillEmbed
<1>10. IsFiniteSet(Noted')
  <2>1. Noted' \subseteq Noted \cup {o}
    BY <1>4 DEF Noted
  <2>2. IsFiniteSet(Noted \cup {o})
    BY FS_AddElement DEF SignalsInv
  <2> QED BY ONLY <2>1, <2>2, FS_Subset
<1> QED BY <1>1, <1>3, <1>4, <1>6, <1>7, <1>8, <1>9, <1>10 DEF SignalsInv

LEMMA DeleteOpinionKeeps ==
  ASSUME SignalsInv, NEW o \in Opinion, DeleteOpinion(o)
  PROVE  SignalsInv'
<1>1. /\ UNCHANGED rows /\ UNCHANGED run /\ UNCHANGED script /\ UNCHANGED write
      /\ UNCHANGED dubbed /\ UNCHANGED vector
      /\ torn' = torn \ {o} /\ shifted' = shifted \ {o} /\ queued' = queued \ {o}
      /\ missed' = (missed \ {o}) \cup {TheDish}
  BY DEF DeleteOpinion
<1>2. /\ note' \in [Opinion -> Note \cup {Unset}]
      /\ \A p \in Opinion : note'[p] = IF p = o THEN Unset ELSE note[p]
      /\ heard' = [p \in Opinion |-> heard'[p]]
      /\ \A p \in Opinion : heard'[p] = IF p = o THEN Unheard ELSE heard[p]
  BY DEF SignalsInv, DeleteOpinion
<1>3. \A r \in Loop : RunStage(run[r])'
  BY <1>1, InRun DEF RunStage
<1>4. ScriptStage'
  BY <1>1 DEF SignalsInv, ScriptStage
<1>5. \A p \in Opinion : HeardOk(p)'
  BY <1>1, <1>2, NothingRuns DEF SignalsInv, HeardOk
<1>6. ASSUME NEW p \in Opinion
      PROVE  Followed(p)'
  <2>1. CASE p = o
    BY <1>2, <2>1 DEF Followed
  <2>2. CASE p # o
    <3>1. WillHear(p) => WillHear(p)'
      BY <1>1, <1>2, <2>2 DEF WillHear
    <3> QED BY <1>1, <1>2, <2>2, <3>1 DEF SignalsInv, Followed
  <2> QED BY <2>1, <2>2
<1>7. DishFollowed'
  BY <1>1 DEF DishFollowed
<1>8. IsFiniteSet(Noted')
  <2>1. Noted' \subseteq Noted
    BY <1>2 DEF Noted
  <2> QED BY <2>1, FS_Subset DEF SignalsInv
<1> QED BY <1>1, <1>2, <1>3, <1>4, <1>5, <1>6, <1>7, <1>8 DEF SignalsInv

LEMMA DubDishKeeps ==
  ASSUME SignalsInv, NEW d, DubDish(d)
  PROVE  SignalsInv'
<1>1. /\ UNCHANGED rows /\ UNCHANGED note /\ UNCHANGED run /\ UNCHANGED script /\ UNCHANGED heard
      /\ UNCHANGED torn /\ UNCHANGED shifted /\ UNCHANGED queued /\ UNCHANGED write
      /\ missed' = missed \cup {TheDish}
  BY DEF DubDish
<1>2. \A r \in Loop : RunStage(run[r])'
  BY <1>1, InRun DEF RunStage
<1>3. ScriptStage' /\ \A p \in Opinion : HeardOk(p)'
  <2>1. ScriptStage'
    BY <1>1 DEF SignalsInv, ScriptStage
  <2>2. \A p \in Opinion : HeardOk(p)'
    BY <1>1 DEF SignalsInv, HeardOk
  <2> QED BY <2>1, <2>2
<1>4. \A p \in Opinion : Followed(p)'
  BY <1>1 DEF SignalsInv, Followed, WillHear
<1>5. DishFollowed'
  BY <1>1 DEF DishFollowed
<1> QED BY <1>1, <1>2, <1>3, <1>4, <1>5 DEF SignalsInv, Noted

(* A loop that changes leaves everybody followed who was, if what it was    *)
(* about to hear or to embed is still on its way.                           *)
LEMMA LoopStays ==
  ASSUME SignalsInv, NEW r \in Loop, NEW q, RunIs(r, q), RunStage(q),
         UNCHANGED <<rows, note, erased, dubbed, write, script, heard, vector, torn, shifted>>,
         \A o \in Opinion : rows = "sentiment" /\ (o \in missed \/ o \in queued \/ Hears(run[r], o)) =>
                              o \in missed' \/ o \in queued' \/ Hears(q, o)
                              \/ note[o] \notin Words \/ heard[o].of = <<o, note[o]>>,
         rows = "embed" /\ (TheDish \in missed \/ queued # {} \/ Embeds(run[r])) =>
           TheDish \in missed' \/ queued' # {} \/ Embeds(q) \/ vector = DishAggregateText
  PROVE  SignalsInv'
<1>1. /\ UNCHANGED rows /\ UNCHANGED note /\ UNCHANGED dubbed /\ UNCHANGED heard /\ UNCHANGED vector
  OBVIOUS
<1>2. \A p \in Loop : run'[p] = IF p = r THEN q ELSE run[p]
  BY DEF SignalsInv, RunIs
<1>3. ASSUME NEW o \in Opinion PROVE Followed(o)'
  <2>1. WillHear(o) => o \in queued \/ Hears(run[r], o) \/ \E p \in Loop \ {r} : Hears(run[p], o)
    BY WillBe
  <2>2. (\E p \in Loop \ {r} : Hears(run[p], o)) => WillHear(o)'
    BY <1>1, <1>2 DEF WillHear, Hears
  <2>3. o \in queued' \/ Hears(q, o) => WillHear(o)'
    BY <1>1, <1>2 DEF WillHear, Hears
  <2>4. Followed(o)
    BY DEF SignalsInv
  <2> QED BY <1>1, <2>1, <2>2, <2>3, <2>4 DEF Followed
<1>4. DishFollowed'
  <2>1. DishAggregateText' = DishAggregateText /\ \A p \in Loop \ {r} : SeenText(run[p])' = SeenText(run[p])
    BY <1>1, <1>2 DEF DishAggregateText, AggregateText, SeenText
  <2>6. SeenText(run[r])' = SeenText(q)
    BY <1>1, <1>2 DEF AggregateText, SeenText
  <2>2. WillEmbed => queued # {} \/ Embeds(run[r]) \/ \E p \in Loop \ {r} : Embeds(run[p])
    BY WillBe
  <2>3. (\E p \in Loop \ {r} : Embeds(run[p])) => WillEmbed'
    BY <1>2, <2>1 DEF WillEmbed, Embeds
  <2>4. queued' # {} \/ Embeds(q) => WillEmbed'
    BY <1>2, <2>1, <2>6 DEF WillEmbed, Embeds
  <2>5. DishFollowed
    BY DEF SignalsInv
  <2> QED BY <1>1, <2>1, <2>2, <2>3, <2>4, <2>5 DEF DishFollowed
<1> QED BY <1>3, <1>4, RunMoves

LEMMA IdleHearsNothing ==
  \A q, o : q.pc = "idle" => ~Hears(q, o) /\ ~Embeds(q)
BY DEF Hears, Embeds

LEMMA IdleStage == RunStage(IdleRun)
BY DEF RunStage, IdleRun

LEMMA TakeRowKeeps ==
  ASSUME SignalsInv, NEW r \in Loop, NEW o \in Opinion, TakeRow(r, o)
  PROVE  SignalsInv'
<1> DEFINE q == RunAt("load", o)
<1>1. q.pc = "load" /\ q.review = o
  BY RunsAt
<1>2. RunIs(r, q) /\ queued' = queued \ {o} /\ run[r].pc = "idle" /\ UNCHANGED missed
  BY DEF TakeRow, derived
<1>3. UNCHANGED <<rows, note, erased, dubbed, write, script, heard, vector, torn, shifted>>
  BY DEF TakeRow, derived
<1> HIDE DEF q
<1>4. RunStage(q) /\ Hears(q, o) /\ Embeds(q)
  BY <1>1 DEF RunStage, Hears, Embeds
<1> QED BY <1>2, <1>3, <1>4, IdleHearsNothing, LoopStays

LEMMA LoadReviewKeeps ==
  ASSUME SignalsInv, NEW r \in Loop, LoadReview(r)
  PROVE  SignalsInv'
<1>1. PICK o : o = run[r].review
  OBVIOUS
<1>2. o \in Opinion /\ run[r].pc = "load"
  BY <1>1, InRun DEF LoadReview, RunStage
<1>3. /\ UNCHANGED <<rows, note, erased, dubbed, write, script, heard, vector, torn, shifted>>
      /\ UNCHANGED queued
  BY DEF LoadReview, reviewRows
<1>4. CASE /\ UNCHANGED missed
           /\ \E was : RunIs(r, [RunAt("ask", o) EXCEPT !.note = note[o], !.was = was])
  <2>1. PICK was : RunIs(r, [RunAt("ask", o) EXCEPT !.note = note[o], !.was = was])
    BY <1>4
  <2> DEFINE q == [RunAt("ask", o) EXCEPT !.note = note[o], !.was = was]
  <2>2. q.pc = "ask" /\ q.review = o /\ q.note = note[o]
    BY RunsAt
  <2> HIDE DEF q
  <2>6. SeenText(q) = DishAggregateText
    <3>1. [note EXCEPT ![o] = q.note] = note
      BY <1>2, <2>2 DEF SignalsInv
    <3> QED BY <2>2, <3>1 DEF SeenText, DishAggregateText
  <2>3. RunStage(q) /\ Embeds(q) /\ Hears(q, o)
    BY <1>2, <2>2, <2>6 DEF RunStage, Embeds, Hears
  <2>4. \A p : Hears(run[r], p) => p = o
    BY <1>1 DEF Hears
  <2>5. RunIs(r, q)
    BY <2>1 DEF q
  <2> QED BY <1>3, <1>4, <2>3, <2>4, <2>5, LoopStays
<1>5. CASE note[o] \notin Words /\ RunEnds(r) /\ Miss(o)
  <2>1. RunIs(r, IdleRun) /\ missed' = missed \cup {Subject(o)}
    BY <1>5 DEF RunEnds, Miss
  <2>2. \A p : Hears(run[r], p) => p = o
    BY <1>1 DEF Hears
  <2>3. (rows = "embed" => Subject(o) = TheDish) /\ (rows = "sentiment" => Subject(o) = o)
    BY DEF Subject
  <2> QED BY <1>3, <2>1, <2>2, <2>3, IdleStage, LoopStays
<1> QED BY <1>1, <1>4, <1>5 DEF LoadReview

LEMMA LoseRunKeeps ==
  ASSUME SignalsInv, NEW r \in Loop, LoseRun(r)
  PROVE  SignalsInv'
<1>1. PICK o : o = run[r].review
  OBVIOUS
<1>2. /\ UNCHANGED <<rows, note, erased, dubbed, write, script, heard, vector, torn, shifted>>
      /\ UNCHANGED queued
  BY DEF LoseRun, reviewRows
<1>3. RunIs(r, IdleRun) /\ missed' = missed \cup {Subject(o)}
  BY <1>1 DEF LoseRun, RunEnds, Miss
<1>4. \A p : Hears(run[r], p) => p = o
  BY <1>1 DEF Hears
<1>5. (rows = "embed" => Subject(o) = TheDish) /\ (rows = "sentiment" => Subject(o) = o)
  BY DEF Subject
<1> QED BY <1>2, <1>3, <1>4, <1>5, IdleStage, LoopStays

LEMMA RetryRunKeeps ==
  ASSUME SignalsInv, NEW r \in Loop, RetryRun(r)
  PROVE  SignalsInv'
<1>1. PICK o : o = run[r].review
  OBVIOUS
<1>2. UNCHANGED <<rows, note, erased, dubbed, write, script, heard, vector, torn, shifted>> /\ UNCHANGED missed
  BY DEF RetryRun, derived
<1>3. RunIs(r, IdleRun) /\ queued' = queued \cup {o}
  BY <1>1 DEF RetryRun, RunEnds
<1>4. \A p : Hears(run[r], p) => p = o
  BY <1>1 DEF Hears
<1> QED BY <1>2, <1>3, <1>4, IdleStage, LoopStays

(* What is coerced is coerced for good.                                     *)
LEMMA Coerced ==
  ASSUME NEW now \in Analyses
  PROVE  now = [label |-> now.label, score |-> now.score] /\ now.label = CoerceLabel(now.label, now.score)
<1>1. PICK l \in Label, s \in Score : now = [label |-> CoerceLabel(l, s), score |-> s]
  BY DEF Analyses
<1>2. s \in {"low", "middle", "high"} /\ l \in {"positive", "neutral", "negative"}
  OBVIOUS
<1>3. CoerceLabel(CoerceLabel(l, s), s) = CoerceLabel(l, s)
  <2>1. CASE l = "positive" /\ s = "low"
    BY <2>1 DEF CoerceLabel
  <2>2. CASE l = "negative" /\ s = "high"
    BY <2>2 DEF CoerceLabel
  <2>3. CASE ~(l = "positive" /\ s = "low") /\ ~(l = "negative" /\ s = "high")
    BY <2>3 DEF CoerceLabel
  <2> QED BY <2>1, <2>2, <2>3
<1> QED BY <1>1, <1>3

(* Columns that were as they had been loaded are those of one analysis.     *)
Heard(o, of) ==
  /\ heard' = [p \in Opinion |-> heard'[p]]
  /\ \A p \in Opinion : p # o => heard'[p] = heard[p]
  /\ \A p : p # o => (p \in torn' <=> p \in torn) /\ (p \in missed' <=> p \in missed)
  /\ o \in Opinion => heard'[o].of = of
  /\ o \in Opinion => heard'[o].label = CoerceLabel(heard'[o].label, heard'[o].score) \/ o \in torn'
  /\ of # <<o, note[o]>> /\ heard[o].of # <<o, note[o]>> => missed' = missed
  /\ of # <<o, note[o]>> /\ heard[o].of = <<o, note[o]>> => o \in missed'

LEMMA Persisted ==
  ASSUME SignalsInv, NEW o, NEW was, NEW of, NEW now \in Analyses, PersistSentiment(o, was, now, of)
  PROVE  Heard(o, of)
<1> DEFINE Column(new, old, here) == IF new = old THEN here ELSE new
           row == [label |-> Column(now.label, was.label, heard[o].label),
                   score |-> Column(now.score, was.score, heard[o].score), of |-> of]
<1>1. /\ heard' = [heard EXCEPT ![o] = row]
      /\ torn' = IF heard[o].label = was.label /\ heard[o].score = was.score
                 THEN torn \ {o} ELSE torn \cup {o}
      /\ missed' = IF of = <<o, note[o]>> THEN missed \ {o}
                   ELSE IF heard[o].of = <<o, note[o]>> THEN missed \cup {o} ELSE missed
  BY DEF PersistSentiment
<1>2. heard' = [p \in Opinion |-> heard'[p]] /\ \A p \in Opinion : heard'[p] = IF p = o THEN row ELSE heard[p]
  <2> HIDE DEF row
  <2> QED BY <1>1 DEF SignalsInv
<1>3. /\ row.of = of
      /\ heard[o].label = was.label /\ heard[o].score = was.score =>
           row.label = now.label /\ row.score = now.score
  OBVIOUS
<1>4. o \notin torn' => row.label = CoerceLabel(row.label, row.score)
  BY <1>1, <1>3, Coerced
<1> HIDE DEF row, Column
<1> QED BY <1>1, <1>2, <1>3, <1>4 DEF Heard

LEMMA AnalyzeReviewKeeps ==
  ASSUME SignalsInv, NEW r \in Loop, AnalyzeReview(r)
  PROVE  SignalsInv'
<1>1. PICK o, n : o = run[r].review /\ n = run[r].note
  OBVIOUS
<1>2. o \in Opinion /\ run[r].pc = "ask" /\ rows = "sentiment"
  BY <1>1, InRun DEF AnalyzeReview, RunStage
<1>3. PICK was, of : was = run[r].was /\ of = <<o, n>>
  OBVIOUS
<1>4. PICK now \in Analyses : PersistSentiment(o, was, now, of)
  BY <1>1, <1>3 DEF AnalyzeReview
<1>5. (of # <<o, note[o]>> <=> n # note[o]) /\ of[1] = o
  BY <1>3
<1>6. /\ UNCHANGED rows /\ UNCHANGED note /\ UNCHANGED write /\ UNCHANGED script /\ UNCHANGED queued
      /\ shifted' = shifted \ {o} /\ RunIs(r, IdleRun)
  BY <1>1 DEF AnalyzeReview, reviewRows, RunEnds
<1>7. /\ heard' = [p \in Opinion |-> heard'[p]]
      /\ \A p \in Opinion : p # o => heard'[p] = heard[p]
      /\ \A p : p # o => (p \in torn' <=> p \in torn) /\ (p \in missed' <=> p \in missed)
      /\ heard'[o].of = of
      /\ heard'[o].label = CoerceLabel(heard'[o].label, heard'[o].score) \/ o \in torn'
      /\ n # note[o] /\ heard[o].of # <<o, note[o]>> => missed' = missed
      /\ n # note[o] /\ heard[o].of = <<o, note[o]>> => o \in missed'
  <2>1. Heard(o, of)
    BY <1>4, Persisted
  <2> QED BY <1>2, <1>5, <2>1 DEF Heard
<1>8. /\ run' = [p \in Loop |-> run'[p]] /\ \A p \in Loop : run'[p] = IF p = r THEN IdleRun ELSE run[p]
  BY <1>6 DEF SignalsInv, RunIs
<1>9. \A p \in Loop : RunStage(run[p])'
  BY <1>6, <1>8, InRun, IdleStage DEF RunStage
<1>10. ScriptStage'
  BY <1>6 DEF SignalsInv, ScriptStage
<1>11. \A p \in Opinion : HeardOk(p)'
  BY <1>6, <1>7, <1>5 DEF SignalsInv, HeardOk
<1>12. ASSUME NEW p \in Opinion PROVE Followed(p)'
  <2>1. Followed(p)
    BY DEF SignalsInv
  <2>2. WillHear(p) /\ ~Hears(run[r], p) => WillHear(p)'
    BY <1>6, <1>8 DEF WillHear, Hears
  <2>3. Hears(run[r], p) => p = o /\ n = note[o]
    BY <1>1, <1>2 DEF Hears
  <2> QED BY <1>3, <1>6, <1>7, <1>5, <2>1, <2>2, <2>3 DEF Followed
<1>13. DishFollowed'
  BY <1>2, <1>6 DEF DishFollowed
<1> QED BY <1>6, <1>7, <1>8, <1>9, <1>10, <1>11, <1>12, <1>13 DEF SignalsInv, Noted

LEMMA EmbedReviewKeeps ==
  ASSUME SignalsInv, NEW r \in Loop, EmbedReview(r)
  PROVE  SignalsInv'
<1> DEFINE q == [RunAt("dish", run[r].review) EXCEPT !.note = run[r].note]
<1>1. q.pc = "dish" /\ q.review = run[r].review /\ q.note = run[r].note
  BY RunsAt
<1>2. /\ UNCHANGED <<rows, note, erased, dubbed, write, script, heard, vector, torn, shifted>>
      /\ UNCHANGED queued /\ UNCHANGED missed
  BY DEF EmbedReview, reviewRows, derived
<1>3. RunIs(r, q) /\ rows = "embed" /\ run[r].pc = "ask"
  BY DEF EmbedReview
<1> HIDE DEF q
<1>4. SeenText(q) = SeenText(run[r])
  BY <1>1 DEF SeenText
<1>5. RunStage(q) /\ (Embeds(run[r]) => Embeds(q))
  BY <1>1, <1>3, <1>4 DEF RunStage, Embeds
<1> QED BY <1>2, <1>3, <1>5, LoopStays

LEMMA BeginDishScriptKeeps ==
  ASSUME SignalsInv, NEW r \in Loop, BeginDishScript(r)
  PROVE  SignalsInv'
<1> DEFINE q == RunAt("dish", Unset)
<1>1. q.pc = "dish" /\ q.review = Unset
  BY RunsAt
<1>2. /\ UNCHANGED <<rows, note, erased, dubbed, write, script, heard, vector, torn, shifted>>
      /\ UNCHANGED queued /\ UNCHANGED missed
  BY DEF BeginDishScript, reviewRows, derived
<1>3. RunIs(r, q) /\ rows = "embed"
  BY DEF BeginDishScript
<1> HIDE DEF q
<1>4. RunStage(q) /\ Embeds(q)
  BY <1>1, <1>3 DEF RunStage, Embeds, SeenText, DishAggregateText
<1> QED BY <1>2, <1>3, <1>4, LoopStays

LEMMA ReadDishTextKeeps ==
  ASSUME SignalsInv, NEW r \in Loop, ReadDishText(r)
  PROVE  SignalsInv'
<1> DEFINE q == [RunAt("hash", run[r].review) EXCEPT !.text = SeenText(run[r])]
<1>1. q.pc = "hash" /\ q.text = SeenText(run[r])
  BY RunsAt
<1>2. /\ UNCHANGED <<rows, note, erased, dubbed, write, script, heard, vector, torn, shifted>>
      /\ UNCHANGED queued /\ UNCHANGED missed
  BY DEF ReadDishText, reviewRows, derived
<1>3. RunIs(r, q) /\ run[r].pc = "dish"
  BY DEF ReadDishText
<1>4. rows = "embed"
  BY <1>3, InRun DEF RunStage, SignalsInv
<1> HIDE DEF q
<1>5. RunStage(q) /\ (Embeds(run[r]) => Embeds(q))
  BY <1>1, <1>3, <1>4 DEF RunStage, Embeds
<1> QED BY <1>2, <1>3, <1>4, <1>5, LoopStays

LEMMA CompareHashKeeps ==
  ASSUME SignalsInv, NEW r \in Loop, CompareHash(r)
  PROVE  SignalsInv'
<1>1. /\ UNCHANGED <<rows, note, erased, dubbed, write, script, heard, vector, torn, shifted>>
      /\ UNCHANGED queued /\ UNCHANGED missed
  BY DEF CompareHash, reviewRows, derived
<1>2. run[r].pc = "hash" /\ rows = "embed"
  BY InRun DEF CompareHash, RunStage, SignalsInv
<1>3. CASE vector = run[r].text /\ RunEnds(r)
  <2>1. RunIs(r, IdleRun)
    BY <1>3 DEF RunEnds
  <2>2. Embeds(run[r]) => vector = DishAggregateText
    BY <1>2, <1>3 DEF Embeds
  <2> QED BY <1>1, <1>2, <2>1, <2>2, IdleStage, LoopStays
<1>4. CASE RunIs(r, [RunAt("embed", run[r].review) EXCEPT !.text = run[r].text])
  <2> DEFINE q == [RunAt("embed", run[r].review) EXCEPT !.text = run[r].text]
  <2>1. q.pc = "embed" /\ q.text = run[r].text /\ RunIs(r, q)
    BY <1>4, RunsAt
  <2> HIDE DEF q
  <2>2. RunStage(q) /\ (Embeds(run[r]) => Embeds(q))
    BY <1>2, <2>1 DEF RunStage, Embeds
  <2> QED BY <1>1, <1>2, <2>1, <2>2, LoopStays
<1> QED BY <1>3, <1>4 DEF CompareHash

LEMMA EmbedDishKeeps ==
  ASSUME SignalsInv, NEW r \in Loop, EmbedDish(r)
  PROVE  SignalsInv'
<1>1. PICK text : text = run[r].text
  OBVIOUS
<1>2. /\ UNCHANGED rows /\ UNCHANGED note /\ UNCHANGED write /\ UNCHANGED script /\ UNCHANGED queued
      /\ UNCHANGED heard /\ UNCHANGED torn /\ UNCHANGED shifted /\ UNCHANGED dubbed
      /\ RunIs(r, IdleRun) /\ run[r].pc = "embed" /\ vector' = text
      /\ missed' = IF text = DishAggregateText THEN missed \ {TheDish}
                   ELSE IF vector = DishAggregateText THEN missed \cup {TheDish} ELSE missed
  BY <1>1 DEF EmbedDish, reviewRows, RunEnds
<1>3. rows = "embed"
  BY <1>2, InRun DEF RunStage, SignalsInv
<1>4. /\ run' = [p \in Loop |-> run'[p]] /\ \A p \in Loop : run'[p] = IF p = r THEN IdleRun ELSE run[p]
  BY <1>2 DEF SignalsInv, RunIs
<1>5. \A p \in Loop : RunStage(run[p])'
  BY <1>2, <1>4, InRun, IdleStage DEF RunStage
<1>6. ScriptStage'
  BY <1>2 DEF SignalsInv, ScriptStage
<1>7. \A p \in Opinion : HeardOk(p)'
  BY <1>2 DEF SignalsInv, HeardOk
<1>8. \A p \in Opinion : Followed(p)'
  BY <1>2, <1>3 DEF Followed
<1>9. DishFollowed'
  <2>1. DishAggregateText' = DishAggregateText /\ \A p \in Loop \ {r} : SeenText(run[p])' = SeenText(run[p])
    BY <1>2, <1>4 DEF DishAggregateText, AggregateText, SeenText
  <2>2. WillEmbed /\ ~Embeds(run[r]) => WillEmbed'
    BY <1>2, <1>4, <2>1 DEF WillEmbed, Embeds
  <2>3. Embeds(run[r]) => text = DishAggregateText
    BY <1>1, <1>2 DEF Embeds
  <2>4. DishFollowed
    BY DEF SignalsInv
  <2> QED BY <1>2, <1>3, <2>1, <2>2, <2>3, <2>4 DEF DishFollowed
<1> QED BY <1>2, <1>4, <1>5, <1>6, <1>7, <1>8, <1>9 DEF SignalsInv, Noted

------------------------------------------------------------------------------
(* backfill_sentiment.                                                      *)

LEMMA ScriptMoves ==
  ASSUME SignalsInv, ScriptRests, ScriptStage'
  PROVE  SignalsInv'
<1>1. /\ UNCHANGED rows /\ UNCHANGED note /\ UNCHANGED run /\ UNCHANGED write /\ UNCHANGED heard
      /\ UNCHANGED torn /\ UNCHANGED shifted /\ UNCHANGED queued /\ UNCHANGED dubbed /\ UNCHANGED vector
      /\ UNCHANGED missed
  BY DEF ScriptRests, reviewRows, derived
<1>2. \A r \in Loop : RunStage(run[r])'
  BY <1>1, InRun DEF RunStage
<1>3. \A p \in Opinion : HeardOk(p)'
  BY <1>1 DEF SignalsInv, HeardOk
<1>4. \A p \in Opinion : Followed(p)'
  BY <1>1 DEF SignalsInv, Followed, WillHear
<1>5. DishFollowed'
  BY <1>1, DishStays
<1> QED BY <1>1, <1>2, <1>3, <1>4, <1>5 DEF SignalsInv, Noted

(* Snapshots are numbered from one.                                         *)
LEMMA TargetsAreNumbered ==
  ASSUME SignalsInv, NEW again
  PROVE  \E n \in Nat : LoadTargets(again) = [i \in 1..n |-> LoadTargets(again)[i]]
<1> DEFINE W == {o \in Opinion : note[o] \in Words /\ (again \/ heard[o].of = Unset)}
           s == [o \in Opinion |-> <<o, note[o]>>]
<1>1. W \subseteq Noted
  BY DEF Noted
<1>2. Cardinality(W) \in Nat
  BY <1>1, FS_Subset, FS_CardinalityType DEF SignalsInv
<1>3. LoadTargets(again) = Picked(s, W)
  BY DEF LoadTargets
<1> HIDE DEF s, W
<1>4. Picked(s, W) = [i \in 1..Cardinality(W) |-> Picked(s, W)[i]]
  BY DEF Picked
<1> QED BY <1>2, <1>3, <1>4

(* The stage of a script, a state of it at a time.                          *)
StageOf(s) ==
  /\ ScriptIs(s) /\ s.resumed \in BOOLEAN
  /\ s.pc = "wait" => \E n \in Nat : s.list = [i \in 1..n |-> s.list[i]]
  /\ s.pc # "none" /\ ~s.resumed => s.sent = s.list

LEMMA StageIs == ScriptStage <=> StageOf(script) /\ (rows = "embed" => script = NoScript)
BY DEF ScriptStage, StageOf

LEMMA ScriptTurns ==
  ASSUME SignalsInv, ScriptRests, StageOf(script'), rows = "sentiment"
  PROVE  SignalsInv'
<1>1. UNCHANGED rows
  BY DEF ScriptRests, reviewRows
<1>2. StageOf(script)' /\ (rows' = "embed" => script' = NoScript)
  BY <1>1 DEF StageOf, ScriptIs
<1>3. ScriptStage'
  BY <1>2 DEF StageOf, ScriptStage
<1> QED BY <1>3, ScriptMoves

LEMMA NoScriptStage == StageOf(NoScript)
BY NothingRuns DEF StageOf

LEMMA RunSyncKeeps ==
  ASSUME SignalsInv, NEW again, RunSync(again)
  PROVE  SignalsInv'
<1>1. PICK l : l = LoadTargets(again)
  OBVIOUS
<1>2. script' = [NoScript EXCEPT !.pc = "walk", !.list = l, !.sent = l, !.left = DOMAIN l]
  BY <1>1 DEF RunSync
<1>3. StageOf(script')
  BY <1>2 DEF StageOf, ScriptIs, NoScript
<1> QED BY <1>3, ScriptTurns DEF RunSync

LEMMA SubmitBatchKeeps ==
  ASSUME SignalsInv, NEW again, SubmitBatch(again)
  PROVE  SignalsInv'
<1>1. PICK l : l = LoadTargets(again)
  OBVIOUS
<1>2. script' = [NoScript EXCEPT !.pc = "wait", !.list = l, !.sent = l, !.again = again]
  BY <1>1 DEF SubmitBatch
<1>3. \E n \in Nat : l = [i \in 1..n |-> l[i]]
  BY <1>1, TargetsAreNumbered
<1>4. StageOf(script')
  <2>1. /\ ScriptIs(script') /\ script'.pc = "wait" /\ script'.list = l /\ script'.sent = l
        /\ script'.resumed = FALSE
    BY <1>2 DEF ScriptIs, NoScript
  <2> QED BY <1>3, <2>1 DEF StageOf
<1> QED BY <1>4, ScriptTurns DEF SubmitBatch

LEMMA SomeScript ==
  ASSUME SignalsInv, script # NoScript
  PROVE  rows = "sentiment" /\ StageOf(script)
BY StageIs DEF SignalsInv

LEMMA StopWaitingKeeps ==
  ASSUME SignalsInv, StopWaiting
  PROVE  SignalsInv'
<1>1. rows = "sentiment"
  BY SomeScript, NothingRuns DEF StopWaiting
<1>2. CASE script' = NoScript
  BY <1>1, <1>2, NoScriptStage, ScriptTurns DEF StopWaiting
<1>3. CASE script' = [NoScript EXCEPT !.sent = script.sent, !.again = script.again]
  <2>1. StageOf(script')
    BY <1>3 DEF StageOf, ScriptIs, NoScript
  <2> QED BY <1>1, <2>1, ScriptTurns DEF StopWaiting
<1> QED BY <1>2, <1>3 DEF StopWaiting

LEMMA ResumeBatchKeeps ==
  ASSUME SignalsInv, ResumeBatch
  PROVE  SignalsInv'
<1>1. rows = "sentiment" /\ StageOf(script)
  BY SomeScript, NothingRuns DEF ResumeBatch
<1>2. PICK l : l = LoadTargets(script.again)
  OBVIOUS
<1>3. script' = [script EXCEPT !.pc = "wait", !.list = l, !.resumed = TRUE]
  BY <1>2 DEF ResumeBatch
<1>4. \E n \in Nat : l = [i \in 1..n |-> l[i]]
  BY <1>2, TargetsAreNumbered
<1>5. StageOf(script')
  <2>1. /\ ScriptIs(script') /\ script'.pc = "wait" /\ script'.list = l /\ script'.resumed = TRUE
    BY <1>1, <1>3 DEF StageOf, ScriptIs
  <2> QED BY <1>4, <2>1 DEF StageOf
<1> QED BY <1>1, <1>5, ScriptTurns DEF ResumeBatch

LEMMA Numbered ==
  ASSUME NEW n \in Nat, NEW f, f = [i \in 1..n |-> f[i]]
  PROVE  Len(f) = n /\ DOMAIN f = 1..n
<1> DEFINE S == {f[i] : i \in 1..n}
<1>1. f \in [1..n -> S]
  OBVIOUS
<1>2. f \in Seq(S)
  BY <1>1, SeqDef
<1>3. Len(f) \in Nat /\ DOMAIN f = 1..Len(f) /\ DOMAIN f = 1..n
  BY <1>1, <1>2, LenProperties
<1> HIDE DEF S
<1>4. Len(f) = n
  BY <1>3
<1> QED BY <1>3, <1>4

(* As many answers as requests are all of them.                             *)
LEMMA SameNumberIsAll ==
  ASSUME NEW n \in Nat, NEW sent, sent = [i \in 1..n |-> sent[i]],
         NEW answers \in Replies(sent), Len(answers) = n
  PROVE  answers = sent
<1>1. CASE answers = sent
  BY <1>1
<1>2. CASE \E kept \in {s \in SUBSET (DOMAIN sent) : s # DOMAIN sent} : answers = Picked(sent, kept)
  <2>1. PICK kept \in SUBSET (DOMAIN sent) : kept # DOMAIN sent /\ answers = Picked(sent, kept)
    BY <1>2
  <2>2. kept \subseteq 1..n /\ kept # 1..n
    BY <2>1, Numbered
  <2>3. IsFiniteSet(1..n) /\ Cardinality(1..n) = n
    BY FS_Interval
  <2>4. Cardinality(kept) \in Nat /\ Cardinality(kept) < n
    BY <2>2, <2>3, FS_Subset, FS_CardinalityType
  <2>5. answers = [i \in 1..Cardinality(kept) |-> answers[i]]
    BY <2>1 DEF Picked
  <2>6. Len(answers) = Cardinality(kept)
    BY ONLY <2>4, <2>5, Numbered
  <2> QED BY <2>4, <2>6
<1> QED BY <1>1, <1>2 DEF Replies

LEMMA ConsumeBatchKeeps ==
  ASSUME SignalsInv, ConsumeBatch
  PROVE  SignalsInv'
<1>1. rows = "sentiment" /\ StageOf(script)
  BY SomeScript, NothingRuns DEF ConsumeBatch
<1>2. CASE script' = NoScript
  BY <1>1, <1>2, NoScriptStage, ScriptTurns DEF ConsumeBatch
<1>3. ASSUME NEW answers \in Replies(script.sent), SameNumber(answers),
             script' = [script EXCEPT !.pc = "walk", !.sent = answers,
                                      !.left = DOMAIN script.list \cap DOMAIN answers]
      PROVE  SignalsInv'
  <2>1. PICK n \in Nat : script.list = [i \in 1..n |-> script.list[i]]
    BY <1>1 DEF StageOf, ConsumeBatch
  <2>2. ~script.resumed => script.sent = script.list
    BY <1>1 DEF StageOf, ConsumeBatch
  <2>3. Len(answers) = n
    BY <1>3, <2>1, Numbered DEF SameNumber
  <2>4. ~script.resumed => answers = script.list
    BY <1>3, <2>1, <2>2, <2>3, SameNumberIsAll
  <2>5. PICK left : left = DOMAIN script.list \cap DOMAIN answers
    OBVIOUS
  <2>6. script' = [script EXCEPT !.pc = "walk", !.sent = answers, !.left = left]
    BY <1>3, <2>5
  <2>7. StageOf(script')
    <3>1. /\ ScriptIs(script') /\ script'.pc = "walk" /\ script'.list = script.list
          /\ script'.sent = answers /\ script'.resumed = script.resumed /\ script.resumed \in BOOLEAN
      BY <1>1, <2>6 DEF StageOf, ScriptIs
    <3> QED BY <2>4, <3>1 DEF StageOf
  <2> QED BY <1>1, <2>7, ScriptTurns DEF ConsumeBatch
<1> QED BY <1>2, <1>3 DEF ConsumeBatch

LEMMA WalkOnKeeps ==
  ASSUME SignalsInv, NEW i, WalkOn(i)
  PROVE  SignalsInv'
<1>1. rows = "sentiment" /\ StageOf(script) /\ script.pc = "walk"
  BY SomeScript, NothingRuns DEF WalkOn
<1>2. PICK left, w : left = script.left \ {i} /\ w = [heard[script.list[i][1]] EXCEPT !.of = Unset]
  OBVIOUS
<1>3. CASE script' = [script EXCEPT !.left = left]
  <2>1. /\ ScriptIs(script') /\ script'.pc = script.pc /\ script'.list = script.list
        /\ script'.sent = script.sent /\ script'.resumed = script.resumed
    BY <1>1, <1>3 DEF StageOf, ScriptIs
  <2>2. StageOf(script')
    BY <1>1, <2>1 DEF StageOf
  <2> QED BY <1>1, <2>2, ScriptTurns DEF WalkOn
<1>4. CASE script' = [script EXCEPT !.pc = "write", !.at = i, !.left = left, !.was = w]
  <2>1. /\ ScriptIs(script') /\ script'.pc = "write" /\ script'.list = script.list
        /\ script'.sent = script.sent /\ script'.resumed = script.resumed
    BY <1>1, <1>4 DEF StageOf, ScriptIs
  <2>2. StageOf(script')
    BY <1>1, <2>1 DEF StageOf
  <2> QED BY <1>1, <2>2, ScriptTurns DEF WalkOn
<1> QED BY <1>2, <1>3, <1>4 DEF WalkOn

LEMMA WalkEndsKeeps ==
  ASSUME SignalsInv, WalkEnds
  PROVE  SignalsInv'
<1>1. rows = "sentiment"
  BY SomeScript, NothingRuns DEF WalkEnds
<1> QED BY <1>1, NoScriptStage, ScriptTurns DEF WalkEnds

LEMMA PersistResultKeeps ==
  ASSUME SignalsInv, PersistResult
  PROVE  SignalsInv'
<1>1. rows = "sentiment" /\ StageOf(script) /\ script.pc = "write"
  BY SomeScript, NothingRuns DEF PersistResult
<1>2. PICK o, of : o = script.list[script.at][1] /\ of = script.sent[script.at]
  OBVIOUS
<1>3. of[1] = o \/ script.resumed
  BY <1>1, <1>2 DEF StageOf
<1>4. /\ UNCHANGED rows /\ UNCHANGED note /\ UNCHANGED run /\ UNCHANGED write /\ UNCHANGED queued
      /\ UNCHANGED dubbed /\ UNCHANGED vector
      /\ script' = [script EXCEPT !.pc = "walk", !.at = 0, !.was = Unheard]
  BY DEF PersistResult, reviewRows
<1>5. ScriptStage'
  <2>1. /\ ScriptIs(script') /\ script'.pc = "walk" /\ script'.list = script.list
        /\ script'.sent = script.sent /\ script'.resumed = script.resumed
    BY <1>1, <1>4 DEF StageOf, ScriptIs
  <2>2. StageOf(script')
    BY <1>1, <2>1 DEF StageOf
  <2>3. (rows = "embed")' => FALSE
    BY <1>1, <1>4
  <2>4. StageOf(script)'
    BY <2>2 DEF StageOf, ScriptIs
  <2> QED BY <2>3, <2>4 DEF StageOf, ScriptStage
<1>6. \A p \in Loop : RunStage(run[p])'
  BY <1>4, InRun DEF RunStage
<1>7. DishFollowed'
  BY <1>1, <1>4 DEF DishFollowed
<1>8. \A p \in Opinion : WillHear(p)' <=> WillHear(p)
  BY <1>4 DEF WillHear
<1>9. CASE UNCHANGED <<heard, torn, missed, shifted>>
  <2>1. \A p \in Opinion : HeardOk(p)' /\ Followed(p)'
    BY <1>4, <1>8, <1>9 DEF SignalsInv, HeardOk, Followed
  <2>2. heard' = heard
    BY <1>9
  <2> QED BY <1>4, <1>5, <1>6, <1>7, <2>1, <2>2 DEF SignalsInv, Noted
<1>10. CASE /\ \E now \in Analyses : PersistSentiment(o, script.was, now, of)
            /\ shifted' = IF script.resumed THEN shifted \cup {o} ELSE shifted \ {o}
  <2>1. PICK was : was = script.was
    OBVIOUS
  <2>2. PICK now \in Analyses : PersistSentiment(o, was, now, of)
    BY <1>10, <2>1
  <2>3. Heard(o, of)
    BY <2>2, Persisted
  <2>4. \A p \in Opinion : HeardOk(p)'
    BY <1>3, <1>10, <2>3 DEF SignalsInv, HeardOk, Heard
  <2>5. \A p \in Opinion : Followed(p)'
    BY <1>4, <1>8, <2>3 DEF SignalsInv, Followed, Heard
  <2>6. heard' = [p \in Opinion |-> heard'[p]]
    BY <2>3 DEF Heard
  <2> QED BY <1>4, <1>5, <1>6, <1>7, <2>4, <2>5, <2>6 DEF SignalsInv, Noted
<1> QED BY <1>2, <1>9, <1>10 DEF PersistResult

LEMMA SignalsRest ==
  ASSUME SignalsInv, UNCHANGED signalVars
  PROVE  SignalsInv'
<1>1. ScriptRests /\ script' = script /\ rows' = rows
  BY DEF signalVars, ScriptRests, reviewRows, derived
<1>2. ScriptStage'
  BY <1>1 DEF SignalsInv, ScriptStage
<1> QED BY <1>1, <1>2, ScriptMoves

THEOREM SignalsInvariant == SignalsSpec => []SignalsInv
<1>1. SignalsInv /\ [SignalsNext]_signalVars => SignalsInv'
  <2> SUFFICES ASSUME SignalsInv, [SignalsNext]_signalVars PROVE SignalsInv'
    OBVIOUS
  <2>1. CASE WriteNext(Opinion, Note)
    BY <2>1, StageReviewKeeps, CommitReviewKeeps, AbortReviewKeeps, DeleteOpinionKeeps DEF WriteNext
  <2>2. CASE LoopNext
    <3>1. PICK r \in Loop :
            \/ \E o \in Opinion : TakeRow(r, o)
            \/ LoadReview(r) \/ LoseRun(r) \/ RetryRun(r) \/ AnalyzeReview(r)
            \/ EmbedReview(r) \/ BeginDishScript(r) \/ ReadDishText(r) \/ CompareHash(r) \/ EmbedDish(r)
      BY <2>2 DEF LoopNext
    <3> QED BY <3>1, TakeRowKeeps, LoadReviewKeeps, LoseRunKeeps, RetryRunKeeps, AnalyzeReviewKeeps,
               EmbedReviewKeeps, BeginDishScriptKeeps, ReadDishTextKeeps, CompareHashKeeps, EmbedDishKeeps
  <2>3. CASE SyncNext
    BY <2>3, RunSyncKeeps, WalkOnKeeps, PersistResultKeeps, WalkEndsKeeps, StopWaitingKeeps DEF SyncNext
  <2>4. CASE BatchNext
    BY <2>4, SubmitBatchKeeps, ResumeBatchKeeps, ConsumeBatchKeeps DEF BatchNext
  <2>5. CASE \E d \in Dubbing : DubDish(d)
    BY <2>5, DubDishKeeps
  <2>6. CASE UNCHANGED signalVars
    BY <2>6, SignalsRest
  <2> QED BY <2>1, <2>2, <2>3, <2>4, <2>5, <2>6 DEF SignalsNext
<1> QED BY SignalsStart, <1>1, PTL DEF SignalsSpec

(* No review keeps the sentiment of another, and what is derived from an    *)
(* older text is on its way to the current one or its last chance was lost  *)
(* (sentiment_service.py, embeddings_service.py, jobs/handlers.py).         *)
THEOREM SignalsAreFollowed == SignalsSpec => []SignalsHold
<1> QED BY SignalsInvariant, SignalsAre, PTL

(* Types of the signals: what a loop, the script and a column hold.         *)
RunRecord == [pc : {"idle", "load", "ask", "dish", "hash", "embed"}, review : Opinion \cup {Unset},
              note : Note, was : Columns, text : DishText \cup {Unset}]
RunPc == {"idle", "load", "ask", "dish", "hash", "embed"}
SnapshotList(l) == \E n \in Nat : l \in [1..n -> Snapshot]

(* What the script has left, and what it writes, has a snapshot and what    *)
(* was answered.                                                            *)
ScriptTyped(s) ==
  /\ ScriptIs(s)
  /\ s.pc \in {"none", "wait", "walk", "write"} /\ SnapshotList(s.list) /\ SnapshotList(s.sent)
  /\ s.was \in Columns
  /\ s.pc \in {"walk", "write"} => s.left \subseteq DOMAIN s.list \cap DOMAIN s.sent
  /\ s.pc = "write" => s.at \in DOMAIN s.list \cap DOMAIN s.sent
DerivedTyped ==
  /\ heard \in [Opinion -> Columns] /\ vector \in DishText \cup {Unset}
  /\ missed \subseteq Opinion \cup {TheDish} /\ torn \subseteq Opinion /\ shifted \subseteq Opinion
RowsTyped == erased \subseteq Opinion /\ dubbed \in Dubbing /\ queued \subseteq Opinion

(* The model is asked about a note that says something.                     *)
AsksWords(q) == rows = "sentiment" /\ q.pc = "ask" => q.note \in Words

SignalsTyped ==
  /\ RowsTyped /\ DerivedTyped /\ ScriptTyped(script)
  /\ run \in [Loop -> RunRecord] /\ \A r \in Loop : AsksWords(run[r])

LEMMA SignalsTypesAre == SignalsInv /\ SignalsTyped => SignalsTypeOK
BY DEF SignalsInv, SignalsTyped, RowsTyped, DerivedTyped, ScriptTyped, SignalsTypeOK, RunRecord, WriteRecord

LEMMA NothingTyped ==
  /\ Unheard \in Columns /\ IdleRun \in RunRecord /\ ScriptTyped(NoScript)
  /\ SnapshotList(<<>>)
<1>1. Unheard \in Columns
  BY DEF Unheard, Columns
<1>2. IdleRun \in RunRecord
  BY <1>1 DEF IdleRun, RunRecord, Note
<1>3. SnapshotList(<<>>)
  <2>1. <<>> \in [1..0 -> Snapshot] /\ 0 \in Nat
    OBVIOUS
  <2> QED BY <2>1 DEF SnapshotList
<1>4. ScriptTyped(NoScript)
  BY <1>1, <1>3, NothingRuns DEF ScriptTyped, NoScript
<1> QED BY <1>1, <1>2, <1>3, <1>4

LEMMA TypedStart == SignalsInit => SignalsTyped
BY NothingTyped, NothingRuns DEF SignalsInit, SignalsTyped, RowsTyped, DerivedTyped, AsksWords

LEMMA RunIsTyped ==
  ASSUME run \in [Loop -> RunRecord], NEW r \in Loop, NEW q \in RunRecord, RunIs(r, q)
  PROVE  /\ run' \in [Loop -> RunRecord] /\ \A p \in Loop : run'[p] = IF p = r THEN q ELSE run[p]
BY DEF RunIs

LEMMA RunAtTyped ==
  ASSUME NEW pc \in RunPc, NEW o \in Opinion \cup {Unset}
  PROVE  RunAt(pc, o) \in RunRecord
BY NothingTyped DEF RunAt, RunRecord, RunPc

LEMMA ColumnsKept ==
  ASSUME NEW h \in Columns
  PROVE  [h EXCEPT !.of = Unset] \in Columns
BY DEF Columns

LEMMA RunHolds ==
  ASSUME NEW q \in RunRecord, NEW n \in Note, NEW w \in Columns, NEW x \in DishText
  PROVE  /\ [q EXCEPT !.note = n, !.was = w] \in RunRecord /\ [q EXCEPT !.text = x] \in RunRecord
BY DEF RunRecord

LEMMA NoteHolds ==
  ASSUME NEW q \in RunRecord, NEW n \in Note
  PROVE  [q EXCEPT !.note = n] \in RunRecord
BY DEF RunRecord

LEMMA TextTyped ==
  ASSUME SignalsInv, SignalsTyped
  PROVE  \A q : SeenText(q) \in DishText
<1>1. \A notes : [o \in Opinion |-> IF notes[o] \in Words THEN notes[o] ELSE Unset]
                   \in [Opinion -> Words \cup {Unset}]
  OBVIOUS
<1> QED BY <1>1 DEF SeenText, AggregateText, DishText, SignalsTyped, RowsTyped

LEMMA InLoop ==
  ASSUME SignalsInv, SignalsTyped, NEW r \in Loop
  PROVE  /\ run[r] \in RunRecord /\ run[r].pc \in RunPc /\ run[r].review \in Opinion \cup {Unset}
         /\ run[r].note \in Note /\ run[r].was \in Columns /\ run[r].text \in DishText \cup {Unset}
         /\ run[r].pc \in {"load", "ask"} => run[r].review \in Opinion
         /\ rows = "sentiment" /\ run[r].pc = "ask" => run[r].note \in Words
         /\ run[r].pc # "idle" => Subject(run[r].review) \in Opinion \cup {TheDish}
<1>1. run[r] \in RunRecord /\ RunStage(run[r]) /\ AsksWords(run[r]) /\ rows \in {"sentiment", "embed"}
  BY InRun DEF SignalsTyped, SignalsInv
<1> QED BY <1>1 DEF RunRecord, RunPc, RunStage, Subject, AsksWords

(* Only one loop moves.                                                     *)
LEMMA RunsOnTyped ==
  ASSUME SignalsInv, SignalsTyped, NEW r \in Loop, NEW q \in RunRecord, RunIs(r, q), AsksWords(q),
         UNCHANGED <<rows, script, erased, dubbed, heard, vector, torn, shifted>>,
         queued' \subseteq Opinion, missed' \subseteq Opinion \cup {TheDish}
  PROVE  SignalsTyped'
<1>1. run' \in [Loop -> RunRecord] /\ \A p \in Loop : run'[p] = IF p = r THEN q ELSE run[p]
  BY RunIsTyped DEF SignalsTyped
<1>2. \A p \in Loop : AsksWords(run[p])'
  BY <1>1 DEF SignalsTyped, AsksWords
<1> QED BY <1>1, <1>2 DEF SignalsTyped, RowsTyped, DerivedTyped

LEMMA RunsElsewhere ==
  ASSUME NEW pc, NEW o, pc # "ask"
  PROVE  AsksWords(RunAt(pc, o)) /\ AsksWords(IdleRun)
         /\ \A x : AsksWords([RunAt(pc, o) EXCEPT !.text = x])
BY RunsAt DEF AsksWords

LEMMA TakeRowTyped ==
  ASSUME SignalsInv, SignalsTyped, NEW r \in Loop, NEW o \in Opinion, TakeRow(r, o)
  PROVE  SignalsTyped'
<1>1. RunAt("load", o) \in RunRecord
  BY RunAtTyped DEF RunPc
<1>2. queued' \subseteq Opinion /\ missed' \subseteq Opinion \cup {TheDish}
  BY DEF TakeRow, derived, SignalsTyped, RowsTyped, DerivedTyped
<1>3. AsksWords(RunAt("load", o))
  BY RunsElsewhere
<1> QED BY <1>1, <1>2, <1>3, RunsOnTyped DEF TakeRow, derived

LEMMA LoadReviewTyped ==
  ASSUME SignalsInv, SignalsTyped, NEW r \in Loop, LoadReview(r)
  PROVE  SignalsTyped'
<1>1. PICK o \in Opinion : o = run[r].review
  BY InLoop DEF LoadReview
<1>2. queued' \subseteq Opinion /\ UNCHANGED <<rows, script, erased, dubbed, heard, vector, torn, shifted>>
  BY DEF LoadReview, reviewRows, SignalsTyped, RowsTyped
<1>3. CASE /\ note[o] \in Words \/ (rows = "embed" /\ note[o] = Blank)
           /\ UNCHANGED missed
           /\ RunIs(r, [RunAt("ask", o) EXCEPT
                       !.note = note[o],
                       !.was = IF rows = "sentiment" THEN [heard[o] EXCEPT !.of = Unset] ELSE Unheard])
  <2>1. PICK w \in Columns : w = IF rows = "sentiment" THEN [heard[o] EXCEPT !.of = Unset] ELSE Unheard
    BY NothingTyped, ColumnsKept DEF SignalsTyped, DerivedTyped
  <2>2. PICK n \in Note : n = note[o]
    BY <1>3 DEF Note
  <2>3. PICK q \in RunRecord : q = RunAt("ask", o)
    BY RunAtTyped DEF RunPc
  <2>4. [q EXCEPT !.note = n, !.was = w] \in RunRecord
    BY RunHolds, TextTyped
  <2>5. RunIs(r, [q EXCEPT !.note = n, !.was = w])
    BY <1>3, <2>1, <2>2, <2>3
  <2>7. AsksWords([q EXCEPT !.note = n, !.was = w])
    <3>1. [q EXCEPT !.note = n, !.was = w].note = n
      BY <2>3 DEF RunRecord
    <3> QED BY <1>3, <2>2, <3>1 DEF AsksWords
  <2>6. missed' \subseteq Opinion \cup {TheDish}
    BY <1>3 DEF SignalsTyped, DerivedTyped
  <2> QED BY <1>2, <2>4, <2>5, <2>6, <2>7, RunsOnTyped
<1>4. CASE RunEnds(r) /\ Miss(o)
  <2>1. missed' \subseteq Opinion \cup {TheDish}
    BY <1>4 DEF Miss, Subject, SignalsTyped, DerivedTyped
  <2> QED BY <1>2, <1>4, <2>1, NothingTyped, RunsElsewhere, RunsOnTyped DEF RunEnds
<1> QED BY <1>1, <1>3, <1>4 DEF LoadReview

LEMMA LoseRunTyped ==
  ASSUME SignalsInv, SignalsTyped, NEW r \in Loop, LoseRun(r)
  PROVE  SignalsTyped'
<1>1. queued' \subseteq Opinion /\ UNCHANGED <<rows, script, erased, dubbed, heard, vector, torn, shifted>>
  BY DEF LoseRun, reviewRows, SignalsTyped, RowsTyped
<1>2. missed' \subseteq Opinion \cup {TheDish}
  BY InLoop DEF LoseRun, Miss, SignalsTyped, DerivedTyped
<1> QED BY <1>1, <1>2, NothingTyped, RunsElsewhere, RunsOnTyped DEF LoseRun, RunEnds

LEMMA RetryRunTyped ==
  ASSUME SignalsInv, SignalsTyped, NEW r \in Loop, RetryRun(r)
  PROVE  SignalsTyped'
<1>1. run[r].review \in Opinion
  BY InLoop DEF RetryRun
<1>2. queued' \subseteq Opinion /\ missed' \subseteq Opinion \cup {TheDish}
  BY <1>1 DEF RetryRun, derived, SignalsTyped, RowsTyped, DerivedTyped
<1> QED BY <1>2, NothingTyped, RunsElsewhere, RunsOnTyped DEF RetryRun, RunEnds, derived

LEMMA PersistTyped ==
  ASSUME SignalsTyped, NEW o \in Opinion, NEW was \in Columns, NEW now \in Analyses, NEW of \in Snapshot,
         PersistSentiment(o, was, now, of)
  PROVE  /\ heard' \in [Opinion -> Columns] /\ torn' \subseteq Opinion
         /\ missed' \subseteq Opinion \cup {TheDish}
<1>1. heard \in [Opinion -> Columns] /\ torn \subseteq Opinion /\ missed \subseteq Opinion \cup {TheDish}
  BY DEF SignalsTyped, DerivedTyped
<1>2. now.label \in {"positive", "neutral", "negative"} /\ now.score \in Score
  BY DEF Analyses, CoerceLabel
<1>3. heard[o] \in Columns
  BY <1>1
<1>4. PICK a, b : /\ a = IF now.label = was.label THEN heard[o].label ELSE now.label
                  /\ b = IF now.score = was.score THEN heard[o].score ELSE now.score
  OBVIOUS
<1>5. a \in {"positive", "neutral", "negative", Unset} /\ b \in Score \cup {Unset}
  BY <1>2, <1>3, <1>4 DEF Columns
<1>6. heard' = [heard EXCEPT ![o] = [label |-> a, score |-> b, of |-> of]]
  BY <1>4 DEF PersistSentiment
<1>7. [label |-> a, score |-> b, of |-> of] \in Columns
  BY <1>5 DEF Columns
<1>8. heard' \in [Opinion -> Columns]
  BY <1>1, <1>6, <1>7
<1>9. torn' \subseteq Opinion /\ missed' \subseteq Opinion \cup {TheDish}
  BY <1>1 DEF PersistSentiment
<1> QED BY <1>8, <1>9

LEMMA AnalyzeReviewTyped ==
  ASSUME SignalsInv, SignalsTyped, NEW r \in Loop, AnalyzeReview(r)
  PROVE  SignalsTyped'
<1>1. PICK o \in Opinion, was \in Columns, n \in Note :
        o = run[r].review /\ was = run[r].was /\ n = run[r].note
  BY InLoop DEF AnalyzeReview
<1>2. PICK now \in Analyses : PersistSentiment(o, was, now, <<o, n>>)
  BY <1>1 DEF AnalyzeReview
<1>3. <<o, n>> \in Snapshot
  BY <1>1, InLoop DEF AnalyzeReview, Snapshot
<1>4. DerivedTyped'
  BY <1>2, <1>3, PersistTyped DEF AnalyzeReview, SignalsTyped, DerivedTyped
<1>5. run' \in [Loop -> RunRecord] /\ \A p \in Loop : run'[p] = IF p = r THEN IdleRun ELSE run[p]
  BY NothingTyped, RunIsTyped DEF AnalyzeReview, RunEnds, SignalsTyped
<1>6. UNCHANGED <<script, erased, dubbed, queued, rows>>
  BY DEF AnalyzeReview, reviewRows
<1>7. \A p \in Loop : AsksWords(run[p])'
  BY <1>5, <1>6, NothingRuns DEF SignalsTyped, AsksWords
<1> QED BY <1>4, <1>5, <1>6, <1>7 DEF SignalsTyped, RowsTyped

LEMMA EmbedsTyped ==
  ASSUME SignalsInv, SignalsTyped, NEW r \in Loop, NEW o \in Opinion \cup {Unset}, NEW pc \in RunPc,
         RunIs(r, RunAt(pc, o)), pc # "ask", UNCHANGED <<reviewRows, script, derived>>
  PROVE  SignalsTyped'
<1>1. RunAt(pc, o) \in RunRecord
  BY RunAtTyped
<1>2. queued' \subseteq Opinion /\ missed' \subseteq Opinion \cup {TheDish}
  BY DEF reviewRows, derived, SignalsTyped, RowsTyped, DerivedTyped
<1> QED BY <1>1, <1>2, RunsElsewhere, RunsOnTyped DEF reviewRows, derived

LEMMA TextsTyped ==
  ASSUME SignalsInv, SignalsTyped, NEW r \in Loop, NEW o \in Opinion \cup {Unset}, NEW pc \in RunPc,
         NEW x \in DishText \cup {Unset},
         RunIs(r, [RunAt(pc, o) EXCEPT !.text = x]), pc # "ask", UNCHANGED <<reviewRows, script, derived>>
  PROVE  SignalsTyped'
<1>1. PICK q \in RunRecord : q = RunAt(pc, o)
  BY RunAtTyped
<1>2. [q EXCEPT !.text = x] \in RunRecord
  BY DEF RunRecord
<1>3. queued' \subseteq Opinion /\ missed' \subseteq Opinion \cup {TheDish}
  BY DEF reviewRows, derived, SignalsTyped, RowsTyped, DerivedTyped
<1>4. AsksWords([q EXCEPT !.text = x])
  BY <1>1, RunsElsewhere
<1> QED BY <1>1, <1>2, <1>3, <1>4, RunsOnTyped DEF reviewRows, derived

LEMMA DishLoopTyped ==
  ASSUME SignalsInv, SignalsTyped, NEW r \in Loop,
         EmbedReview(r) \/ BeginDishScript(r) \/ ReadDishText(r) \/ CompareHash(r)
  PROVE  SignalsTyped'
<1>1. PICK o \in Opinion \cup {Unset}, x \in DishText \cup {Unset} : o = run[r].review /\ x = run[r].text
  BY InLoop
<1>2. CASE EmbedReview(r)
  <2>1. PICK n \in Note : n = run[r].note
    BY InLoop
  <2>2. PICK q \in RunRecord : q = RunAt("dish", o)
    BY RunAtTyped DEF RunPc
  <2>3. [q EXCEPT !.note = n] \in RunRecord /\ RunIs(r, [q EXCEPT !.note = n])
    <3>1. [q EXCEPT !.note = n] \in RunRecord
      BY NoteHolds
    <3>2. RunIs(r, [q EXCEPT !.note = n])
      BY <1>1, <1>2, <2>1, <2>2 DEF EmbedReview
    <3> QED BY <3>1, <3>2
  <2>4. AsksWords([q EXCEPT !.note = n])
    BY <2>2, RunsAt DEF AsksWords
  <2>5. queued' \subseteq Opinion /\ missed' \subseteq Opinion \cup {TheDish}
    BY <1>2 DEF EmbedReview, reviewRows, derived, SignalsTyped, RowsTyped, DerivedTyped
  <2>6. UNCHANGED <<rows, script, erased, dubbed, heard, vector, torn, shifted>>
    BY <1>2 DEF EmbedReview, reviewRows, derived
  <2> QED BY <2>3, <2>4, <2>5, <2>6, RunsOnTyped
<1>3. CASE BeginDishScript(r)
  BY <1>3, EmbedsTyped DEF BeginDishScript, RunPc
<1>4. CASE ReadDishText(r)
  BY <1>1, <1>4, TextTyped, TextsTyped DEF ReadDishText, RunPc
<1>5. CASE CompareHash(r)
  <2>1. CASE RunEnds(r)
    <3>1. queued' \subseteq Opinion /\ missed' \subseteq Opinion \cup {TheDish}
      BY <1>5 DEF CompareHash, reviewRows, derived, SignalsTyped, RowsTyped, DerivedTyped
    <3>2. UNCHANGED <<rows, script, erased, dubbed, heard, vector, torn, shifted>>
      BY <1>5 DEF CompareHash, reviewRows, derived
    <3>3. AsksWords(IdleRun)
      BY NothingRuns DEF AsksWords
    <3> QED BY <2>1, <3>1, <3>2, <3>3, NothingTyped, RunsOnTyped DEF RunEnds
  <2>2. CASE RunIs(r, [RunAt("embed", o) EXCEPT !.text = x])
    BY <1>5, <2>2, TextsTyped DEF CompareHash, RunPc
  <2> QED BY <1>1, <1>5, <2>1, <2>2 DEF CompareHash
<1> QED BY <1>2, <1>3, <1>4, <1>5

LEMMA EmbedDishTyped ==
  ASSUME SignalsInv, SignalsTyped, NEW r \in Loop, EmbedDish(r)
  PROVE  SignalsTyped'
<1>1. DerivedTyped'
  BY InLoop DEF EmbedDish, SignalsTyped, DerivedTyped
<1>2. run' \in [Loop -> RunRecord] /\ \A p \in Loop : run'[p] = IF p = r THEN IdleRun ELSE run[p]
  BY NothingTyped, RunIsTyped DEF EmbedDish, RunEnds, SignalsTyped
<1>3. UNCHANGED <<script, erased, dubbed, queued, rows>>
  BY DEF EmbedDish, reviewRows
<1>4. \A p \in Loop : AsksWords(run[p])'
  BY <1>2, <1>3, NothingRuns DEF SignalsTyped, AsksWords
<1> QED BY <1>1, <1>2, <1>3, <1>4 DEF SignalsTyped, RowsTyped

(* Writes of reviews, and of the dish.                                      *)
LEMMA WritesTyped ==
  ASSUME SignalsInv, SignalsTyped, UNCHANGED <<rows, run, script>>, RowsTyped', DerivedTyped'
  PROVE  SignalsTyped'
BY DEF SignalsTyped, AsksWords

LEMMA WriteTyped ==
  ASSUME SignalsInv, SignalsTyped, NEW o \in Opinion,
         \/ \E n, how : StageReview(o, n, how)
         \/ CommitReview(o) \/ AbortReview(o) \/ DeleteOpinion(o)
  PROVE  SignalsTyped'
<1>1. RowsTyped /\ DerivedTyped /\ rows \in {"sentiment", "embed"} /\ Subject(o) \in Opinion \cup {TheDish}
  BY DEF SignalsTyped, SignalsInv, Subject
<1>2. CASE (\E n, how : StageReview(o, n, how)) \/ AbortReview(o)
  <2>1. UNCHANGED <<rows, run, script>> /\ RowsTyped' /\ DerivedTyped'
    BY <1>1, <1>2 DEF StageReview, AbortReview, derived, RowsTyped, DerivedTyped
  <2> QED BY <2>1, WritesTyped
<1>3. CASE CommitReview(o)
  <2>1. UNCHANGED <<rows, run, script>> /\ RowsTyped' /\ DerivedTyped'
    BY <1>1, <1>3 DEF CommitReview, RowsTyped, DerivedTyped
  <2> QED BY <2>1, WritesTyped
<1>4. CASE DeleteOpinion(o)
  <2>1. UNCHANGED <<rows, run, script>> /\ RowsTyped' /\ DerivedTyped'
    BY <1>1, <1>4, NothingTyped DEF DeleteOpinion, RowsTyped, DerivedTyped
  <2> QED BY <2>1, WritesTyped
<1> QED BY <1>2, <1>3, <1>4

LEMMA DubTyped ==
  ASSUME SignalsInv, SignalsTyped, NEW d \in Dubbing, DubDish(d)
  PROVE  SignalsTyped'
<1>1. UNCHANGED <<rows, run, script>> /\ RowsTyped' /\ DerivedTyped'
  BY DEF DubDish, SignalsTyped, RowsTyped, DerivedTyped
<1> QED BY <1>1, WritesTyped

(* The script.                                                              *)
LEMMA SomeOf ==
  ASSUME NEW l, SnapshotList(l), NEW kept \in SUBSET (DOMAIN l)
  PROVE  SnapshotList(Picked(l, kept))
<1>1. PICK n \in Nat : l \in [1..n -> Snapshot]
  BY DEF SnapshotList
<1>2. IsFiniteSet(kept) /\ kept \in SUBSET Nat
  <2>1. IsFiniteSet(1..n) /\ kept \subseteq 1..n /\ 1..n \subseteq Nat
    BY <1>1, FS_Interval
  <2> QED BY <2>1, FS_Subset
<1>3. /\ Cardinality(kept) \in Nat /\ Ascending(kept) \in [1..Cardinality(kept) -> kept]
  BY <1>2, AscendingIs
<1>4. Picked(l, kept) \in [1..Cardinality(kept) -> Snapshot]
  BY <1>1, <1>3 DEF Picked
<1> QED BY <1>3, <1>4 DEF SnapshotList

LEMMA TargetsTyped ==
  ASSUME SignalsInv, SignalsTyped, NEW again
  PROVE  SnapshotList(LoadTargets(again))
<1> DEFINE W == {o \in Opinion : note[o] \in Words /\ (again \/ heard[o].of = Unset)}
           s == [o \in Opinion |-> <<o, note[o]>>]
<1>1. W \subseteq Noted /\ \A o \in W : s[o] \in Snapshot
  BY DEF Noted, Snapshot
<1>2. IsFiniteSet(W) /\ W \in SUBSET Nat
  BY <1>1, FS_Subset DEF SignalsInv
<1>3. LoadTargets(again) = Picked(s, W)
  BY DEF LoadTargets
<1> HIDE DEF s, W
<1>4. Cardinality(W) \in Nat /\ Ascending(W) \in [1..Cardinality(W) -> W]
  BY <1>2, AscendingIs
<1>5. Picked(s, W) \in [1..Cardinality(W) -> Snapshot]
  BY <1>1, <1>4 DEF Picked
<1> QED BY <1>3, <1>4, <1>5 DEF SnapshotList

LEMMA ScriptGoesTyped ==
  ASSUME SignalsInv, SignalsTyped, ScriptRests, ScriptTyped(script')
  PROVE  SignalsTyped'
<1>1. UNCHANGED <<rows, run, erased, dubbed, queued, heard, vector, missed, torn, shifted>>
  BY DEF ScriptRests, reviewRows, derived
<1> QED BY <1>1 DEF SignalsTyped, RowsTyped, DerivedTyped, AsksWords, ScriptTyped, ScriptIs

LEMMA BeginsTyped ==
  ASSUME SignalsInv, SignalsTyped, NEW again, RunSync(again) \/ SubmitBatch(again)
  PROVE  SignalsTyped'
<1>1. PICK l : l = LoadTargets(again)
  OBVIOUS
<1>2. SnapshotList(l) /\ Unheard \in Columns
  BY <1>1, TargetsTyped, NothingTyped
<1>3. CASE RunSync(again)
  <2>1. script' = [NoScript EXCEPT !.pc = "walk", !.list = l, !.sent = l, !.left = DOMAIN l]
    BY <1>1, <1>3 DEF RunSync
  <2>2. ScriptTyped(script')
    BY <1>2, <2>1 DEF ScriptTyped, ScriptIs, NoScript
  <2> QED BY <1>3, <2>2, ScriptGoesTyped DEF RunSync
<1>4. CASE SubmitBatch(again)
  <2>1. script' = [NoScript EXCEPT !.pc = "wait", !.list = l, !.sent = l, !.again = again]
    BY <1>1, <1>4 DEF SubmitBatch
  <2>2. ScriptTyped(script')
    BY <1>2, <2>1 DEF ScriptTyped, ScriptIs, NoScript
  <2> QED BY <1>4, <2>2, ScriptGoesTyped DEF SubmitBatch
<1> QED BY <1>3, <1>4

LEMMA WaitsTyped ==
  ASSUME SignalsInv, SignalsTyped, StopWaiting \/ ResumeBatch
  PROVE  SignalsTyped'
<1>1. ScriptTyped(script) /\ SnapshotList(<<>>) /\ Unheard \in Columns
  BY NothingTyped DEF SignalsTyped
<1>2. CASE script' = NoScript /\ ScriptRests
  BY <1>2, NothingTyped, ScriptGoesTyped
<1>3. CASE script' = [NoScript EXCEPT !.sent = script.sent, !.again = script.again] /\ ScriptRests
  <2>1. ScriptTyped(script')
    BY <1>1, <1>3 DEF ScriptTyped, ScriptIs, NoScript
  <2> QED BY <1>3, <2>1, ScriptGoesTyped
<1>4. CASE ResumeBatch
  <2>1. PICK l : l = LoadTargets(script.again)
    OBVIOUS
  <2>2. script' = [script EXCEPT !.pc = "wait", !.list = l, !.resumed = TRUE]
    BY <1>4, <2>1 DEF ResumeBatch
  <2>3. SnapshotList(l)
    BY <2>1, TargetsTyped
  <2>4. ScriptTyped(script')
    BY <1>1, <2>2, <2>3 DEF ScriptTyped, ScriptIs
  <2> QED BY <1>4, <2>4, ScriptGoesTyped DEF ResumeBatch
<1> QED BY <1>2, <1>3, <1>4 DEF StopWaiting

LEMMA ConsumeTyped ==
  ASSUME SignalsInv, SignalsTyped, ConsumeBatch
  PROVE  SignalsTyped'
<1>1. ScriptTyped(script)
  BY DEF SignalsTyped
<1>2. CASE script' = NoScript
  BY <1>2, NothingTyped, ScriptGoesTyped DEF ConsumeBatch
<1>3. ASSUME NEW answers \in Replies(script.sent),
             script' = [script EXCEPT !.pc = "walk", !.sent = answers,
                                      !.left = DOMAIN script.list \cap DOMAIN answers]
      PROVE  SignalsTyped'
  <2>1. SnapshotList(answers)
    BY <1>1, SomeOf DEF Replies, ScriptTyped
  <2>2. PICK left : left = DOMAIN script.list \cap DOMAIN answers
    OBVIOUS
  <2>3. script' = [script EXCEPT !.pc = "walk", !.sent = answers, !.left = left]
    BY <1>3, <2>2
  <2>4. ScriptTyped(script')
    BY <1>1, <2>1, <2>2, <2>3 DEF ScriptTyped, ScriptIs
  <2> QED BY <2>4, ScriptGoesTyped DEF ConsumeBatch
<1> QED BY <1>2, <1>3 DEF ConsumeBatch

(* What is at a position of the script.                                     *)
LEMMA AtTyped ==
  ASSUME NEW l, SnapshotList(l), NEW i \in DOMAIN l
  PROVE  l[i] \in Snapshot /\ l[i][1] \in Opinion
BY DEF SnapshotList, Snapshot

LEMMA WalkOnTyped ==
  ASSUME SignalsInv, SignalsTyped, NEW i, WalkOn(i)
  PROVE  SignalsTyped'
<1>1. ScriptTyped(script) /\ script.pc = "walk" /\ i \in DOMAIN script.list \cap DOMAIN script.sent
  BY DEF SignalsTyped, ScriptTyped, WalkOn
<1>2. PICK left, w : left = script.left \ {i} /\ w = [heard[script.list[i][1]] EXCEPT !.of = Unset]
  OBVIOUS
<1>3. w \in Columns /\ left \subseteq script.left
  <2>1. script.list[i][1] \in Opinion
    BY <1>1, AtTyped DEF ScriptTyped
  <2>2. heard[script.list[i][1]] \in Columns
    BY <2>1 DEF SignalsTyped, DerivedTyped
  <2> QED BY <1>2, <2>2, ColumnsKept
<1>4. CASE script' = [script EXCEPT !.left = left]
  <2>1. ScriptTyped(script')
    BY <1>1, <1>3, <1>4 DEF ScriptTyped, ScriptIs
  <2> QED BY <2>1, ScriptGoesTyped DEF WalkOn
<1>5. CASE script' = [script EXCEPT !.pc = "write", !.at = i, !.left = left, !.was = w]
  <2>1. ScriptTyped(script')
    BY <1>1, <1>3, <1>5 DEF ScriptTyped, ScriptIs
  <2> QED BY <2>1, ScriptGoesTyped DEF WalkOn
<1> QED BY <1>2, <1>4, <1>5 DEF WalkOn

LEMMA PersistResultTyped ==
  ASSUME SignalsInv, SignalsTyped, PersistResult
  PROVE  SignalsTyped'
<1>1. ScriptTyped(script) /\ script.pc = "write" /\ script.at \in DOMAIN script.list \cap DOMAIN script.sent
  BY DEF SignalsTyped, ScriptTyped, PersistResult
<1>2. PICK o \in Opinion, of \in Snapshot, was \in Columns :
        o = script.list[script.at][1] /\ of = script.sent[script.at] /\ was = script.was
  BY <1>1, AtTyped DEF ScriptTyped
<1>3. DerivedTyped'
  <2>1. CASE \E now \in Analyses : PersistSentiment(o, was, now, of)
    <3>1. shifted' \subseteq Opinion
      BY <1>2 DEF PersistResult, SignalsTyped, DerivedTyped
    <3> QED BY <2>1, <3>1, PersistTyped DEF PersistResult, SignalsTyped, DerivedTyped
  <2>2. CASE UNCHANGED <<heard, torn, missed, shifted>>
    BY <2>2 DEF PersistResult, SignalsTyped, DerivedTyped
  <2> QED BY <1>2, <2>1, <2>2 DEF PersistResult
<1>4. ScriptTyped(script')
  <2>1. script' = [script EXCEPT !.pc = "walk", !.at = 0, !.was = Unheard]
    BY DEF PersistResult
  <2> QED BY <1>1, <2>1, NothingTyped DEF ScriptTyped, ScriptIs
<1>5. UNCHANGED <<rows, run, erased, dubbed, queued>>
  BY DEF PersistResult, reviewRows
<1> QED BY <1>3, <1>4, <1>5 DEF SignalsTyped, RowsTyped, AsksWords, ScriptTyped, ScriptIs

LEMMA TypedStep ==
  ASSUME SignalsInv, SignalsTyped, [SignalsNext]_signalVars
  PROVE  SignalsTyped'
<1>1. CASE WriteNext(Opinion, Note)
  BY <1>1, WriteTyped DEF WriteNext
<1>2. CASE LoopNext
  BY <1>2, TakeRowTyped, LoadReviewTyped, LoseRunTyped, RetryRunTyped, AnalyzeReviewTyped,
     DishLoopTyped, EmbedDishTyped DEF LoopNext
<1>3. CASE SyncNext
  <2>1. CASE WalkEnds
    BY <2>1, NothingTyped, ScriptGoesTyped DEF WalkEnds
  <2> QED BY <1>3, <2>1, BeginsTyped, WalkOnTyped, PersistResultTyped, WaitsTyped DEF SyncNext
<1>4. CASE BatchNext
  BY <1>4, BeginsTyped, WaitsTyped, ConsumeTyped DEF BatchNext
<1>5. CASE \E d \in Dubbing : DubDish(d)
  BY <1>5, DubTyped
<1>6. CASE UNCHANGED signalVars
  BY <1>6 DEF signalVars, SignalsTyped, RowsTyped, DerivedTyped, AsksWords, ScriptTyped, ScriptIs
<1> QED BY <1>1, <1>2, <1>3, <1>4, <1>5, <1>6 DEF SignalsNext

(* Loops, the script and what is derived keep their types.                  *)
THEOREM SignalsTypesHold == SignalsSpec => []SignalsTypeOK
<1>1. SignalsInit => SignalsTyped
  BY TypedStart
<1>2. SignalsInv /\ SignalsTyped /\ [SignalsNext]_signalVars => SignalsTyped'
  BY TypedStep
<1> QED BY <1>1, <1>2, SignalsInvariant, SignalsTypesAre, PTL DEF SignalsSpec

HIDE SignalsAssumption

------------------------------------------------------------------------------
(* Reminders.                                                               *)

RecallRow == [status : {"none", "pending", "running", "done", "failed"},
              dish : Dish \cup {NoDish}, due : BOOLEAN, recent : BOOLEAN]
RunnerRow == [pc : {"rest", "review", "notice", "guard", "dish", "insert", "done"},
              job : Recall \cup {NoDish}, dish : Dish \cup {NoDish}, changed : BOOLEAN]

(* Every row is of a dish that is there; one is pending of it, or else it   *)
(* is in one turn's hands.                                                  *)
RowKnows(p) == p.dish = NoDish => p = NoRecall
RowsStand ==
  /\ \A j \in Recall : RowKnows(recall[j]) /\ (recall[j].dish # NoDish => recall[j].dish \in served)
  /\ \A t \in Tip : tip[t] \subseteq served
RowsApart ==
  /\ \A i, j \in Recall : recall[i].status = "pending" /\ recall[j].status = "pending"
                          /\ recall[i].dish = recall[j].dish => i = j
  /\ \A s, t \in Tip, d \in Dish : d \in tip[s] /\ d \in tip[t] => s = t
  /\ \A t \in Tip, j \in Recall : recall[j].status = "pending" => recall[j].dish \notin tip[t]

(* What a run has read still holds unless something changed.                *)
RunnerStage(q) ==
  /\ q.pc = "rest" <=> q.dish = NoDish
  /\ q.pc # "rest" => q.job \in Recall
RunnerKnows(q) ==
  /\ q.pc # "rest" /\ q.dish \in served => recall[q.job].dish = q.dish
  /\ q.pc \in {"guard", "dish", "insert"} /\ notified[q.dish] > 0 => q.dish \in overlapped
  /\ q.pc \in {"notice", "guard", "dish", "insert"} /\ q.dish \in reviewed => q.changed
  /\ q.pc \in {"dish", "insert"} /\ silenced => q.changed
RunnersApart ==
  \A u, w \in Runner : u # w /\ runner[u].dish = runner[w].dish /\ runner[w].dish # NoDish =>
    runner[w].dish \in overlapped

RecallInv ==
  /\ served \subseteq Dish /\ reviewed \subseteq served /\ silenced \in BOOLEAN
  /\ recall \in [Recall -> RecallRow] /\ notified \in [Dish -> Nat]
  /\ tip \in [Tip -> SUBSET Dish] /\ runner \in [Runner -> RunnerRow]
  /\ RowsStand /\ RowsApart /\ RunnersApart
  /\ \A w \in Runner : RunnerStage(runner[w]) /\ RunnerKnows(runner[w])
  /\ \A d \in Dish : notified[d] > 1 => d \in overlapped

USE RecallAssumption

LEMMA RecallRests ==
  /\ NoRecall \in RecallRow /\ NoRecall.dish = NoDish /\ NoRecall.status = "none" /\ ~NoRecall.recent
  /\ Resting \in RunnerRow /\ Resting.pc = "rest" /\ Resting.dish = NoDish /\ Resting.job = NoDish
  /\ RunnerStage(Resting)
BY DEF NoRecall, RecallRow, Resting, RunnerRow, RunnerStage

LEMMA RecallStarts == RecallInit => RecallInv
<1> SUFFICES ASSUME RecallInit PROVE RecallInv
  OBVIOUS
<1>1. /\ recall \in [Recall -> RecallRow] /\ notified \in [Dish -> Nat]
      /\ tip \in [Tip -> SUBSET Dish] /\ runner \in [Runner -> RunnerRow]
  BY RecallRests DEF RecallInit
<1>2. RowsStand /\ RowsApart /\ RunnersApart
  BY RecallRests DEF RecallInit, RowsStand, RowsApart, RunnersApart, RowKnows
<1>3. \A w \in Runner : RunnerStage(runner[w]) /\ RunnerKnows(runner[w])
  BY RecallRests DEF RecallInit, RunnerStage, RunnerKnows
<1>4. \A d \in Dish : notified[d] = 0
  BY DEF RecallInit
<1>5. \A d \in Dish : ~(notified[d] > 1)
  BY <1>4
<1>6. served \subseteq Dish /\ reviewed \subseteq served /\ silenced \in BOOLEAN
  BY DEF RecallInit
<1> QED BY <1>1, <1>2, <1>3, <1>5, <1>6 DEF RecallInv

LEMMA InRecall ==
  ASSUME RecallInv
  PROVE  /\ \A j \in Recall : recall[j] \in RecallRow /\ RowKnows(recall[j])
         /\ \A j \in Recall : recall[j].dish # NoDish => recall[j].dish \in served
         /\ \A w \in Runner : runner[w] \in RunnerRow /\ RunnerStage(runner[w]) /\ RunnerKnows(runner[w])
         /\ \A w \in Runner : runner[w].pc # "rest" => runner[w].dish \in Dish /\ runner[w].job \in Recall
BY DEF RecallInv, RowsStand, RunnerRow, RunnerStage

LEMMA RecommendKeeps ==
  ASSUME RecallInv, NEW t \in Tip, NEW d \in Dish, Recommend(t, d)
  PROVE  RecallInv'
<1>1. /\ UNCHANGED served /\ UNCHANGED reviewed /\ UNCHANGED silenced /\ UNCHANGED recall
      /\ UNCHANGED notified /\ UNCHANGED runner /\ UNCHANGED overlapped
      /\ d \in served /\ d # NoDish
  BY DEF Recommend
<1>2. /\ tip' \in [Tip -> SUBSET Dish]
      /\ \A s \in Tip : tip'[s] = IF s = t THEN tip[s] \cup {d} ELSE tip[s]
  BY DEF Recommend, RecallInv
<1>3. /\ \A s \in Tip : d \notin tip[s]
      /\ \A j \in Recall : recall[j].status = "pending" => recall[j].dish # d
  BY DEF Recommend, PendingRecall, Queued
<1>4. RowsStand' /\ RowsApart'
  BY <1>1, <1>2, <1>3 DEF RecallInv, RowsStand, RowsApart
<1>5. RunnersApart' /\ \A w \in Runner : RunnerKnows(runner[w])'
  BY <1>1 DEF RecallInv, RunnersApart, RunnerKnows
<1> QED BY <1>1, <1>2, <1>4, <1>5 DEF RecallInv

LEMMA CutTipKeeps ==
  ASSUME RecallInv, NEW t \in Tip, CutTip(t)
  PROVE  RecallInv'
<1>1. /\ UNCHANGED served /\ UNCHANGED reviewed /\ UNCHANGED silenced /\ UNCHANGED recall
      /\ UNCHANGED notified /\ UNCHANGED runner /\ UNCHANGED overlapped
  BY DEF CutTip
<1>2. /\ tip' \in [Tip -> SUBSET Dish]
      /\ \A s \in Tip : tip'[s] = IF s = t THEN {} ELSE tip[s]
  BY DEF CutTip, RecallInv
<1>3. RowsStand'
  BY <1>1, <1>2 DEF RecallInv, RowsStand
<1>4. RowsApart'
  BY <1>1, <1>2 DEF RecallInv, RowsApart
<1>5. RunnersApart' /\ \A w \in Runner : RunnerKnows(runner[w])'
  BY <1>1 DEF RecallInv, RunnersApart, RunnerKnows
<1> QED BY <1>1, <1>2, <1>3, <1>4, <1>5 DEF RecallInv

(* A row is written as that of a dish that is there.                        *)
LEMMA RowWritten ==
  ASSUME RecallInv, NEW j \in Recall, NEW p \in RecallRow, recall' = [recall EXCEPT ![j] = p]
  PROVE  /\ recall' \in [Recall -> RecallRow]
         /\ \A i \in Recall : recall'[i] = IF i = j THEN p ELSE recall[i]
BY DEF RecallInv

(* A turn that commits writes each of its dishes into a row of its own.     *)
LEMMA TipCommitted ==
  ASSUME RecallInv, NEW t \in Tip, NEW row \in [tip[t] -> Recall], CommitTip(t, row)
  PROVE  /\ recall' \in [Recall -> RecallRow]
         /\ \A d \in tip[t] : /\ d \in Dish /\ d \in served /\ recall[row[d]] = NoRecall
                              /\ recall'[row[d]].status = "pending" /\ recall'[row[d]].dish = d
                              /\ \A w \in Runner : runner[w].job # row[d]
         /\ \A i \in Recall : recall'[i] = recall[i] \/ \E d \in tip[t] : row[d] = i
<1>1. PICK mine : mine = [j \in Recall |-> CHOOSE d \in tip[t] : row[d] = j]
  OBVIOUS
<1>2. tip[t] \subseteq served /\ served \subseteq Dish
  BY DEF RecallInv, RowsStand
<1>3. \A d \in tip[t] : mine[row[d]] = d
  <2> SUFFICES ASSUME NEW d \in tip[t] PROVE mine[row[d]] = d
    OBVIOUS
  <2>1. mine[row[d]] \in tip[t] /\ row[mine[row[d]]] = row[d]
    BY <1>1
  <2>2. \A a, b \in tip[t] : row[a] = row[b] => a = b
    BY DEF CommitTip, IsInjective
  <2> QED BY <2>1, <2>2
<1>4. PICK new : new = [j \in Recall |-> [status |-> "pending", dish |-> mine[j], due |-> FALSE, recent |-> TRUE]]
  OBVIOUS
<1>5. recall' = [j \in Recall |-> IF \E d \in tip[t] : row[d] = j THEN new[j] ELSE recall[j]]
  BY <1>1, <1>4 DEF CommitTip
<1>6. \A d \in tip[t] : new[row[d]] \in RecallRow /\ new[row[d]].status = "pending" /\ new[row[d]].dish = d
  BY <1>2, <1>3, <1>4 DEF RecallRow
<1>7. \A j \in Recall : recall'[j] \in RecallRow
  BY <1>5, <1>6, InRecall
<1>8. recall' \in [Recall -> RecallRow]
  BY <1>5, <1>7
<1>9. \A d \in tip[t] : recall'[row[d]] = new[row[d]]
  BY <1>5
<1>10. \A d \in tip[t] : recall[row[d]] = NoRecall /\ \A w \in Runner : runner[w].job # row[d]
  BY DEF CommitTip
<1> QED BY <1>2, <1>5, <1>6, <1>8, <1>9, <1>10

LEMMA CommitTipKeeps ==
  ASSUME RecallInv, NEW t \in Tip, NEW row \in [tip[t] -> Recall], CommitTip(t, row)
  PROVE  RecallInv'
<1>1. /\ UNCHANGED served /\ UNCHANGED reviewed /\ UNCHANGED silenced
      /\ UNCHANGED notified /\ UNCHANGED runner /\ UNCHANGED overlapped
  BY DEF CommitTip
<1>2. /\ tip' \in [Tip -> SUBSET Dish]
      /\ \A s \in Tip : tip'[s] = IF s = t THEN {} ELSE tip[s]
  BY DEF CommitTip, RecallInv
<1>3. \A i \in Recall : \/ recall'[i] = recall[i]
                        \/ /\ recall'[i].status = "pending" /\ recall'[i].dish \in tip[t]
                           /\ recall'[i].dish \in served /\ recall'[i].dish \in Dish
                           /\ row[recall'[i].dish] = i /\ recall[i] = NoRecall
                           /\ \A w \in Runner : runner[w].job # i
  BY TipCommitted
<1>4. RowsStand'
  BY <1>1, <1>2, <1>3, RecallAssumption DEF RecallInv, RowsStand, RowKnows
<1>5. RowsApart'
  <2>1. \A i \in Recall : recall[i].status = "pending" => recall[i].dish \notin tip[t]
    BY DEF RecallInv, RowsApart
  <2>2. \A i, j \in Recall : recall'[i].status = "pending" /\ recall'[j].status = "pending"
                             /\ recall'[i].dish = recall'[j].dish => i = j
    BY <1>3, <2>1 DEF RecallInv, RowsApart
  <2>3. \A s \in Tip, j \in Recall : recall'[j].status = "pending" => recall'[j].dish \notin tip'[s]
    BY <1>2, <1>3 DEF RecallInv, RowsApart
  <2>4. \A s, u \in Tip, d \in Dish : d \in tip'[s] /\ d \in tip'[u] => s = u
    BY <1>2 DEF RecallInv, RowsApart
  <2> QED BY <2>2, <2>3, <2>4 DEF RowsApart
<1>6. RunnersApart' /\ \A w \in Runner : RunnerKnows(runner[w])'
  BY <1>1, <1>3, InRecall DEF RecallInv, RunnersApart, RunnerKnows
<1>7. recall' \in [Recall -> RecallRow]
  BY TipCommitted
<1> QED BY <1>1, <1>2, <1>4, <1>5, <1>6, <1>7 DEF RecallInv

(* Only when rows are due, or looked back to, changes.                      *)
LEMMA RecallTimes ==
  ASSUME RecallInv, NEW j \in Recall, NEW p \in RecallRow, recall' = [recall EXCEPT ![j] = p],
         p.status = recall[j].status, p.dish = recall[j].dish, recall[j].dish # NoDish,
         UNCHANGED <<served, reviewed, silenced, notified, tip, runner, overlapped>>
  PROVE  RecallInv'
<1>1. /\ UNCHANGED served /\ UNCHANGED reviewed /\ UNCHANGED silenced /\ UNCHANGED tip
      /\ UNCHANGED notified /\ UNCHANGED runner /\ UNCHANGED overlapped
  OBVIOUS
<1>2. /\ recall' \in [Recall -> RecallRow]
      /\ \A i \in Recall : recall'[i] = IF i = j THEN p ELSE recall[i]
  BY RowWritten
<1>3. RowsStand' /\ RowsApart'
  BY <1>1, <1>2 DEF RecallInv, RowsStand, RowsApart, RowKnows
<1>4. RunnersApart' /\ \A w \in Runner : RunnerKnows(runner[w])'
  BY <1>1, <1>2, InRecall DEF RecallInv, RunnersApart, RunnerKnows
<1> QED BY <1>1, <1>2, <1>3, <1>4 DEF RecallInv

LEMMA RecallTimesPass ==
  ASSUME RecallInv, NEW j \in Recall, RecallFallsDue(j) \/ RecallAges(j)
  PROVE  RecallInv'
<1>1. recall[j] \in RecallRow /\ recall[j].dish # NoDish
  BY InRecall, RecallRests DEF RecallFallsDue, RecallAges, RowKnows
<1>2. CASE RecallFallsDue(j)
  <2>1. PICK p : p = [recall[j] EXCEPT !.due = TRUE]
    OBVIOUS
  <2>2. p \in RecallRow /\ p.status = recall[j].status /\ p.dish = recall[j].dish
    BY <1>1, <2>1 DEF RecallRow
  <2>3. recall' = [recall EXCEPT ![j] = p]
    BY <1>2, <2>1 DEF RecallFallsDue
  <2> QED BY <1>1, <1>2, <2>2, <2>3, RecallTimes DEF RecallFallsDue
<1>3. CASE RecallAges(j)
  <2>1. PICK p : p = [recall[j] EXCEPT !.recent = FALSE]
    OBVIOUS
  <2>2. p \in RecallRow /\ p.status = recall[j].status /\ p.dish = recall[j].dish
    BY <1>1, <2>1 DEF RecallRow
  <2>3. recall' = [recall EXCEPT ![j] = p]
    BY <1>3, <2>1 DEF RecallAges
  <2> QED BY <1>1, <1>3, <2>2, <2>3, RecallTimes DEF RecallAges
<1> QED BY <1>2, <1>3

LEMMA ReviewDishKeeps ==
  ASSUME RecallInv, NEW d \in Dish, NEW now, ReviewDish(d, now)
  PROVE  RecallInv'
<1>1. /\ UNCHANGED served /\ UNCHANGED silenced /\ UNCHANGED tip /\ UNCHANGED recall
      /\ UNCHANGED notified /\ UNCHANGED overlapped
      /\ reviewed' \subseteq reviewed \cup {d} /\ d \in served
  BY DEF ReviewDish
<1>2. ASSUME NEW w \in Runner
      PROVE  /\ runner'[w] \in RunnerRow /\ runner'[w].pc = runner[w].pc /\ runner'[w].job = runner[w].job
             /\ runner'[w].dish = runner[w].dish
             /\ runner[w].changed \/ runner[w].dish = d => runner'[w].changed
  <2>1. runner'[w] = IF runner[w].dish = d THEN [runner[w] EXCEPT !.changed = TRUE] ELSE runner[w]
    BY DEF ReviewDish, Changed
  <2> QED BY <2>1, InRecall DEF RunnerRow
<1>3. runner' \in [Runner -> RunnerRow]
  <2>1. runner' = [w \in Runner |-> runner'[w]]
    BY DEF ReviewDish, Changed
  <2> QED BY <1>2, <2>1
<1>4. RowsStand' /\ RowsApart'
  BY <1>1 DEF RecallInv, RowsStand, RowsApart
<1>5. RunnersApart' /\ \A w \in Runner : RunnerStage(runner[w])' /\ RunnerKnows(runner[w])'
  BY <1>1, <1>2 DEF RecallInv, RunnersApart, RunnerStage, RunnerKnows
<1> QED BY <1>1, <1>3, <1>4, <1>5 DEF RecallInv

LEMMA SilenceBotKeeps ==
  ASSUME RecallInv, SilenceBot
  PROVE  RecallInv'
<1>1. /\ UNCHANGED served /\ UNCHANGED reviewed /\ UNCHANGED tip /\ UNCHANGED recall
      /\ UNCHANGED notified /\ UNCHANGED overlapped /\ silenced' \in BOOLEAN
  BY DEF SilenceBot, RecallInv
<1>2. ASSUME NEW w \in Runner
      PROVE  /\ runner'[w] \in RunnerRow /\ runner'[w].pc = runner[w].pc /\ runner'[w].job = runner[w].job
             /\ runner'[w].dish = runner[w].dish
             /\ runner[w].changed \/ runner[w].pc # "rest" => runner'[w].changed
  <2>1. runner'[w] = IF RunnerAt(w, "rest") THEN runner[w] ELSE [runner[w] EXCEPT !.changed = TRUE]
    BY DEF SilenceBot
  <2> QED BY <2>1, InRecall DEF RunnerRow, RunnerAt
<1>3. runner' \in [Runner -> RunnerRow]
  <2>1. runner' = [w \in Runner |-> runner'[w]]
    BY DEF SilenceBot
  <2> QED BY <1>2, <2>1
<1>4. RowsStand' /\ RowsApart'
  BY <1>1 DEF RecallInv, RowsStand, RowsApart
<1>5. RunnersApart' /\ \A w \in Runner : RunnerStage(runner[w])' /\ RunnerKnows(runner[w])'
  BY <1>1, <1>2 DEF RecallInv, RunnersApart, RunnerStage, RunnerKnows
<1> QED BY <1>1, <1>3, <1>4, <1>5 DEF RecallInv

LEMMA DeleteDishKeeps ==
  ASSUME RecallInv, NEW d \in Dish, DeleteDish(d)
  PROVE  RecallInv'
<1>1. /\ UNCHANGED silenced /\ UNCHANGED tip /\ UNCHANGED runner /\ UNCHANGED overlapped
      /\ served' = served \ {d} /\ reviewed' = reviewed \ {d}
      /\ \A t \in Tip : d \notin tip[t]
  BY DEF DeleteDish, Queued
<1>2. /\ recall' \in [Recall -> RecallRow]
      /\ \A i \in Recall : recall'[i] = IF recall[i].dish = d THEN NoRecall ELSE recall[i]
  BY RecallRests DEF DeleteDish, RecallInv
<1>3. /\ notified' \in [Dish -> Nat]
      /\ \A e \in Dish : notified'[e] = IF e = d THEN 0 ELSE notified[e]
  BY DEF DeleteDish, RecallInv
<1>4. RowsStand'
  BY <1>1, <1>2, RecallRests DEF RecallInv, RowsStand, RowKnows
<1>5. RowsApart'
  BY <1>1, <1>2, RecallRests DEF RecallInv, RowsApart
<1>6. RunnersApart'
  BY <1>1 DEF RecallInv, RunnersApart
<1>7. ASSUME NEW w \in Runner PROVE RunnerKnows(runner[w])'
  <2>1. RunnerKnows(runner[w]) /\ (runner[w].pc # "rest" => runner[w].dish \in Dish /\ runner[w].job \in Recall)
    BY InRecall
  <2>2. ~(0 > 0)
    OBVIOUS
  <2> QED BY <1>1, <1>2, <1>3, <2>1, <2>2 DEF RunnerKnows
<1>8. \A e \in Dish : notified'[e] > 1 => e \in overlapped'
  BY <1>1, <1>3 DEF RecallInv
<1> QED BY <1>1, <1>2, <1>3, <1>4, <1>5, <1>6, <1>7, <1>8 DEF RecallInv

------------------------------------------------------------------------------
(* The worker.                                                              *)
LEMMA RunnerMoves ==
  ASSUME RecallInv, NEW w \in Runner, NEW q \in RunnerRow, runner' = [runner EXCEPT ![w] = q],
         RunnerStage(q)
  PROVE  /\ runner' \in [Runner -> RunnerRow]
         /\ \A u \in Runner : runner'[u] = IF u = w THEN q ELSE runner[u]
         /\ \A u \in Runner : RunnerStage(runner'[u])
BY DEF RecallInv

LEMMA TakeRecallKeeps ==
  ASSUME RecallInv, NEW w \in Runner, NEW j \in Recall, TakeRecall(w, j)
  PROVE  RecallInv'
<1>1. /\ UNCHANGED served /\ UNCHANGED reviewed /\ UNCHANGED silenced /\ UNCHANGED tip
      /\ UNCHANGED notified /\ recall[j].status = "pending"
  BY DEF TakeRecall
<1>2. PICK d : d = recall[j].dish
  OBVIOUS
<1>3. d # NoDish /\ d \in Dish /\ d \in served
  BY <1>1, <1>2, InRecall, RecallRests DEF RowKnows, RecallInv
<1>4. PICK p : p = [recall[j] EXCEPT !.status = "running"]
  OBVIOUS
<1>5. p \in RecallRow /\ p.status = "running" /\ p.dish = d
  BY <1>2, <1>4, InRecall DEF RecallRow
<1>6. /\ recall' \in [Recall -> RecallRow]
      /\ \A i \in Recall : recall'[i] = IF i = j THEN p ELSE recall[i]
  <2>1. recall' = [recall EXCEPT ![j] = p]
    BY <1>4 DEF TakeRecall
  <2> QED BY <1>5, <2>1, RowWritten
<1>7. PICK q : q = [pc |-> "review", job |-> j, dish |-> d, changed |-> FALSE]
  OBVIOUS
<1>8. q \in RunnerRow /\ q.pc = "review" /\ q.job = j /\ q.dish = d /\ RunnerStage(q)
  BY <1>3, <1>7 DEF RunnerRow, RunnerStage
<1>9. /\ runner' \in [Runner -> RunnerRow]
      /\ \A u \in Runner : runner'[u] = IF u = w THEN q ELSE runner[u]
      /\ \A u \in Runner : RunnerStage(runner'[u])
  <2>1. runner' = [runner EXCEPT ![w] = q]
    BY <1>2, <1>7 DEF TakeRecall
  <2> QED BY <1>8, <2>1, RunnerMoves
<1>10. /\ overlapped \subseteq overlapped'
       /\ (\E u \in Runner : runner[u].dish = d) => d \in overlapped'
  BY <1>2 DEF TakeRecall
<1>11. RowsStand' /\ RowsApart'
  BY <1>1, <1>2, <1>3, <1>5, <1>6 DEF RecallInv, RowsStand, RowsApart, RowKnows
<1>12. RunnersApart'
  BY <1>8, <1>9, <1>10 DEF RecallInv, RunnersApart
<1>13. ASSUME NEW u \in Runner PROVE RunnerKnows(runner[u])'
  <2>1. RunnerKnows(runner[u])
    BY InRecall
  <2>2. \A i \in Recall : recall'[i].dish = recall[i].dish
    BY <1>2, <1>5, <1>6
  <2> QED BY <1>1, <1>5, <1>6, <1>8, <1>9, <1>10, <2>1, <2>2, InRecall DEF RunnerKnows
<1>14. \A e \in Dish : notified'[e] > 1 => e \in overlapped'
  BY <1>1, <1>10 DEF RecallInv
<1> QED BY <1>1, <1>6, <1>9, <1>11, <1>12, <1>13, <1>14 DEF RecallInv

(* A run goes on with what it has read.                                     *)
LEMMA RunnerReads ==
  ASSUME RecallInv, NEW w \in Runner, NEW q \in RunnerRow, runner' = [runner EXCEPT ![w] = q],
         runner[w].pc # "rest", q.pc # "rest", q.job = runner[w].job, q.dish = runner[w].dish,
         q.pc \in {"guard", "dish", "insert"} /\ notified[q.dish] > 0 => q.dish \in overlapped,
         q.pc \in {"notice", "guard", "dish", "insert"} /\ q.dish \in reviewed => q.changed,
         q.pc \in {"dish", "insert"} /\ silenced => q.changed,
         UNCHANGED <<served, reviewed, silenced, recall, notified, tip, overlapped>>
  PROVE  RecallInv'
<1>1. /\ UNCHANGED served /\ UNCHANGED reviewed /\ UNCHANGED silenced /\ UNCHANGED tip
      /\ UNCHANGED recall /\ UNCHANGED notified /\ UNCHANGED overlapped
  OBVIOUS
<1>2. RunnerStage(q)
  BY InRecall DEF RunnerStage
<1>3. /\ runner' \in [Runner -> RunnerRow]
      /\ \A u \in Runner : runner'[u] = IF u = w THEN q ELSE runner[u]
      /\ \A u \in Runner : RunnerStage(runner'[u])
  BY <1>2, RunnerMoves
<1>4. RowsStand' /\ RowsApart'
  BY <1>1 DEF RecallInv, RowsStand, RowsApart
<1>5. RunnersApart'
  BY <1>1, <1>3 DEF RecallInv, RunnersApart
<1>6. \A u \in Runner : RunnerKnows(runner[u])'
  BY <1>1, <1>3, InRecall DEF RunnerKnows
<1> QED BY <1>1, <1>3, <1>4, <1>5, <1>6 DEF RecallInv

RunOnTo(q, pc) == [q EXCEPT !.pc = pc]

LEMMA RunOnToIs ==
  ASSUME NEW q \in RunnerRow,
         NEW pc \in {"rest", "review", "notice", "guard", "dish", "insert", "done"}
  PROVE  /\ RunOnTo(q, pc) \in RunnerRow /\ RunOnTo(q, pc).pc = pc /\ RunOnTo(q, pc).job = q.job
         /\ RunOnTo(q, pc).dish = q.dish /\ RunOnTo(q, pc).changed = q.changed
BY DEF RunnerRow, RunOnTo

LEMMA RunnerGoesKeeps ==
  ASSUME RecallInv, NEW w \in Runner, NEW from, NEW stop \in BOOLEAN, NEW on, RunnerGoes(w, from, stop, on),
         \/ from = "review" /\ on = "notice" /\ (stop <=> runner[w].dish \in reviewed)
         \/ from = "notice" /\ on = "guard" /\ (stop <=> AlreadyTold(w))
         \/ from = "guard" /\ on = "dish" /\ (stop <=> silenced)
         \/ from = "dish" /\ on = "insert"
  PROVE  RecallInv'
<1>1. PICK pc : pc = IF stop THEN "done" ELSE on
  OBVIOUS
<1>2. pc \in {"rest", "review", "notice", "guard", "dish", "insert", "done"} /\ pc # "rest"
  BY <1>1
<1>3. PICK q : q = RunOnTo(runner[w], pc)
  OBVIOUS
<1>4. /\ q \in RunnerRow /\ q.pc = pc /\ q.job = runner[w].job /\ q.dish = runner[w].dish
      /\ q.changed = runner[w].changed
  BY <1>2, <1>3, InRecall, RunOnToIs
<1>5. runner' = [runner EXCEPT ![w] = q]
  BY <1>1, <1>3 DEF RunnerGoes, RunOnTo
<1>6. /\ UNCHANGED <<served, reviewed, silenced, recall, notified, tip, overlapped>>
      /\ runner[w].pc = from
  BY DEF RunnerGoes, RunnerAt
<1>7. runner[w].pc # "rest" /\ RunnerKnows(runner[w])
  BY <1>6, InRecall
<1>8. q.pc \in {"guard", "dish", "insert"} /\ notified[q.dish] > 0 => q.dish \in overlapped
  BY <1>1, <1>4, <1>6, <1>7 DEF RunnerKnows, AlreadyTold
<1>9. q.pc \in {"notice", "guard", "dish", "insert"} /\ q.dish \in reviewed => q.changed
  BY <1>1, <1>4, <1>6, <1>7 DEF RunnerKnows
<1>10. q.pc \in {"dish", "insert"} /\ silenced => q.changed
  BY <1>1, <1>4, <1>6, <1>7 DEF RunnerKnows
<1> QED BY <1>2, <1>4, <1>5, <1>6, <1>7, <1>8, <1>9, <1>10, RunnerReads

LEMMA RunnerRests ==
  ASSUME RecallInv, NEW w \in Runner, runner' = [runner EXCEPT ![w] = Resting]
  PROVE  /\ runner' \in [Runner -> RunnerRow]
         /\ \A u \in Runner : runner'[u] = IF u = w THEN Resting ELSE runner[u]
         /\ \A u \in Runner : RunnerStage(runner'[u])
BY RecallRests, RunnerMoves

LEMMA FinishRecallKeeps ==
  ASSUME RecallInv, NEW w \in Runner, FinishRecall(w)
  PROVE  RecallInv'
<1>1. PICK q : q = runner[w]
  OBVIOUS
<1>2. /\ q \in RunnerRow /\ q.pc \in {"insert", "done"} /\ RunnerKnows(q)
      /\ q.dish \in Dish /\ q.job \in Recall /\ q.dish # NoDish
  BY <1>1, InRecall DEF FinishRecall
<1>3. /\ UNCHANGED served /\ UNCHANGED reviewed /\ UNCHANGED silenced /\ UNCHANGED tip
      /\ UNCHANGED overlapped /\ runner' = [runner EXCEPT ![w] = Resting]
  BY DEF FinishRecall
<1>4. /\ runner' \in [Runner -> RunnerRow]
      /\ \A u \in Runner : runner'[u] = IF u = w THEN Resting ELSE runner[u]
      /\ \A u \in Runner : RunnerStage(runner'[u])
  BY <1>3, RunnerRests
<1>5. RunnersApart'
  BY <1>3, <1>4, RecallRests DEF RecallInv, RunnersApart
<1>6. CASE q.dish \in served
  <2>1. PICK n : n = IF q.pc = "insert" THEN notified[q.dish] + 1 ELSE notified[q.dish]
    OBVIOUS
  <2>2. PICK p : p = [recall[q.job] EXCEPT !.status = "done"]
    OBVIOUS
  <2>3. p \in RecallRow /\ p.status = "done" /\ p.dish = recall[q.job].dish
    BY <1>2, <2>2, InRecall DEF RecallRow
  <2>4. p.dish = q.dish
    BY <1>2, <1>6, <2>3 DEF RunnerKnows
  <2>5. /\ recall' \in [Recall -> RecallRow]
        /\ \A i \in Recall : recall'[i] = IF i = q.job THEN p ELSE recall[i]
    <3>1. recall' = [recall EXCEPT ![q.job] = p]
      BY <1>1, <1>6, <2>2 DEF FinishRecall
    <3> QED BY <1>2, <2>3, <3>1, RowWritten
  <2>6. notified[q.dish] \in Nat /\ n \in Nat /\ (q.pc = "done" => n = notified[q.dish])
        /\ (n > 1 => n = notified[q.dish] \/ notified[q.dish] > 0)
    BY <1>2, <2>1 DEF RecallInv
  <2>7. /\ notified' \in [Dish -> Nat]
        /\ \A d \in Dish : notified'[d] = IF d = q.dish THEN n ELSE notified[d]
    <3>1. notified' = [notified EXCEPT ![q.dish] = n]
      BY <1>1, <1>2, <1>6, <2>1 DEF FinishRecall, RecallInv
    <3> QED BY <1>2, <2>6, <3>1 DEF RecallInv
  <2>8. RowsStand' /\ RowsApart'
    BY <1>2, <1>3, <1>6, <2>3, <2>4, <2>5 DEF RecallInv, RowsStand, RowsApart, RowKnows
  <2>9. ASSUME NEW u \in Runner PROVE RunnerKnows(runner[u])'
    <3>1. CASE u = w
      BY <1>4, <3>1, RecallRests DEF RunnerKnows
    <3>2. CASE u # w
      <4>1. RunnerKnows(runner[u]) /\ (runner[u].pc # "rest" => runner[u].dish \in Dish /\ runner[u].job \in Recall)
        BY InRecall
      <4>2. runner[u].dish = q.dish => q.dish \in overlapped
        BY <1>1, <1>2, <3>2 DEF RecallInv, RunnersApart
      <4>3. \A i \in Recall : recall'[i].dish = recall[i].dish
        BY <2>3, <2>5
      <4>4. runner'[u] = runner[u]
        BY <1>4, <3>2
      <4> QED BY <1>3, <2>7, <4>1, <4>2, <4>3, <4>4 DEF RunnerKnows
    <3> QED BY <3>1, <3>2
  <2>10. \A d \in Dish : notified'[d] > 1 => d \in overlapped'
    <3>1. q.pc = "insert" /\ notified[q.dish] > 0 => q.dish \in overlapped
      BY <1>2 DEF RunnerKnows
    <3>2. n > 1 => q.dish \in overlapped
      BY <1>2, <2>6, <3>1 DEF RecallInv
    <3> QED BY <1>3, <2>7, <3>2 DEF RecallInv
  <2> QED BY <1>3, <1>4, <1>5, <2>5, <2>7, <2>8, <2>9, <2>10 DEF RecallInv
<1>7. CASE q.dish \notin served
  <2>1. UNCHANGED recall /\ UNCHANGED notified
    BY <1>1, <1>7 DEF FinishRecall
  <2>2. RowsStand' /\ RowsApart'
    BY <1>3, <2>1 DEF RecallInv, RowsStand, RowsApart
  <2>3. \A u \in Runner : RunnerKnows(runner[u])'
    BY <1>3, <1>4, <2>1, InRecall, RecallRests DEF RunnerKnows
  <2> QED BY <1>3, <1>4, <1>5, <2>1, <2>2, <2>3 DEF RecallInv
<1> QED BY <1>6, <1>7

Returned(p, s, due) == [p EXCEPT !.status = s, !.due = due]

LEMMA ReturnedIs ==
  ASSUME NEW p \in RecallRow, NEW s \in {"pending", "failed", "running"}, NEW due \in BOOLEAN
  PROVE  /\ Returned(p, s, due) \in RecallRow /\ Returned(p, s, due).status = s
         /\ Returned(p, s, due).dish = p.dish
BY DEF RecallRow, Returned

LEMMA FailRecallKeeps ==
  ASSUME RecallInv, NEW w \in Runner, NEW s \in {"pending", "failed", "running"}, FailRecall(w, s)
  PROVE  RecallInv'
<1>1. PICK q : q = runner[w]
  OBVIOUS
<1>2. /\ q \in RunnerRow /\ q.pc # "rest" /\ RunnerKnows(q)
      /\ q.dish \in Dish /\ q.job \in Recall /\ q.dish # NoDish
  BY <1>1, InRecall DEF FailRecall
<1>3. /\ UNCHANGED served /\ UNCHANGED reviewed /\ UNCHANGED silenced /\ UNCHANGED tip
      /\ UNCHANGED notified /\ UNCHANGED overlapped /\ runner' = [runner EXCEPT ![w] = Resting]
  BY DEF FailRecall
<1>4. /\ runner' \in [Runner -> RunnerRow]
      /\ \A u \in Runner : runner'[u] = IF u = w THEN Resting ELSE runner[u]
      /\ \A u \in Runner : RunnerStage(runner'[u])
  BY <1>3, RunnerRests
<1>5. RunnersApart'
  BY <1>3, <1>4, RecallRests DEF RecallInv, RunnersApart
<1>6. CASE q.dish \in served
  <2>1. PICK due \in BOOLEAN : due = (s # "pending")
    OBVIOUS
  <2>2. PICK p : p = Returned(recall[q.job], s, due)
    OBVIOUS
  <2>3. p \in RecallRow /\ p.status = s /\ p.dish = recall[q.job].dish
    BY <1>2, <2>2, InRecall, ReturnedIs
  <2>4. p.dish = q.dish
    BY <1>2, <1>6, <2>3 DEF RunnerKnows
  <2>5. /\ recall' \in [Recall -> RecallRow]
        /\ \A i \in Recall : recall'[i] = IF i = q.job THEN p ELSE recall[i]
    <3>1. recall' = [recall EXCEPT ![q.job] = p]
      BY <1>1, <1>6, <2>1, <2>2 DEF FailRecall, Returned
    <3> QED BY <1>2, <2>3, <3>1, RowWritten
  <2>6. /\ s = "pending" => \A i \in Recall : recall[i].status = "pending" => recall[i].dish # q.dish
        /\ s = "pending" => \A t \in Tip : q.dish \notin tip[t]
    BY <1>1 DEF FailRecall, PendingRecall, Queued
  <2>7. RowsStand'
    BY <1>2, <1>3, <1>6, <2>3, <2>4, <2>5 DEF RecallInv, RowsStand, RowKnows
  <2>8. RowsApart'
    BY <1>3, <2>3, <2>4, <2>5, <2>6 DEF RecallInv, RowsApart
  <2>9. \A i \in Recall : recall'[i].dish = recall[i].dish
    BY <2>3, <2>5
  <2>10. \A u \in Runner : RunnerKnows(runner[u])'
    BY <1>3, <1>4, <2>9, InRecall, RecallRests DEF RunnerKnows
  <2> QED BY <1>3, <1>4, <1>5, <2>5, <2>7, <2>8, <2>10 DEF RecallInv
<1>7. CASE q.dish \notin served
  <2>1. UNCHANGED recall
    BY <1>1, <1>7 DEF FailRecall
  <2>2. RowsStand' /\ RowsApart'
    BY <1>3, <2>1 DEF RecallInv, RowsStand, RowsApart
  <2>3. \A u \in Runner : RunnerKnows(runner[u])'
    BY <1>3, <1>4, <2>1, InRecall, RecallRests DEF RunnerKnows
  <2> QED BY <1>3, <1>4, <1>5, <2>1, <2>2, <2>3 DEF RecallInv
<1> QED BY <1>6, <1>7

LEMMA RecallQuiet ==
  ASSUME RecallInv,
         UNCHANGED <<served, reviewed, silenced, recall, notified, tip, runner, overlapped>>
  PROVE  RecallInv'
<1>1. /\ UNCHANGED served /\ UNCHANGED reviewed /\ UNCHANGED silenced /\ UNCHANGED tip
      /\ UNCHANGED recall /\ UNCHANGED notified /\ UNCHANGED overlapped /\ UNCHANGED runner
  OBVIOUS
<1>2. RowsStand' /\ RowsApart' /\ RunnersApart'
  BY <1>1 DEF RecallInv, RowsStand, RowsApart, RunnersApart
<1>3. \A w \in Runner : RunnerKnows(runner[w])'
  BY <1>1, InRecall DEF RunnerKnows
<1> QED BY <1>1, <1>2, <1>3 DEF RecallInv

THEOREM RecallInvariant == RecallSpec => []RecallInv
<1>1. RecallInv /\ [RecallNext]_recallVars => RecallInv'
  <2> SUFFICES ASSUME RecallInv, [RecallNext]_recallVars PROVE RecallInv'
    OBVIOUS
  <2>1. ASSUME NEW t \in Tip,
               (\E d \in Dish : Recommend(t, d)) \/ (\E row \in [tip[t] -> Recall] : CommitTip(t, row)) \/ CutTip(t)
        PROVE  RecallInv'
    BY <2>1, RecommendKeeps, CommitTipKeeps, CutTipKeeps
  <2>2. ASSUME NEW j \in Recall, RecallFallsDue(j) \/ RecallAges(j)
        PROVE  RecallInv'
    BY <2>2, RecallTimesPass
  <2>3. ASSUME NEW d \in Dish, DismissRecall(d) \/ DeleteDish(d) \/ \E now \in BOOLEAN : ReviewDish(d, now)
        PROVE  RecallInv'
    <3>1. CASE DismissRecall(d)
      BY <3>1, RecallQuiet DEF DismissRecall
    <3> QED BY <2>3, <3>1, DeleteDishKeeps, ReviewDishKeeps
  <2>4. CASE SilenceBot
    BY <2>4, SilenceBotKeeps
  <2>5. ASSUME NEW w \in Runner, LookForReview(w) \/ LookForNotice(w) \/ MayTell(w) \/ ReadDish(w)
        PROVE  RecallInv'
    <3>1. CASE LookForReview(w)
      <4>1. PICK stop \in BOOLEAN : stop <=> runner[w].dish \in reviewed
        OBVIOUS
      <4>2. RunnerGoes(w, "review", stop, "notice")
        BY <3>1, <4>1 DEF LookForReview, RunnerGoes
      <4> QED BY <4>1, <4>2, RunnerGoesKeeps
    <3>2. CASE LookForNotice(w)
      <4>1. PICK stop \in BOOLEAN : stop <=> AlreadyTold(w)
        OBVIOUS
      <4>2. RunnerGoes(w, "notice", stop, "guard")
        BY <3>2, <4>1 DEF LookForNotice, RunnerGoes
      <4> QED BY <4>1, <4>2, RunnerGoesKeeps
    <3>3. CASE MayTell(w)
      <4>1. PICK stop \in BOOLEAN : stop <=> silenced
        OBVIOUS
      <4>2. RunnerGoes(w, "guard", stop, "dish")
        BY <3>3, <4>1 DEF MayTell, RunnerGoes
      <4> QED BY <4>1, <4>2, RunnerGoesKeeps
    <3>4. CASE ReadDish(w)
      <4>1. PICK stop \in BOOLEAN : stop <=> runner[w].dish \notin served
        OBVIOUS
      <4>2. RunnerGoes(w, "dish", stop, "insert")
        BY <3>4, <4>1 DEF ReadDish, RunnerGoes
      <4> QED BY <4>1, <4>2, RunnerGoesKeeps
    <3> QED BY <2>5, <3>1, <3>2, <3>3, <3>4
  <2>6. ASSUME NEW w \in Runner,
               (\E j \in Recall : TakeRecall(w, j)) \/ FinishRecall(w)
               \/ \E s \in {"pending", "failed", "running"} : FailRecall(w, s)
        PROVE  RecallInv'
    BY <2>6, TakeRecallKeeps, FinishRecallKeeps, FailRecallKeeps
  <2>7. CASE UNCHANGED recallVars
    BY <2>7, RecallQuiet DEF recallVars
  <2> QED BY <2>1, <2>2, <2>3, <2>4, <2>5, <2>6, <2>7 DEF RecallNext
<1> QED BY RecallStarts, <1>1, PTL DEF RecallSpec

(* Every card is of a dish that is there.                                   *)
CardsServed == Cards \subseteq served

LEMMA CardsAreServed == RecallInv => CardsServed
<1> SUFFICES ASSUME RecallInv, NEW d \in Cards PROVE d \in served
  BY DEF CardsServed
<1>1. PICK j \in Recall : recall[j].recent /\ d = recall[j].dish
  BY DEF Cards
<1>2. recall[j].dish # NoDish
  BY <1>1, InRecall, RecallRests DEF RowKnows
<1> QED BY <1>1, <1>2, InRecall

OneIsPending == \A d \in Dish : Cardinality(PendingRecall(d)) <= 1

LEMMA OneIsEnough == RecallInv => OneIsPending
<1> SUFFICES ASSUME RecallInv, NEW d \in Dish PROVE Cardinality(PendingRecall(d)) <= 1
  BY DEF OneIsPending
<1>1. \A i, j \in PendingRecall(d) : i = j
  BY DEF PendingRecall, RecallInv, RowsApart
<1> QED BY <1>1, AtMostOne

(* Notices come with runs that end, and go with dishes.                     *)
LEMMA WhenToldChanges ==
  ASSUME RecallNext
  PROVE  /\ notified' = notified \/ overlapped' = overlapped
         /\ notified' = notified \/ (\E d \in Dish : DeleteDish(d)) \/ \E w \in Runner : FinishRecall(w)
<1> DEFINE Untold == notified' = notified
<1>1. ASSUME NEW t \in Tip PROVE /\ \A d \in Dish : Recommend(t, d) => Untold
                                 /\ CutTip(t) => Untold
                                 /\ \A row \in [tip[t] -> Recall] : CommitTip(t, row) => Untold
  BY DEF Recommend, CutTip, CommitTip
<1>2. ASSUME NEW j \in Recall PROVE RecallFallsDue(j) \/ RecallAges(j) => Untold
  BY DEF RecallFallsDue, RecallAges
<1>3. ASSUME NEW d \in Dish PROVE /\ DismissRecall(d) => Untold
                                  /\ \A now \in BOOLEAN : ReviewDish(d, now) => Untold
                                  /\ DeleteDish(d) => overlapped' = overlapped
  BY DEF DismissRecall, ReviewDish, DeleteDish
<1>4. SilenceBot => Untold
  BY DEF SilenceBot
<1>5. ASSUME NEW w \in Runner
      PROVE  /\ \A j \in Recall : TakeRecall(w, j) => Untold
             /\ LookForReview(w) \/ LookForNotice(w) \/ MayTell(w) \/ ReadDish(w) => Untold
             /\ FinishRecall(w) => overlapped' = overlapped
             /\ \A s \in {"pending", "failed", "running"} : FailRecall(w, s) => Untold
  BY DEF TakeRecall, LookForReview, LookForNotice, MayTell, ReadDish, RunnerGoes, FinishRecall, FailRecall
<1> HIDE DEF Untold
<1>6. Untold \/ (\E d \in Dish : DeleteDish(d)) \/ \E w \in Runner : FinishRecall(w)
  BY <1>1, <1>2, <1>3, <1>4, <1>5 DEF RecallNext
<1> QED BY <1>3, <1>5, <1>6 DEF Untold

(* Only a run that ends tells, and it has looked before.                    *)
LEMMA WhoTells ==
  ASSUME RecallInv, RecallNext, NEW d \in Dish, notified'[d] > notified[d]
  PROVE  \E w \in Runner : /\ runner[w].dish = d /\ runner'[w] = Resting
                           /\ (d \in reviewed \/ silenced) => runner[w].changed
<1>1. notified' # notified
  <2>1. notified[d] \in Nat
    BY DEF RecallInv
  <2> QED BY <2>1
<1>2. (\E e \in Dish : DeleteDish(e)) \/ \E w \in Runner : FinishRecall(w)
  BY <1>1, WhenToldChanges
<1>3. ASSUME NEW e \in Dish, DeleteDish(e) PROVE FALSE
  <2>1. notified[d] \in Nat /\ (notified'[d] = 0 \/ notified'[d] = notified[d])
    BY <1>3 DEF DeleteDish, RecallInv
  <2> QED BY <2>1
<1>4. PICK w \in Runner : FinishRecall(w)
  BY <1>2, <1>3
<1>5. runner[w].dish = d /\ runner[w].pc = "insert"
  <2>1. notified[d] \in Nat
    BY DEF RecallInv
  <2>2. ~(notified'[d] = notified[d])
    BY <2>1
  <2> QED BY <1>4, <2>2 DEF FinishRecall, RecallInv
<1>6. runner'[w] = Resting
  BY <1>4 DEF FinishRecall, RecallInv
<1> QED BY <1>5, <1>6, InRecall DEF RunnerKnows

LEMMA RecallsOnce ==
  RecallInv /\ RecallInv' /\ [RecallNext]_recallVars =>
    [/\ \A d \in Dish :
          /\ notified'[d] > 1 => d \in overlapped
          /\ notified'[d] > notified[d] =>
               \E w \in Runner :
                 /\ runner[w].dish = d /\ runner'[w] = Resting
                 /\ (d \in reviewed \/ silenced) => runner[w].changed
          /\ Cardinality(PendingRecall(d))' <= 1
     /\ Cards' \subseteq served']_recallVars
<1> SUFFICES ASSUME RecallInv, RecallInv', RecallNext
             PROVE  /\ \A d \in Dish :
                         /\ notified'[d] > 1 => d \in overlapped
                         /\ notified'[d] > notified[d] =>
                              \E w \in Runner :
                                /\ runner[w].dish = d /\ runner'[w] = Resting
                                /\ (d \in reviewed \/ silenced) => runner[w].changed
                         /\ Cardinality(PendingRecall(d))' <= 1
                    /\ Cards' \subseteq served'
  OBVIOUS
<1>1. Cards' \subseteq served'
  <2>1. RecallInv' => CardsServed'
    BY CardsAreServed, PTL
  <2> QED BY <2>1 DEF CardsServed
<1>2. \A d \in Dish : Cardinality(PendingRecall(d))' <= 1
  <2>1. RecallInv' => OneIsPending'
    BY OneIsEnough, PTL
  <2> QED BY <2>1 DEF OneIsPending
<1>3. ASSUME NEW d \in Dish, notified'[d] > 1 PROVE d \in overlapped
  <2>1. d \in overlapped'
    BY <1>3 DEF RecallInv
  <2>2. overlapped' = overlapped \/ notified' = notified
    BY WhenToldChanges
  <2>3. notified' = notified => d \in overlapped
    BY <1>3 DEF RecallInv
  <2> QED BY <2>1, <2>2, <2>3
<1> QED BY <1>1, <1>2, <1>3, WhoTells

(* A diner is told of a dish once, and of none reviewed before              *)
(* (sommelier_recall_service.py).                                           *)
THEOREM DinersAreToldOnce == RecallSpec => RecalledOnce
<1> QED BY RecallInvariant, RecallsOnce, PTL DEF RecallSpec, RecalledOnce

(* A row that is in hand is one loop's, and running until its dish goes; so *)
(* a notification is of a row of its own that is done.                      *)
Told(d) == {j \in Recall : recall[j].status = "done" /\ recall[j].dish = d}
RunnerRuns(q) ==
  q.pc # "rest" => recall[q.job].status = IF q.dish \in served THEN "running" ELSE "none"
Counted(d) == notified[d] <= Cardinality(Told(d))

RecallCounted ==
  /\ dismissed \subseteq served /\ overlapped \subseteq Dish
  /\ \A j \in Recall : recall[j].status = "none" => recall[j].dish = NoDish
  /\ \A w \in Runner : RunnerRuns(runner[w])
  /\ \A u, w \in Runner : runner[u].pc # "rest" /\ runner[w].pc # "rest" /\ runner[u].job = runner[w].job => u = w
  /\ \A d \in Dish : Counted(d)

LEMMA RecallCountedStart == RecallInit => RecallCounted
<1> SUFFICES ASSUME RecallInit PROVE RecallCounted
  OBVIOUS
<1>1. \A j \in Recall : recall[j].status = "none" /\ recall[j].dish = NoDish
  BY RecallRests DEF RecallInit
<1>2. \A w \in Runner : runner[w].pc = "rest"
  BY RecallRests DEF RecallInit
<1>3. \A d \in Dish : Counted(d)
  <2>1. \A d \in Dish : Told(d) = {} /\ notified[d] = 0
    BY <1>1 DEF Told, RecallInit
  <2> QED BY <2>1, FS_EmptySet DEF Counted
<1> QED BY <1>1, <1>2, <1>3 DEF RecallInit, RecallCounted, RunnerRuns

LEMMA ToldIsFinite ==
  ASSUME NEW d
  PROVE  IsFiniteSet(Told(d)) /\ Cardinality(Told(d)) \in 0..Cardinality(Recall) /\ Cardinality(Recall) \in Nat
BY FS_Subset, FS_CardinalityType, RecallFinite DEF Told

LEMMA RecallTypesAre == RecallInv /\ RecallCounted => RecallTypeOK
<1> SUFFICES ASSUME RecallInv, RecallCounted PROVE RecallTypeOK
  OBVIOUS
<1>1. \A d \in Dish : notified[d] \in 0..Cardinality(Recall)
  <2> TAKE d \in Dish
  <2>1. notified[d] \in Nat /\ notified[d] <= Cardinality(Told(d))
    BY DEF RecallInv, RecallCounted, Counted
  <2> QED BY <2>1, ToldIsFinite
<1>2. notified \in [Dish -> 0..Cardinality(Recall)]
  BY <1>1 DEF RecallInv
<1> QED BY <1>2 DEF RecallInv, RecallCounted, RecallTypeOK, RecallRow, RunnerRow

LEMMA ToldStays ==
  ASSUME NEW d, Counted(d), notified'[d] = notified[d], Told(d)' = Told(d)
  PROVE  Counted(d)'
BY DEF Counted

(* Nothing that counts changes.                                             *)
LEMMA RecallCountsOn ==
  ASSUME RecallInv, RecallCounted, UNCHANGED <<served, notified, overlapped>>, dismissed' \subseteq served,
         \A j \in Recall : recall'[j].status = recall[j].status /\ recall'[j].dish = recall[j].dish,
         \A w \in Runner : /\ runner'[w].pc = "rest" <=> runner[w].pc = "rest"
                           /\ runner'[w].job = runner[w].job /\ runner'[w].dish = runner[w].dish
  PROVE  RecallCounted'
<1>1. \A d \in Dish : Told(d)' = Told(d)
  BY DEF Told
<1>2. \A d \in Dish : Counted(d)'
  BY <1>1, ToldStays DEF RecallCounted
<1>3. \A w \in Runner : RunnerRuns(runner[w])'
  <2> TAKE w \in Runner
  <2>1. RunnerRuns(runner[w]) /\ (runner[w].pc # "rest" => runner[w].job \in Recall)
    BY InRecall DEF RecallCounted
  <2> QED BY <2>1 DEF RunnerRuns
<1> QED BY <1>2, <1>3 DEF RecallCounted

LEMMA RecallStandsCounted ==
  ASSUME RecallInv, RecallCounted, UNCHANGED <<served, notified, overlapped, recall, runner>>, dismissed' \subseteq served
  PROVE  RecallCounted'
BY RecallCountsOn

LEMMA CommitTipCounted ==
  ASSUME RecallInv, RecallCounted, NEW t \in Tip, NEW row \in [tip[t] -> Recall], CommitTip(t, row)
  PROVE  RecallCounted'
<1>1. UNCHANGED <<served, notified, overlapped, runner, dismissed>>
  BY DEF CommitTip
<1>2. \A i \in Recall : \/ recall'[i] = recall[i]
                        \/ /\ recall[i] = NoRecall /\ recall'[i].status = "pending"
                           /\ \A w \in Runner : runner[w].job # i
  BY TipCommitted
<1>3. \A d \in Dish : Told(d)' = Told(d)
  BY <1>2, RecallRests DEF Told
<1>4. \A d \in Dish : Counted(d)'
  BY <1>1, <1>3, ToldStays DEF RecallCounted
<1>5. ASSUME NEW w \in Runner PROVE RunnerRuns(runner[w])'
  <2>1. RunnerRuns(runner[w]) /\ runner'[w] = runner[w] /\ served' = served
    BY <1>1 DEF RecallCounted
  <2>2. CASE runner[w].pc = "rest"
    BY <2>1, <2>2 DEF RunnerRuns
  <2>3. CASE runner[w].pc # "rest"
    <3>1. runner[w].job \in Recall
      BY <2>3, InRecall
    <3>2. recall'[runner[w].job] = recall[runner[w].job]
      BY <1>2, <3>1
    <3> QED BY <2>1, <3>2 DEF RunnerRuns
  <2> QED BY <2>2, <2>3
<1>6. \A i \in Recall : recall'[i].status = "none" => recall'[i].dish = NoDish
  BY <1>2 DEF RecallCounted
<1>7. \A w \in Runner : RunnerRuns(runner[w])'
  BY <1>5
<1> QED BY <1>1, <1>4, <1>6, <1>7 DEF RecallCounted

LEMMA TimesCounted ==
  ASSUME RecallInv, RecallCounted, NEW j \in Recall, RecallFallsDue(j) \/ RecallAges(j)
  PROVE  RecallCounted'
<1>1. recall[j] \in RecallRow
  BY InRecall
<1>2. UNCHANGED <<served, notified, overlapped, runner, dismissed>> /\ dismissed \subseteq served
  BY DEF RecallFallsDue, RecallAges, RecallCounted
<1>3. PICK p : /\ recall' = [recall EXCEPT ![j] = p]
               /\ p = [recall[j] EXCEPT !.due = TRUE] \/ p = [recall[j] EXCEPT !.recent = FALSE]
  BY DEF RecallFallsDue, RecallAges
<1>4. p.status = recall[j].status /\ p.dish = recall[j].dish
  BY <1>1, <1>3 DEF RecallRow
<1>5. \A i \in Recall : recall'[i].status = recall[i].status /\ recall'[i].dish = recall[i].dish
  BY <1>3, <1>4 DEF RecallInv
<1> QED BY <1>2, <1>5, RecallCountsOn

LEMMA DeleteDishCounted ==
  ASSUME RecallInv, RecallCounted, NEW d \in Dish, DeleteDish(d)
  PROVE  RecallCounted'
<1>1. /\ UNCHANGED <<overlapped, runner>> /\ served' = served \ {d} /\ dismissed' = dismissed \ {d}
      /\ \A j \in Recall : recall'[j] = IF recall[j].dish = d THEN NoRecall ELSE recall[j]
      /\ \A e \in Dish : notified'[e] = IF e = d THEN 0 ELSE notified[e]
  BY DEF DeleteDish, RecallInv
<1>2. \A e \in Dish : e # d => Told(e)' = Told(e)
  BY <1>1, RecallRests DEF Told
<1>3. ASSUME NEW e \in Dish PROVE Counted(e)'
  <2>1. CASE e = d
    <3>1. Cardinality(Told(e)') \in Nat
      BY FS_Subset, FS_CardinalityType, RecallFinite DEF Told
    <3>2. notified'[e] = 0
      BY <1>1, <2>1
    <3> QED BY <3>1, <3>2 DEF Counted
  <2>2. CASE e # d
    BY <1>1, <1>2, <2>2, ToldStays DEF RecallCounted
  <2> QED BY <2>1, <2>2
<1>4. ASSUME NEW w \in Runner PROVE RunnerRuns(runner[w])'
  <2>1. /\ RunnerRuns(runner[w]) /\ RunnerKnows(runner[w])
        /\ runner[w].pc # "rest" => runner[w].dish \in Dish /\ runner[w].job \in Recall
    BY InRecall DEF RecallCounted
  <2>2. CASE runner[w].dish = d
    BY <1>1, <2>1, <2>2, RecallRests DEF RunnerRuns, RunnerKnows, DeleteDish
  <2>3. CASE runner[w].dish # d
    <3>1. CASE runner[w].dish \in served
      BY <1>1, <2>1, <2>3, <3>1 DEF RunnerRuns, RunnerKnows
    <3>2. CASE runner[w].dish \notin served
      BY <1>1, <2>1, <2>3, <3>2, RecallRests DEF RunnerRuns
    <3> QED BY <3>1, <3>2
  <2> QED BY <2>2, <2>3
<1>5. \A j \in Recall : recall'[j].status = "none" => recall'[j].dish = NoDish
  BY <1>1, RecallRests DEF RecallCounted
<1> QED BY <1>1, <1>3, <1>4, <1>5 DEF RecallCounted

LEMMA OthersCounted ==
  ASSUME RecallInv, RecallCounted, (\E d, now : ReviewDish(d, now)) \/ SilenceBot
  PROVE  RecallCounted'
<1>1. UNCHANGED <<served, notified, overlapped, recall, dismissed>> /\ dismissed \subseteq served
  BY DEF ReviewDish, SilenceBot, RecallCounted
<1>2. ASSUME NEW w \in Runner
      PROVE  /\ runner'[w].pc = runner[w].pc /\ runner'[w].job = runner[w].job /\ runner'[w].dish = runner[w].dish
  <2>1. runner[w] \in RunnerRow
    BY InRecall
  <2>2. runner'[w] = runner[w] \/ runner'[w] = [runner[w] EXCEPT !.changed = TRUE]
    BY DEF ReviewDish, SilenceBot, Changed
  <2> QED BY <2>1, <2>2 DEF RunnerRow
<1> QED BY <1>1, <1>2, RecallCountsOn

LEMMA TakeRecallCounted ==
  ASSUME RecallInv, RecallCounted, NEW w \in Runner, NEW j \in Recall, TakeRecall(w, j)
  PROVE  RecallCounted'
<1>1. UNCHANGED <<served, notified, dismissed>> /\ recall[j].status = "pending" /\ recall[j] \in RecallRow
  BY InRecall DEF TakeRecall
<1>2. recall[j].dish # NoDish /\ recall[j].dish \in served /\ recall[j].dish \in Dish
  <2>1. recall[j].dish # NoDish
    BY <1>1, InRecall, RecallRests DEF RowKnows
  <2> QED BY <2>1, InRecall DEF RecallInv
<1>3. /\ \A i \in Recall : i # j => recall'[i] = recall[i]
      /\ recall'[j].status = "running" /\ recall'[j].dish = recall[j].dish
  <2>1. PICK p : p = [recall[j] EXCEPT !.status = "running"] /\ recall' = [recall EXCEPT ![j] = p]
    BY DEF TakeRecall
  <2>2. p.status = "running" /\ p.dish = recall[j].dish
    BY <1>1, <2>1 DEF RecallRow
  <2> QED BY <2>1, <2>2 DEF RecallInv
<1>4. /\ \A u \in Runner : u # w => runner'[u] = runner[u]
      /\ runner'[w].pc = "review" /\ runner'[w].job = j /\ runner'[w].dish = recall[j].dish
  BY DEF TakeRecall, RecallInv
<1>5. \A u \in Runner : runner[u].pc # "rest" => runner[u].job # j
  BY <1>1 DEF RecallCounted, RunnerRuns
<1>6. \A d \in Dish : Told(d)' = Told(d)
  BY <1>1, <1>3 DEF Told
<1>7. \A d \in Dish : Counted(d)'
  BY <1>1, <1>6, ToldStays DEF RecallCounted
<1>8. \A u \in Runner : RunnerRuns(runner[u])'
  <2> TAKE u \in Runner
  <2>1. RunnerRuns(runner[u]) /\ (runner[u].pc # "rest" => runner[u].job \in Recall)
    BY InRecall DEF RecallCounted
  <2>2. CASE u = w
    BY <1>1, <1>2, <1>3, <1>4, <2>2 DEF RunnerRuns
  <2>3. CASE u # w
    BY <1>1, <1>3, <1>4, <1>5, <2>1, <2>3 DEF RunnerRuns
  <2> QED BY <2>2, <2>3
<1>9. overlapped' \subseteq Dish
  BY <1>2 DEF TakeRecall, RecallCounted
<1>10. \A i \in Recall : recall'[i].status = "none" => recall'[i].dish = NoDish
  BY <1>3 DEF RecallCounted
<1>11. \A u, v \in Runner : runner'[u].pc # "rest" /\ runner'[v].pc # "rest" /\ runner'[u].job = runner'[v].job => u = v
  BY <1>4, <1>5 DEF RecallCounted
<1> QED BY <1>1, <1>7, <1>8, <1>9, <1>10, <1>11 DEF RecallCounted

LEMMA RunnerGoesCounted ==
  ASSUME RecallInv, RecallCounted, NEW w \in Runner, NEW from, NEW stop, NEW on,
         RunnerGoes(w, from, stop, on), from # "rest", on # "rest"
  PROVE  RecallCounted'
<1>1. UNCHANGED <<served, notified, overlapped, recall, dismissed>> /\ dismissed \subseteq served
  BY DEF RunnerGoes, RecallCounted
<1>2. PICK pc : pc = (IF stop THEN "done" ELSE on) /\ pc # "rest"
  OBVIOUS
<1>3. PICK q : q = [runner[w] EXCEPT !.pc = pc] /\ runner' = [runner EXCEPT ![w] = q] /\ runner[w].pc = from
  BY <1>2 DEF RunnerGoes, RunnerAt
<1>4. q.pc = pc /\ q.job = runner[w].job /\ q.dish = runner[w].dish
  BY <1>3, InRecall DEF RunnerRow
<1>5. \A u \in Runner : runner'[u] = IF u = w THEN q ELSE runner[u]
  BY <1>3 DEF RecallInv
<1>6. ASSUME NEW u \in Runner
      PROVE  /\ runner'[u].pc = "rest" <=> runner[u].pc = "rest"
             /\ runner'[u].job = runner[u].job /\ runner'[u].dish = runner[u].dish
  BY <1>2, <1>3, <1>4, <1>5
<1> QED BY <1>1, <1>6, RecallCountsOn

(* A loop rests, and its row is left as it is.                              *)
LEMMA RestsCounted ==
  ASSUME RecallInv, RecallCounted, NEW w \in Runner,
         UNCHANGED <<served, overlapped, dismissed, notified, recall>>,
         \A u \in Runner : runner'[u] = IF u = w THEN Resting ELSE runner[u]
  PROVE  RecallCounted'
<1>1. \A d \in Dish : Told(d)' = Told(d)
  BY DEF Told
<1>2. \A d \in Dish : Counted(d)'
  BY <1>1, ToldStays DEF RecallCounted
<1>3. \A u \in Runner : RunnerRuns(runner[u])'
  BY RecallRests DEF RecallCounted, RunnerRuns
<1>4. \A u, v \in Runner : runner'[u].pc # "rest" /\ runner'[v].pc # "rest" /\ runner'[u].job = runner'[v].job => u = v
  BY RecallRests DEF RecallCounted
<1> QED BY <1>2, <1>3, <1>4 DEF RecallCounted

LEMMA FinishRecallCounted ==
  ASSUME RecallInv, RecallCounted, NEW w \in Runner, FinishRecall(w)
  PROVE  RecallCounted'
<1>1. PICK q : q = runner[w]
  OBVIOUS
<1>2. /\ q.pc \in {"insert", "done"} /\ RunnerKnows(q) /\ RunnerRuns(q)
      /\ q.dish \in Dish /\ q.job \in Recall /\ recall[q.job] \in RecallRow
  BY <1>1, InRecall DEF FinishRecall, RecallCounted
<1>3. UNCHANGED <<served, overlapped, dismissed>> /\ runner' = [runner EXCEPT ![w] = Resting]
  BY DEF FinishRecall
<1>4. \A u \in Runner : runner'[u] = IF u = w THEN Resting ELSE runner[u]
  BY <1>3 DEF RecallInv
<1>5. CASE q.dish \in served
  <2>1. recall[q.job].status = "running" /\ recall[q.job].dish = q.dish
    BY <1>2, <1>5 DEF RunnerRuns, RunnerKnows
  <2>2. PICK p : p = [recall[q.job] EXCEPT !.status = "done"] /\ recall' = [recall EXCEPT ![q.job] = p]
    BY <1>1, <1>5 DEF FinishRecall
  <2>3. p.status = "done" /\ p.dish = q.dish
    BY <1>2, <2>1, <2>2 DEF RecallRow
  <2>4. \A i \in Recall : recall'[i] = IF i = q.job THEN p ELSE recall[i]
    BY <2>2 DEF RecallInv
  <2>5. Told(q.dish)' = Told(q.dish) \cup {q.job} /\ q.job \notin Told(q.dish)
    BY <1>2, <2>1, <2>3, <2>4 DEF Told
  <2>6. \A d \in Dish : d # q.dish => Told(d)' = Told(d)
    BY <2>1, <2>3, <2>4 DEF Told
  <2>7. /\ notified'[q.dish] <= notified[q.dish] + 1 /\ notified'[q.dish] \in Nat /\ notified[q.dish] \in Nat
        /\ \A d \in Dish : d # q.dish => notified'[d] = notified[d]
    BY <1>1, <1>2, <1>5 DEF FinishRecall, RecallInv
  <2>8. Counted(q.dish)'
    <3>1. PICK T : T = Told(q.dish) /\ IsFiniteSet(T) /\ Cardinality(T) \in Nat
      BY ToldIsFinite
    <3>2. Cardinality(T \cup {q.job}) = Cardinality(T) + 1
      BY <2>5, <3>1, FS_AddElement
    <3>3. notified[q.dish] <= Cardinality(T)
      BY <1>2, <3>1 DEF RecallCounted, Counted
    <3>4. notified'[q.dish] <= Cardinality(T \cup {q.job})
      BY <2>7, <3>1, <3>2, <3>3
    <3> QED BY <2>5, <3>1, <3>4 DEF Counted
  <2>9. \A d \in Dish : Counted(d)'
    BY <2>6, <2>7, <2>8, ToldStays DEF RecallCounted
  <2>10. ASSUME NEW u \in Runner PROVE RunnerRuns(runner[u])'
    <3>1. CASE u = w
      BY <1>4, <3>1, RecallRests DEF RunnerRuns
    <3>2. CASE u # w
      <4>1. runner'[u] = runner[u] /\ RunnerRuns(runner[u]) /\ (runner[u].pc # "rest" => runner[u].job \in Recall)
        BY <1>4, <3>2, InRecall DEF RecallCounted
      <4>2. runner[u].pc # "rest" => runner[u].job # q.job
        BY <1>1, <1>2, <3>2 DEF RecallCounted
      <4> QED BY <1>3, <2>4, <4>1, <4>2 DEF RunnerRuns
    <3> QED BY <3>1, <3>2
  <2>11. \A i \in Recall : recall'[i].status = "none" => recall'[i].dish = NoDish
    BY <2>3, <2>4 DEF RecallCounted
  <2>12. \A u, v \in Runner : runner'[u].pc # "rest" /\ runner'[v].pc # "rest" /\ runner'[u].job = runner'[v].job => u = v
    BY <1>4, RecallRests DEF RecallCounted
  <2> QED BY <1>3, <2>9, <2>10, <2>11, <2>12 DEF RecallCounted
<1>6. CASE q.dish \notin served
  <2>1. UNCHANGED <<notified, recall>>
    BY <1>1, <1>6 DEF FinishRecall
  <2> QED BY <1>3, <1>4, <2>1, RestsCounted
<1> QED BY <1>5, <1>6

LEMMA FailRecallCounted ==
  ASSUME RecallInv, RecallCounted, NEW w \in Runner, NEW s \in {"pending", "failed", "running"}, FailRecall(w, s)
  PROVE  RecallCounted'
<1>1. PICK q : q = runner[w]
  OBVIOUS
<1>2. /\ q.pc # "rest" /\ RunnerKnows(q) /\ RunnerRuns(q)
      /\ q.dish \in Dish /\ q.job \in Recall /\ recall[q.job] \in RecallRow
  BY <1>1, InRecall DEF FailRecall, RecallCounted
<1>3. UNCHANGED <<served, overlapped, dismissed, notified>> /\ runner' = [runner EXCEPT ![w] = Resting]
  BY DEF FailRecall
<1>4. \A u \in Runner : runner'[u] = IF u = w THEN Resting ELSE runner[u]
  BY <1>3 DEF RecallInv
<1>5. CASE q.dish \in served
  <2>1. recall[q.job].status = "running" /\ recall[q.job].dish = q.dish
    BY <1>2, <1>5 DEF RunnerRuns, RunnerKnows
  <2>2. PICK due : due = (s # "pending")
    OBVIOUS
  <2>3. PICK p : p = Returned(recall[q.job], s, due)
    OBVIOUS
  <2>4. p.status = s /\ p.dish = q.dish
    BY <1>2, <2>1, <2>2, <2>3, ReturnedIs
  <2>5. \A i \in Recall : recall'[i] = IF i = q.job THEN p ELSE recall[i]
    <3>1. recall' = [recall EXCEPT ![q.job] = p]
      BY <1>1, <1>5, <2>2, <2>3 DEF FailRecall, Returned
    <3> QED BY <3>1 DEF RecallInv
  <2>6. \A d \in Dish : Told(d)' = Told(d)
    BY <2>1, <2>4, <2>5 DEF Told
  <2>7. \A d \in Dish : Counted(d)'
    BY <1>3, <2>6, ToldStays DEF RecallCounted
  <2>8. ASSUME NEW u \in Runner PROVE RunnerRuns(runner[u])'
    <3>1. CASE u = w
      BY <1>4, <3>1, RecallRests DEF RunnerRuns
    <3>2. CASE u # w
      <4>1. runner'[u] = runner[u] /\ RunnerRuns(runner[u]) /\ (runner[u].pc # "rest" => runner[u].job \in Recall)
        BY <1>4, <3>2, InRecall DEF RecallCounted
      <4>2. runner[u].pc # "rest" => runner[u].job # q.job
        BY <1>1, <1>2, <3>2 DEF RecallCounted
      <4> QED BY <1>3, <2>5, <4>1, <4>2 DEF RunnerRuns
    <3> QED BY <3>1, <3>2
  <2>9. \A i \in Recall : recall'[i].status = "none" => recall'[i].dish = NoDish
    BY <2>4, <2>5 DEF RecallCounted
  <2>10. \A u, v \in Runner : runner'[u].pc # "rest" /\ runner'[v].pc # "rest" /\ runner'[u].job = runner'[v].job => u = v
    BY <1>4, RecallRests DEF RecallCounted
  <2> QED BY <1>3, <2>7, <2>8, <2>9, <2>10 DEF RecallCounted
<1>6. CASE q.dish \notin served
  <2>1. UNCHANGED recall
    BY <1>1, <1>6 DEF FailRecall
  <2> QED BY <1>3, <1>4, <2>1, RestsCounted
<1> QED BY <1>5, <1>6

LEMMA RecallCountedStep ==
  ASSUME RecallInv, RecallCounted, [RecallNext]_recallVars
  PROVE  RecallCounted'
<1>1. ASSUME NEW t \in Tip, (\E d \in Dish : Recommend(t, d)) \/ CutTip(t)
      PROVE  RecallCounted'
  <2>1. UNCHANGED <<served, notified, overlapped, recall, runner, dismissed>> /\ dismissed \subseteq served
    BY <1>1 DEF Recommend, CutTip, RecallCounted
  <2> QED BY <2>1, RecallStandsCounted
<1>2. ASSUME NEW d \in Dish, DismissRecall(d) PROVE RecallCounted'
  <2>1. UNCHANGED <<served, notified, overlapped, recall, runner>> /\ dismissed' \subseteq served
    BY <1>2 DEF DismissRecall, RecallCounted
  <2> QED BY <2>1, RecallStandsCounted
<1>3. CASE UNCHANGED recallVars
  <2>1. UNCHANGED <<served, notified, overlapped, recall, runner, dismissed>> /\ dismissed \subseteq served
    BY <1>3 DEF recallVars, RecallCounted
  <2> QED BY <2>1, RecallStandsCounted
<1>4. ASSUME NEW w \in Runner, LookForReview(w) \/ LookForNotice(w) \/ MayTell(w) \/ ReadDish(w)
      PROVE  RecallCounted'
  <2>1. CASE LookForReview(w)
    BY <2>1, RunnerGoesCounted DEF LookForReview
  <2>2. CASE LookForNotice(w)
    BY <2>2, RunnerGoesCounted DEF LookForNotice
  <2>3. CASE MayTell(w)
    BY <2>3, RunnerGoesCounted DEF MayTell
  <2>4. CASE ReadDish(w)
    BY <2>4, RunnerGoesCounted DEF ReadDish
  <2> QED BY <1>4, <2>1, <2>2, <2>3, <2>4
<1>5. ASSUME NEW d \in Dish, \E now \in BOOLEAN : ReviewDish(d, now) PROVE RecallCounted'
  BY <1>5, OthersCounted
<1>6. CASE SilenceBot
  BY <1>6, OthersCounted
<1>7. ASSUME NEW w \in Runner, \/ \E j \in Recall : TakeRecall(w, j)
                              \/ FinishRecall(w)
                              \/ \E s \in {"pending", "failed", "running"} : FailRecall(w, s)
      PROVE  RecallCounted'
  BY <1>7, TakeRecallCounted, FinishRecallCounted, FailRecallCounted
<1>8. ASSUME NEW j \in Recall, RecallFallsDue(j) \/ RecallAges(j) PROVE RecallCounted'
  BY <1>8, TimesCounted
<1>9. ASSUME NEW t \in Tip, NEW row \in [tip[t] -> Recall], CommitTip(t, row) PROVE RecallCounted'
  BY <1>9, CommitTipCounted
<1>10. ASSUME NEW d \in Dish, DeleteDish(d) PROVE RecallCounted'
  BY <1>10, DeleteDishCounted
<1> QED BY <1>1, <1>2, <1>3, <1>4, <1>5, <1>6, <1>7, <1>8, <1>9, <1>10 DEF RecallNext

(* There are no more notifications of a dish than rows that asked for one,  *)
(* and everything keeps its type (sommelier_recall_service.py).             *)
THEOREM RecallTypesHold == RecallSpec => []RecallTypeOK
<1>1. RecallInv /\ RecallCounted /\ [RecallNext]_recallVars => RecallCounted'
  BY RecallCountedStep
<1> QED BY <1>1, RecallCountedStart, RecallInvariant, RecallTypesAre, PTL DEF RecallSpec

HIDE RecallAssumption

------------------------------------------------------------------------------
(* The tools of a turn.                                                     *)

ShelfRow == [home : House \cup {Gone}, risky : BOOLEAN]
CallRow == [tool : {"none"} \cup DinerTool \cup OwnerTool, owner : BOOLEAN,
            pc : {"none", "start", "more", "allergies", "excluded", "peers", "guide", "answer"},
            plates : SUBSET Plate, peers : SUBSET Plate, asked : SUBSET Plate,
            shows : BOOLEAN, steady : BOOLEAN, shut : BOOLEAN, moved : SUBSET Plate]

(* What the session holds is as it is, unless it changed since.             *)
ShelfKnows ==
  \A p \in Plate : shelf[p] # Absent /\ p \notin crossed =>
    shelf[p] = [home |-> home[p], risky |-> p \in risky]

Scoped(q, p) == home[p] = Mine \/ p \in q.moved

(* A guarded tool names what the session holds; an owner's tool has found   *)
(* its plate in the restaurant, and knows where it is unless it moved.      *)
CallKnows(q) ==
  /\ q.pc = "none" => q = NoCall
  /\ (q.steady => allergic) /\ (q.shut => barred) /\ (q.owner => ~barred)
  /\ q.tool \in Guarded => \A p \in q.plates : shelf[p] # Absent
  /\ q.tool \in Guarded /\ q.steady /\ q.pc = "answer" => q.plates \cap risky \subseteq crossed
  /\ q.pc # "answer" => ~q.shows /\ q.peers = {}
  /\ q.tool \in {"detail", "reviews"} /\ q.shut => ~q.shows
  /\ q.owner => \A p \in q.plates : Scoped(q, p)
  /\ q.owner => \A p \in q.peers : home[p] # Mine \/ p \in q.moved \/ q.plates \cap crossed # {}
  /\ q.owner /\ q.tool \in {"detail", "analyze", "benchmark"} => \E p \in Plate : q.asked = {p}
  /\ q.owner /\ q.tool \in {"detail", "analyze", "benchmark"} /\ q.pc \in {"more", "peers"} =>
       \A p \in q.asked : Scoped(q, p) /\ shelf[p] # Absent /\ (p \in crossed \/ home[p] = Mine)

ToolsInv ==
  /\ home \in [Plate -> House \cup {Gone}] /\ shelf \in [Plate -> ShelfRow] /\ call \in CallRow
  /\ allergic \in BOOLEAN /\ barred \in BOOLEAN
  /\ ShelfKnows /\ CallKnows(call)

USE AgentToolsAssumption

LEMMA NothingIsCalled ==
  /\ NoCall \in CallRow /\ NoCall.pc = "none" /\ NoCall.plates = {} /\ NoCall.peers = {}
  /\ ~NoCall.owner /\ ~NoCall.shows /\ ~NoCall.steady /\ ~NoCall.shut /\ NoCall.tool = "none"
  /\ Absent \in ShelfRow
  /\ CallKnows(NoCall)
BY DEF NoCall, CallRow, Absent, ShelfRow, CallKnows, Guarded

LEMMA ToolsStart == ToolsInit => ToolsInv
<1> SUFFICES ASSUME ToolsInit PROVE ToolsInv
  OBVIOUS
<1>1. /\ home \in [Plate -> House \cup {Gone}] /\ shelf \in [Plate -> ShelfRow] /\ call \in CallRow
      /\ allergic \in BOOLEAN /\ barred \in BOOLEAN
  BY NothingIsCalled DEF ToolsInit
<1>2. ShelfKnows /\ CallKnows(call)
  BY NothingIsCalled DEF ToolsInit, ShelfKnows
<1> QED BY <1>1, <1>2 DEF ToolsInv

(* Fields of a call that goes on.                                           *)
Going(q, pc) == [q EXCEPT !.pc = pc]
Naming(q, pc, dishes) == [q EXCEPT !.pc = pc, !.plates = dishes]
Showing(q, dishes, shown) == [q EXCEPT !.pc = "answer", !.plates = dishes, !.shows = shown]
Comparing(q, pc, p) == [q EXCEPT !.pc = pc, !.asked = @ \ {p}, !.plates = @ \cup {p}]
Facing(q, dishes, rivals) == [q EXCEPT !.pc = "answer", !.plates = dishes, !.peers = rivals]
Beside(q, rivals) == [q EXCEPT !.pc = "answer", !.peers = rivals]
CallPc == {"none", "start", "more", "allergies", "excluded", "peers", "guide", "answer"}
SameCall(q, r) ==
  /\ q \in CallRow /\ q.tool = r.tool /\ q.owner = r.owner /\ q.steady = r.steady /\ q.shut = r.shut
  /\ q.moved = r.moved

LEMMA GoingIs ==
  ASSUME NEW r \in CallRow, NEW pc \in CallPc
  PROVE  /\ SameCall(Going(r, pc), r) /\ Going(r, pc).pc = pc /\ Going(r, pc).plates = r.plates
         /\ Going(r, pc).peers = r.peers /\ Going(r, pc).asked = r.asked /\ Going(r, pc).shows = r.shows
BY DEF CallRow, CallPc, Going, SameCall

LEMMA NamingIs ==
  ASSUME NEW r \in CallRow, NEW pc \in CallPc, NEW dishes \in SUBSET Plate
  PROVE  /\ SameCall(Naming(r, pc, dishes), r) /\ Naming(r, pc, dishes).pc = pc
         /\ Naming(r, pc, dishes).plates = dishes /\ Naming(r, pc, dishes).peers = r.peers
         /\ Naming(r, pc, dishes).asked = r.asked /\ Naming(r, pc, dishes).shows = r.shows
BY DEF CallRow, CallPc, Naming, SameCall

LEMMA ShowingIs ==
  ASSUME NEW r \in CallRow, NEW dishes \in SUBSET Plate, NEW shown \in BOOLEAN
  PROVE  /\ SameCall(Showing(r, dishes, shown), r) /\ Showing(r, dishes, shown).pc = "answer"
         /\ Showing(r, dishes, shown).plates = dishes /\ Showing(r, dishes, shown).peers = r.peers
         /\ Showing(r, dishes, shown).asked = r.asked /\ Showing(r, dishes, shown).shows = shown
BY DEF CallRow, Showing, SameCall

LEMMA ComparingIs ==
  ASSUME NEW r \in CallRow, NEW pc \in CallPc, NEW p \in Plate
  PROVE  /\ SameCall(Comparing(r, pc, p), r) /\ Comparing(r, pc, p).pc = pc
         /\ Comparing(r, pc, p).plates = r.plates \cup {p} /\ Comparing(r, pc, p).peers = r.peers
         /\ Comparing(r, pc, p).shows = r.shows
BY DEF CallRow, CallPc, Comparing, SameCall

LEMMA FacingIs ==
  ASSUME NEW r \in CallRow, NEW dishes \in SUBSET Plate, NEW rivals \in SUBSET Plate
  PROVE  /\ SameCall(Facing(r, dishes, rivals), r) /\ Facing(r, dishes, rivals).pc = "answer"
         /\ Facing(r, dishes, rivals).plates = dishes /\ Facing(r, dishes, rivals).peers = rivals
         /\ Facing(r, dishes, rivals).asked = r.asked /\ Facing(r, dishes, rivals).shows = r.shows
BY DEF CallRow, Facing, SameCall

LEMMA BesideIs ==
  ASSUME NEW r \in CallRow, NEW rivals \in SUBSET Plate
  PROVE  /\ SameCall(Beside(r, rivals), r) /\ Beside(r, rivals).pc = "answer"
         /\ Beside(r, rivals).plates = r.plates /\ Beside(r, rivals).peers = rivals
         /\ Beside(r, rivals).asked = r.asked /\ Beside(r, rivals).shows = r.shows
BY DEF CallRow, Beside, SameCall

(* Rows that are loaded are held as they are; those that were held stay.    *)
LEMMA Loaded ==
  ASSUME ToolsInv, NEW dishes \in SUBSET There, Load(dishes), UNCHANGED world, UNCHANGED crossed
  PROVE  /\ shelf' \in [Plate -> ShelfRow] /\ ShelfKnows'
         /\ \A p \in Plate : shelf[p] # Absent => shelf'[p] # Absent
         /\ \A p \in dishes : shelf'[p] # Absent
<1>1. /\ shelf' = [p \in Plate |-> shelf'[p]]
      /\ \A p \in Plate : shelf'[p] = IF p \in dishes /\ shelf[p] = Absent
                            THEN [home |-> home[p], risky |-> p \in risky] ELSE shelf[p]
  BY DEF Load
<1>2. ASSUME NEW p \in Plate
      PROVE  [home |-> home[p], risky |-> p \in risky] \in ShelfRow
  BY DEF ToolsInv, ShelfRow
<1>3. ASSUME NEW p \in dishes
      PROVE  p \in Plate /\ [home |-> home[p], risky |-> p \in risky] # Absent
  <2>1. p \in Plate /\ home[p] # Gone
    BY DEF There
  <2> QED BY <2>1 DEF Absent
<1>4. shelf' \in [Plate -> ShelfRow]
  BY <1>1, <1>2 DEF ToolsInv
<1>5. \A p \in Plate : shelf[p] # Absent => shelf'[p] = shelf[p]
  BY <1>1
<1>6. \A p \in Plate : shelf[p] = Absent /\ shelf'[p] # Absent =>
        shelf'[p] = [home |-> home[p], risky |-> p \in risky]
  BY <1>1
<1>7. home' = home /\ risky' = risky /\ crossed' = crossed
  BY DEF world
<1>8. ShelfKnows'
  BY <1>5, <1>6, <1>7 DEF ToolsInv, ShelfKnows
<1>9. \A p \in dishes : shelf'[p] # Absent
  BY <1>1, <1>3
<1> QED BY <1>4, <1>5, <1>8, <1>9

LEMMA CallMoves ==
  ASSUME ToolsInv, NEW q \in CallRow, call' = q, CallKnows(q)', UNCHANGED world,
         shelf' \in [Plate -> ShelfRow], ShelfKnows'
  PROVE  ToolsInv'
<1>1. home' = home /\ allergic' = allergic /\ barred' = barred
  BY DEF world
<1>2. CallKnows(call)'
  BY DEF CallKnows, Scoped
<1> QED BY <1>1, <1>2 DEF ToolsInv

(* A call that goes on, with what it knew.                                  *)
LEMMA CallGoesOn ==
  ASSUME ToolsInv, NEW q, call' = q, SameCall(q, call), UNCHANGED world, UNCHANGED crossed,
         call.pc # "none", q.pc # "none",
         shelf' \in [Plate -> ShelfRow], ShelfKnows',
         \A p \in Plate : shelf[p] # Absent => shelf'[p] # Absent,
         q.tool \in Guarded => \A p \in q.plates : shelf'[p] # Absent,
         q.tool \in Guarded /\ q.steady /\ q.pc = "answer" => q.plates \cap risky \subseteq crossed,
         q.pc # "answer" => ~q.shows /\ q.peers = {},
         q.tool \in {"detail", "reviews"} /\ q.shut => ~q.shows,
         q.owner => \A p \in q.plates : Scoped(q, p),
         q.owner => \A p \in q.peers : home[p] # Mine \/ p \in q.moved \/ q.plates \cap crossed # {},
         q.owner /\ q.tool \in {"detail", "analyze", "benchmark"} => q.asked = call.asked,
         q.owner /\ q.tool \in {"detail", "analyze", "benchmark"} /\ q.pc \in {"more", "peers"} =>
           \A p \in q.asked : Scoped(q, p) /\ shelf'[p] # Absent /\ (p \in crossed \/ home[p] = Mine)
  PROVE  ToolsInv'
<1>1. q \in CallRow /\ q.tool = call.tool /\ q.owner = call.owner /\ q.steady = call.steady
      /\ q.shut = call.shut /\ q.moved = call.moved
  BY DEF SameCall
<1>2. home' = home /\ risky' = risky /\ allergic' = allergic /\ barred' = barred /\ crossed' = crossed
  BY DEF world
<1>3. CallKnows(call)
  BY DEF ToolsInv
<1>4. q.owner /\ q.tool \in {"detail", "analyze", "benchmark"} => \E p \in Plate : q.asked = {p}
  BY <1>1, <1>3 DEF CallKnows
<1>5. (q.steady => allergic) /\ (q.shut => barred) /\ (q.owner => ~barred)
  BY <1>1, <1>3 DEF CallKnows
<1>6. CallKnows(q)'
  BY <1>2, <1>4, <1>5 DEF CallKnows, Scoped
<1> QED BY <1>1, <1>6, CallMoves

LEMMA InCall ==
  ASSUME ToolsInv
  PROVE  call \in CallRow /\ CallKnows(call)
BY DEF ToolsInv

(* Calls that name dishes: a first statement loads, and a later one does not. *)
LEMMA CallNames ==
  ASSUME ToolsInv, NEW pc \in CallPc, NEW dishes \in SUBSET Plate, Names(pc, dishes),
         UNCHANGED world, UNCHANGED crossed, call.pc \notin {"none", "answer"}, pc # "none",
         shelf' \in [Plate -> ShelfRow], ShelfKnows',
         \A p \in Plate : shelf[p] # Absent => shelf'[p] # Absent,
         call.tool \in Guarded => \A p \in dishes : shelf'[p] # Absent,
         call.tool \in Guarded /\ call.steady /\ pc = "answer" => dishes \cap risky \subseteq crossed,
         call.owner => \A p \in dishes : Scoped(call, p),
         call.owner /\ call.tool \in {"detail", "analyze", "benchmark"} => pc \notin {"more", "peers"}
  PROVE  ToolsInv'
<1>1. PICK q : q = Naming(call, pc, dishes)
  OBVIOUS
<1>2. call' = q
  BY <1>1 DEF Names, Naming
<1>3. /\ SameCall(q, call) /\ q.pc = pc /\ q.plates = dishes /\ q.peers = call.peers
      /\ q.asked = call.asked /\ q.shows = call.shows
  BY <1>1, InCall, NamingIs
<1>4. call.peers = {} /\ ~call.shows
  BY InCall DEF CallKnows
<1>5. \A p : Scoped(q, p) <=> Scoped(call, p)
  BY <1>3 DEF Scoped, SameCall
<1>6. q.tool = call.tool /\ q.owner = call.owner /\ q.steady = call.steady /\ q.shut = call.shut
  BY <1>3 DEF SameCall
<1> QED BY <1>2, <1>3, <1>4, <1>5, <1>6, CallGoesOn

LEMMA SearchKeeps ==
  ASSUME ToolsInv, NEW dishes \in SUBSET Plate, Search(dishes)
  PROVE  ToolsInv'
<1>1. /\ call.tool = "search" /\ call.pc = "start" /\ dishes \in SUBSET There
      /\ (call.owner => dishes \subseteq Owned) /\ Load(dishes) /\ Names("allergies", dishes)
      /\ UNCHANGED world /\ UNCHANGED crossed
  BY AgentToolsAssumption DEF Search, Running, InReach, There, Owned
<1>2. call.owner => \A p \in dishes : Scoped(call, p)
  BY <1>1 DEF Owned, Scoped
<1>3. "allergies" \in CallPc
  BY DEF CallPc
<1> QED BY <1>1, <1>2, <1>3, Loaded, CallNames

LEMMA RecommendDishesKeeps ==
  ASSUME ToolsInv, ~call.owner, RecommendDishes
  PROVE  ToolsInv'
<1>1. PICK dishes, pc : dishes = call.asked \cap There /\ pc = IF dishes = {} THEN "answer" ELSE "allergies"
  OBVIOUS
<1>2. /\ call.tool = "recommend" /\ call.pc = "start" /\ dishes \in SUBSET There /\ dishes \in SUBSET Plate
      /\ Load(dishes) /\ Names(pc, dishes) /\ UNCHANGED world /\ UNCHANGED crossed
  BY <1>1 DEF RecommendDishes, Running, There
<1>3. pc \in CallPc /\ pc # "none" /\ (pc = "answer" => dishes = {})
  BY <1>1 DEF CallPc
<1> QED BY <1>2, <1>3, Loaded, CallNames

LEMMA ReadAllergiesKeeps ==
  ASSUME ToolsInv, ReadAllergies
  PROVE  ToolsInv'
<1>1. PICK dishes : dishes = Safe(call.plates)
  OBVIOUS
<1>2. PICK shown \in BOOLEAN : shown = (call.tool = "compare" /\ dishes # {})
  OBVIOUS
<1>3. PICK q : q = Showing(call, dishes, shown)
  OBVIOUS
<1>4. /\ call.pc = "allergies" /\ call' = q /\ UNCHANGED world /\ UNCHANGED crossed
      /\ UNCHANGED shelf
  BY <1>1, <1>2, <1>3 DEF ReadAllergies, Shows, Showing
<1>5. dishes \subseteq call.plates /\ dishes \in SUBSET Plate
  BY <1>1, InCall DEF CallRow, Safe
<1>6. call.steady => \A p \in dishes : ~shelf[p].risky
  BY <1>1, InCall DEF CallKnows, Safe, Unsafe
<1>7. ASSUME call.tool \in Guarded, call.steady, NEW p \in dishes \cap risky
      PROVE  p \in crossed
  <2>1. p \in Plate /\ shelf[p] # Absent /\ ~shelf[p].risky
    BY <1>5, <1>6, <1>7, InCall DEF CallKnows
  <2>2. [home |-> home[p], risky |-> p \in risky].risky
    BY <1>7
  <2>3. p \notin crossed => shelf[p] = [home |-> home[p], risky |-> p \in risky]
    BY <2>1 DEF ToolsInv, ShelfKnows
  <2> QED BY <2>1, <2>2, <2>3
<1>8. /\ SameCall(q, call) /\ q.pc = "answer" /\ q.plates = dishes /\ q.peers = call.peers
      /\ q.asked = call.asked /\ q.shows = shown
  BY <1>3, <1>5, InCall, ShowingIs
<1>9. q.tool = call.tool /\ q.owner = call.owner /\ q.steady = call.steady /\ q.shut = call.shut
      /\ q.moved = call.moved
  BY <1>8 DEF SameCall
<1>10. shelf' \in [Plate -> ShelfRow] /\ ShelfKnows'
  BY <1>4 DEF ToolsInv, ShelfKnows, world
<1>11. q.owner => \A p \in q.plates : Scoped(q, p)
  BY <1>5, <1>8, <1>9, InCall DEF CallKnows, Scoped
<1>12. q.tool \in Guarded => \A p \in q.plates : shelf'[p] # Absent
  BY <1>4, <1>5, <1>8, <1>9, InCall DEF CallKnows
<1>13. q.tool \in Guarded /\ q.steady /\ q.pc = "answer" => q.plates \cap risky \subseteq crossed
  BY <1>7, <1>8, <1>9
<1>14. call.peers = {} /\ (q.tool \in {"detail", "reviews"} /\ q.shut => ~q.shows)
  BY <1>2, <1>4, <1>8, <1>9, InCall DEF CallKnows
<1>15. q.peers = {}
  BY <1>8, <1>14
<1> QED BY <1>4, <1>8, <1>9, <1>10, <1>11, <1>12, <1>13, <1>14, <1>15, CallGoesOn

LEMMA CompareOneKeeps ==
  ASSUME ToolsInv, ~call.owner, NEW p \in Plate, CompareOne(p)
  PROVE  ToolsInv'
<1>1. /\ call.tool = "compare" /\ call.pc = "start" /\ Load({p}) /\ {p} \in SUBSET There
      /\ UNCHANGED world /\ UNCHANGED crossed
  BY DEF CompareOne, Running
<1>2. /\ shelf' \in [Plate -> ShelfRow] /\ ShelfKnows'
      /\ \A r \in Plate : shelf[r] # Absent => shelf'[r] # Absent
      /\ \A r \in {p} : shelf'[r] # Absent
  BY <1>1, Loaded
<1>3. PICK pc : pc = IF call.asked = {p} THEN "allergies" ELSE "start"
  OBVIOUS
<1>4. PICK q : q = Comparing(call, pc, p)
  OBVIOUS
<1>5. call' = q
  BY <1>3, <1>4 DEF CompareOne, Comparing
<1>6. pc \in CallPc /\ pc \notin {"none", "answer"}
  BY <1>3 DEF CallPc
<1>7. /\ SameCall(q, call) /\ q.pc = pc /\ q.plates = call.plates \cup {p}
      /\ q.peers = call.peers /\ q.shows = call.shows
  BY <1>4, <1>6, InCall, ComparingIs
<1>8. call.peers = {} /\ ~call.shows /\ \A r \in call.plates : r \in Plate /\ shelf[r] # Absent
  BY <1>1, InCall DEF CallKnows, CallRow, Guarded
<1>9. \A r \in q.plates : shelf'[r] # Absent
  BY <1>2, <1>7, <1>8
<1>10. q.tool = "compare" /\ ~q.owner
  BY <1>1, <1>7 DEF SameCall
<1> QED BY <1>1, <1>2, <1>5, <1>6, <1>7, <1>8, <1>9, <1>10, CallGoesOn

LEMMA AskBackKeeps ==
  ASSUME ToolsInv, NEW found \in SUBSET Plate, AskBack(found)
  PROVE  ToolsInv'
<1>1. PICK dishes : dishes = call.plates \cup found
  OBVIOUS
<1>2. /\ call.pc = "start" /\ found \in SUBSET There /\ (call.owner => found \subseteq Owned)
      /\ Load(found) /\ Names("guide", dishes) /\ UNCHANGED world /\ UNCHANGED crossed
  BY <1>1 DEF AskBack, InReach, There, Owned
<1>3. /\ shelf' \in [Plate -> ShelfRow] /\ ShelfKnows'
      /\ \A p \in Plate : shelf[p] # Absent => shelf'[p] # Absent
      /\ \A p \in found : shelf'[p] # Absent
  BY <1>2, Loaded
<1>4. dishes \in SUBSET Plate /\ call.plates \subseteq Plate
  BY <1>1, InCall DEF CallRow
<1>5. call.owner => \A p \in dishes : Scoped(call, p)
  BY <1>1, <1>2, InCall DEF CallKnows, Owned, Scoped
<1>6. call.tool \in Guarded => \A p \in dishes : shelf'[p] # Absent
  BY <1>1, <1>3, <1>4, InCall DEF CallKnows
<1>7. "guide" \in CallPc
  BY DEF CallPc
<1> QED BY <1>2, <1>3, <1>4, <1>5, <1>6, <1>7, CallNames

LEMMA SurpriseKeeps ==
  ASSUME ToolsInv, ~call.owner, NEW p \in Plate, Surprise(p)
  PROVE  ToolsInv'
<1>1. /\ call.tool = "surprise" /\ call.pc = "start" /\ Load({p}) /\ Names("answer", {p})
      /\ {p} \in SUBSET There /\ UNCHANGED world /\ UNCHANGED crossed
  BY DEF Surprise, Running
<1>2. "answer" \in CallPc /\ "surprise" \notin Guarded
  BY DEF CallPc, Guarded
<1> QED BY <1>1, <1>2, Loaded, CallNames

LEMMA RankMyDishesKeeps ==
  ASSUME ToolsInv, RankMyDishes
  PROVE  ToolsInv'
<1>1. /\ call.tool = "rank" /\ call.pc = "start" /\ Load(Owned) /\ Names("answer", Owned)
      /\ UNCHANGED world /\ UNCHANGED crossed
  BY DEF RankMyDishes, Running
<1>2. "answer" \in CallPc /\ "rank" \notin Guarded /\ Owned \in SUBSET There /\ Owned \in SUBSET Plate
  BY DEF CallPc, Guarded, Owned, There
<1>3. \A p \in Owned : Scoped(call, p)
  BY DEF Owned, Scoped
<1> QED BY <1>1, <1>2, <1>3, Loaded, CallNames

LEMMA BaselineOwnKeeps ==
  ASSUME ToolsInv, BaselineOwn
  PROVE  ToolsInv'
<1>1. /\ call.tool = "baseline" /\ call.pc = "start" /\ Names("peers", Owned)
      /\ UNCHANGED world /\ UNCHANGED crossed /\ UNCHANGED shelf
  BY DEF BaselineOwn, Running
<1>2. "peers" \in CallPc /\ "baseline" \notin Guarded /\ Owned \in SUBSET Plate
  BY DEF CallPc, Guarded, Owned
<1>3. \A p \in Owned : Scoped(call, p)
  BY DEF Owned, Scoped
<1>4. shelf' \in [Plate -> ShelfRow] /\ ShelfKnows'
  BY <1>1 DEF ToolsInv, ShelfKnows, world
<1> QED BY <1>1, <1>2, <1>3, <1>4, CallNames

LEMMA AnalyzeKeeps ==
  ASSUME ToolsInv, Analyze
  PROVE  ToolsInv'
<1>1. /\ call.tool = "analyze" /\ call.pc = "more" /\ Names("answer", call.asked)
      /\ UNCHANGED world /\ UNCHANGED crossed /\ UNCHANGED shelf
  BY DEF Analyze, Running
<1>2. "answer" \in CallPc /\ "analyze" \notin Guarded /\ call.asked \in SUBSET Plate
  BY InCall DEF CallPc, Guarded, CallRow
<1>3. call.owner => \A p \in call.asked : Scoped(call, p)
  BY <1>1, InCall DEF CallKnows
<1>4. shelf' \in [Plate -> ShelfRow] /\ ShelfKnows'
  BY <1>1 DEF ToolsInv, ShelfKnows, world
<1> QED BY <1>1, <1>2, <1>3, <1>4, CallNames

LEMMA ResolveOneKeeps ==
  ASSUME ToolsInv, NEW p \in Plate, ResolveOne(p)
  PROVE  ToolsInv'
<1>1. /\ call.tool \in {"detail", "analyze", "benchmark"} /\ call.pc = "start" /\ p \in call.asked
      /\ p \in InReach /\ Load({p}) /\ UNCHANGED world /\ UNCHANGED crossed
  BY DEF ResolveOne, Resolving
<1>2. {p} \in SUBSET There
  BY <1>1, AgentToolsAssumption DEF InReach, There, Owned
<1>3. /\ shelf' \in [Plate -> ShelfRow] /\ ShelfKnows'
      /\ \A r \in Plate : shelf[r] # Absent => shelf'[r] # Absent
      /\ \A r \in {p} : shelf'[r] # Absent
  BY <1>1, <1>2, Loaded
<1>4. PICK q : q = Going(call, "more")
  OBVIOUS
<1>5. call' = q
  BY <1>4 DEF ResolveOne, Goes, Going
<1>6. "more" \in CallPc
  BY DEF CallPc
<1>7. /\ SameCall(q, call) /\ q.pc = "more" /\ q.plates = call.plates
      /\ q.peers = call.peers /\ q.asked = call.asked /\ q.shows = call.shows
  BY <1>4, <1>6, InCall, GoingIs
<1>8. q.tool = call.tool /\ q.owner = call.owner /\ q.moved = call.moved
  BY <1>7 DEF SameCall
<1>9. /\ ~call.shows /\ call.peers = {} /\ (call.owner => \A r \in call.plates : Scoped(call, r))
      /\ call.owner => call.asked = {p}
  BY <1>1, InCall DEF CallKnows
<1>10. \A r : Scoped(q, r) <=> Scoped(call, r)
  BY <1>8 DEF Scoped
<1>11. call.owner => home[p] = Mine /\ shelf'[p] # Absent
  BY <1>1, <1>3 DEF InReach, Owned
<1>12. q.tool \notin Guarded
  BY <1>1, <1>8 DEF Guarded
<1>13. q.owner => \A r \in q.asked : Scoped(q, r) /\ shelf'[r] # Absent /\ (r \in crossed \/ home[r] = Mine)
  BY <1>7, <1>8, <1>9, <1>11 DEF Scoped
<1> QED BY <1>1, <1>3, <1>5, <1>7, <1>8, <1>9, <1>10, <1>12, <1>13, CallGoesOn

(* Calls that show reviews, or not.                                         *)
LEMMA CallShows ==
  ASSUME ToolsInv, NEW dishes \in SUBSET Plate, NEW shown \in BOOLEAN, Shows(dishes, shown),
         UNCHANGED world, UNCHANGED crossed, call.pc \notin {"none", "answer"},
         shelf' \in [Plate -> ShelfRow], ShelfKnows',
         \A p \in Plate : shelf[p] # Absent => shelf'[p] # Absent,
         call.tool \notin Guarded, call.shut => ~shown,
         call.owner => \A p \in dishes : Scoped(call, p)
  PROVE  ToolsInv'
<1>1. PICK q : q = Showing(call, dishes, shown)
  OBVIOUS
<1>2. call' = q
  BY <1>1 DEF Shows, Showing
<1>3. /\ SameCall(q, call) /\ q.pc = "answer" /\ q.plates = dishes /\ q.peers = call.peers
      /\ q.asked = call.asked /\ q.shows = shown
  BY <1>1, InCall, ShowingIs
<1>4. call.peers = {}
  BY InCall DEF CallKnows
<1>5. \A p : Scoped(q, p) <=> Scoped(call, p)
  BY <1>3 DEF Scoped, SameCall
<1>6. q.tool = call.tool /\ q.owner = call.owner /\ q.steady = call.steady /\ q.shut = call.shut
  BY <1>3 DEF SameCall
<1> QED BY <1>2, <1>3, <1>4, <1>5, <1>6, CallGoesOn

LEMMA DetailKeeps ==
  ASSUME ToolsInv, NEW p \in Plate, Detail(p)
  PROVE  ToolsInv'
<1>1. /\ call.tool = "detail" /\ call.pc = "more" /\ p \in call.asked /\ Load({p} \cap There)
      /\ UNCHANGED world /\ UNCHANGED crossed
  BY DEF Detail, Running
<1>2. /\ shelf' \in [Plate -> ShelfRow] /\ ShelfKnows'
      /\ \A r \in Plate : shelf[r] # Absent => shelf'[r] # Absent
  BY <1>1, Loaded
<1>3. call.owner => Scoped(call, p) /\ ~call.shut
  BY <1>1, InCall DEF CallKnows
<1>4. call.tool \notin Guarded
  BY <1>1 DEF Guarded
<1>5. CASE Goes("answer")
  <2>1. Names("answer", call.plates) /\ "answer" \in CallPc
    <3>1. PICK q : q = [call EXCEPT !.pc = "answer"]
      OBVIOUS
    <3>2. q = [call EXCEPT !.pc = "answer", !.plates = call.plates]
      BY <3>1, InCall DEF CallRow
    <3> QED BY <1>5, <3>1, <3>2 DEF Goes, Names, CallPc
  <2>2. call.plates \in SUBSET Plate /\ (call.owner => \A r \in call.plates : Scoped(call, r))
    BY InCall DEF CallRow, CallKnows
  <2> QED BY <1>1, <1>2, <1>4, <2>1, <2>2, CallNames
<1>6. CASE call.owner /\ Shows({p}, TRUE)
  BY <1>1, <1>2, <1>3, <1>4, <1>6, CallShows
<1>7. CASE ~call.owner /\ Names("excluded", {p})
  <2>1. "excluded" \in CallPc
    BY DEF CallPc
  <2> QED BY <1>1, <1>2, <1>4, <1>7, <2>1, CallNames
<1> QED BY <1>5, <1>6, <1>7 DEF Detail

LEMMA ReadExcludedKeeps ==
  ASSUME ToolsInv, ReadExcluded
  PROVE  ToolsInv'
<1>1. /\ call.tool = "detail" /\ call.pc = "excluded" /\ Shows(call.plates, ~barred)
      /\ UNCHANGED world /\ UNCHANGED crossed /\ UNCHANGED shelf
  BY DEF ReadExcluded, Running
<1>2. PICK shown \in BOOLEAN : shown = ~barred
  OBVIOUS
<1>3. Shows(call.plates, shown)
  BY <1>1, <1>2 DEF Shows
<1>4. shelf' \in [Plate -> ShelfRow] /\ ShelfKnows'
  BY <1>1 DEF ToolsInv, ShelfKnows, world
<1>5. /\ call.plates \in SUBSET Plate /\ (call.owner => \A r \in call.plates : Scoped(call, r))
      /\ (call.shut => ~shown)
  BY <1>2, InCall DEF CallRow, CallKnows
<1>6. call.tool \notin Guarded
  BY <1>1 DEF Guarded
<1> QED BY <1>1, <1>3, <1>4, <1>5, <1>6, CallShows

LEMMA ListRestaurantReviewsKeeps ==
  ASSUME ToolsInv, ~call.owner, NEW h \in House, ListRestaurantReviews(h)
  PROVE  ToolsInv'
<1>1. PICK dishes : dishes = {p \in Plate : home[p] = h}
  OBVIOUS
<1>2. PICK shown \in BOOLEAN : shown = (dishes # {} /\ ~barred)
  OBVIOUS
<1>3. /\ call.tool = "reviews" /\ call.pc = "start" /\ Load(dishes) /\ Shows(dishes, shown)
      /\ UNCHANGED world /\ UNCHANGED crossed
  BY <1>1, <1>2 DEF ListRestaurantReviews, Running, Shows
<1>4. dishes \in SUBSET There /\ dishes \in SUBSET Plate
  BY <1>1 DEF There
<1>5. (call.shut => ~shown) /\ call.tool \notin Guarded
  BY <1>2, <1>3, InCall DEF CallKnows, Guarded
<1> QED BY <1>3, <1>4, <1>5, Loaded, CallShows

LEMMA BenchmarkKeeps ==
  ASSUME ToolsInv, Benchmark
  PROVE  ToolsInv'
<1>1. /\ call.tool = "benchmark" /\ call.pc = "more" /\ Load(call.asked \cap There)
      /\ UNCHANGED world /\ UNCHANGED crossed
  BY DEF Benchmark, Running
<1>2. /\ shelf' \in [Plate -> ShelfRow] /\ ShelfKnows'
      /\ \A r \in Plate : shelf[r] # Absent => shelf'[r] # Absent
  BY <1>1, Loaded
<1>3. PICK pc : pc = IF call.asked \subseteq There THEN "peers" ELSE "answer"
  OBVIOUS
<1>4. PICK q : q = Going(call, pc)
  OBVIOUS
<1>5. call' = q
  BY <1>3, <1>4 DEF Benchmark, Goes, Going
<1>6. pc \in CallPc /\ pc \in {"peers", "answer"}
  BY <1>3 DEF CallPc
<1>7. /\ SameCall(q, call) /\ q.pc = pc /\ q.plates = call.plates
      /\ q.peers = call.peers /\ q.asked = call.asked /\ q.shows = call.shows
  BY <1>4, <1>6, InCall, GoingIs
<1>8. q.tool = call.tool /\ q.owner = call.owner /\ q.moved = call.moved
  BY <1>7 DEF SameCall
<1>9. \A r : Scoped(q, r) <=> Scoped(call, r)
  BY <1>8 DEF Scoped
<1>10. /\ ~call.shows /\ call.peers = {} /\ (call.owner => \A r \in call.plates : Scoped(call, r))
       /\ call.owner => \A r \in call.asked :
            Scoped(call, r) /\ shelf[r] # Absent /\ (r \in crossed \/ home[r] = Mine)
  BY <1>1, InCall DEF CallKnows
<1>11. call.asked \subseteq Plate
  BY InCall DEF CallRow
<1>12. q.owner => \A r \in q.asked :
         Scoped(q, r) /\ shelf'[r] # Absent /\ (r \in crossed \/ home[r] = Mine)
  BY <1>2, <1>7, <1>8, <1>9, <1>10, <1>11
<1>13. q.tool \notin Guarded /\ q.tool \notin {"detail", "reviews"}
  BY <1>1, <1>8 DEF Guarded
<1> QED BY <1>1, <1>2, <1>5, <1>6, <1>7, <1>8, <1>9, <1>10, <1>12, <1>13, CallGoesOn

LEMMA BenchmarkPeersKeeps ==
  ASSUME ToolsInv, NEW p \in Plate, BenchmarkPeers(p)
  PROVE  ToolsInv'
<1>1. PICK rivals : rivals = Rivals(p)
  OBVIOUS
<1>2. /\ call.tool = "benchmark" /\ call.pc = "peers" /\ call.asked = {p} /\ Load(rivals)
      /\ UNCHANGED world /\ UNCHANGED crossed
  BY <1>1 DEF BenchmarkPeers, Running
<1>3. rivals \in SUBSET There /\ rivals \in SUBSET Plate /\ \A r \in rivals : home[r] # shelf[p].home
  BY <1>1 DEF Rivals, There
<1>4. /\ shelf' \in [Plate -> ShelfRow] /\ ShelfKnows'
      /\ \A r \in Plate : shelf[r] # Absent => shelf'[r] # Absent
  BY <1>2, <1>3, Loaded
<1>5. PICK q : q = Facing(call, {p}, rivals)
  OBVIOUS
<1>6. call' = q
  BY <1>1, <1>5 DEF BenchmarkPeers, Facing
<1>7. /\ SameCall(q, call) /\ q.pc = "answer" /\ q.plates = {p}
      /\ q.peers = rivals /\ q.asked = call.asked /\ q.shows = call.shows
  BY <1>3, <1>5, InCall, FacingIs
<1>8. q.tool = call.tool /\ q.owner = call.owner /\ q.moved = call.moved
  BY <1>7 DEF SameCall
<1>9. ~call.shows /\ (call.owner => /\ Scoped(call, p) /\ shelf[p] # Absent
                                   /\ (p \in crossed \/ home[p] = Mine))
  BY <1>2, InCall DEF CallKnows
<1>10. ASSUME call.owner, p \notin crossed
       PROVE  shelf[p].home = Mine
  <2>1. shelf[p] = [home |-> home[p], risky |-> p \in risky] /\ home[p] = Mine
    BY <1>9, <1>10 DEF ToolsInv, ShelfKnows
  <2>2. [home |-> home[p], risky |-> p \in risky].home = home[p]
    OBVIOUS
  <2> QED BY <2>1, <2>2
<1>11. q.owner => \A r \in q.peers : home[r] # Mine \/ r \in q.moved \/ q.plates \cap crossed # {}
  BY <1>3, <1>7, <1>8, <1>10
<1>12. q.owner => \A r \in q.plates : Scoped(q, r)
  BY <1>7, <1>8, <1>9 DEF Scoped
<1>13. q.tool \notin Guarded /\ q.tool \notin {"detail", "reviews"}
  BY <1>2, <1>8 DEF Guarded
<1> QED BY <1>2, <1>4, <1>6, <1>7, <1>11, <1>12, <1>13, CallGoesOn

LEMMA BaselinePeersKeeps ==
  ASSUME ToolsInv, BaselinePeers
  PROVE  ToolsInv'
<1>1. PICK rivals : rivals = There \ Owned
  OBVIOUS
<1>2. /\ call.tool = "baseline" /\ call.pc = "peers" /\ UNCHANGED world /\ UNCHANGED crossed /\ UNCHANGED shelf
  BY DEF BaselinePeers, Running
<1>3. rivals \in SUBSET Plate /\ \A r \in rivals : home[r] # Mine
  BY <1>1 DEF There, Owned
<1>4. PICK q : q = Beside(call, rivals)
  OBVIOUS
<1>5. call' = q
  BY <1>1, <1>4 DEF BaselinePeers, Beside
<1>6. /\ SameCall(q, call) /\ q.pc = "answer" /\ q.plates = call.plates
      /\ q.peers = rivals /\ q.asked = call.asked /\ q.shows = call.shows
  BY <1>3, <1>4, InCall, BesideIs
<1>7. q.tool = call.tool /\ q.owner = call.owner /\ q.moved = call.moved
  BY <1>6 DEF SameCall
<1>8. ~call.shows /\ (call.owner => \A r \in call.plates : Scoped(call, r))
  BY <1>2, InCall DEF CallKnows
<1>9. q.owner => \A r \in q.plates : Scoped(q, r)
  BY <1>6, <1>7, <1>8 DEF Scoped
<1>10. shelf' \in [Plate -> ShelfRow] /\ ShelfKnows'
  BY <1>2 DEF ToolsInv, ShelfKnows, world
<1>11. q.tool \notin Guarded /\ q.tool \notin {"detail", "reviews", "analyze", "benchmark"}
  BY <1>2, <1>7 DEF Guarded
<1> QED BY <1>2, <1>3, <1>5, <1>6, <1>9, <1>10, <1>11, CallGoesOn

LEMMA ReturnKeeps ==
  ASSUME ToolsInv, Return
  PROVE  ToolsInv'
<1>1. UNCHANGED world /\ UNCHANGED shelf /\ UNCHANGED crossed /\ call' = NoCall
  BY DEF Return
<1>2. shelf' \in [Plate -> ShelfRow] /\ ShelfKnows'
  BY <1>1 DEF ToolsInv, ShelfKnows, world
<1>3. CallKnows(NoCall)'
  BY NothingIsCalled DEF CallKnows, Guarded
<1> QED BY <1>1, <1>2, <1>3, NothingIsCalled, CallMoves

Begun(tool, ids, owner, steady, shut) ==
  [NoCall EXCEPT !.tool = tool, !.owner = owner, !.pc = "start", !.asked = ids, !.steady = steady, !.shut = shut]

LEMMA BeginKeeps ==
  ASSUME ToolsInv, NEW tool \in DinerTool \cup OwnerTool, NEW ids \in SUBSET Plate, NEW owner \in BOOLEAN,
         Begin(tool, ids, owner), owner => ~barred,
         owner /\ tool \in {"detail", "analyze", "benchmark"} => \E p \in Plate : ids = {p}
  PROVE  ToolsInv' /\ (call'.owner => owner)
<1>1. UNCHANGED world /\ UNCHANGED shelf /\ UNCHANGED crossed
  BY DEF Begin
<1>2. PICK steady \in BOOLEAN, shut \in BOOLEAN : steady = allergic /\ shut = barred
  BY DEF ToolsInv
<1>3. PICK q : q = Begun(tool, ids, owner, steady, shut)
  OBVIOUS
<1>4. call' = q
  BY <1>2, <1>3 DEF Begin, Begun
<1>5. /\ q \in CallRow /\ q.tool = tool /\ q.owner = owner /\ q.pc = "start" /\ q.asked = ids
      /\ q.steady = steady /\ q.shut = shut /\ q.plates = {} /\ q.peers = {} /\ ~q.shows
  BY <1>3 DEF Begun, NoCall, CallRow
<1>6. shelf' \in [Plate -> ShelfRow] /\ ShelfKnows'
  BY <1>1 DEF ToolsInv, ShelfKnows, world
<1>7. allergic' = allergic /\ barred' = barred
  BY <1>1 DEF world
<1>8. /\ q.pc # "none" /\ q.pc # "answer" /\ q.pc \notin {"more", "peers"}
      /\ (q.steady => allergic') /\ (q.shut => barred') /\ (q.owner => ~barred')
  BY <1>2, <1>5, <1>7
<1>9. CallKnows(q)'
  BY <1>5, <1>8 DEF CallKnows
<1> QED BY <1>1, <1>4, <1>5, <1>6, <1>9, CallMoves

LEMMA ForgetRowsKeeps ==
  ASSUME ToolsInv, NEW dishes \in SUBSET Plate, ForgetRows(dishes)
  PROVE  ToolsInv'
<1>1. call.pc = "none" /\ UNCHANGED world /\ call' = call /\ crossed' = crossed \ dishes
  BY DEF ForgetRows
<1>2. /\ shelf' \in [Plate -> ShelfRow]
      /\ \A p \in Plate : shelf'[p] = IF p \in dishes THEN Absent ELSE shelf[p]
  BY NothingIsCalled DEF ForgetRows, ToolsInv
<1>3. ShelfKnows'
  BY <1>1, <1>2 DEF ToolsInv, ShelfKnows, world
<1>4. call = NoCall
  BY <1>1, InCall DEF CallKnows
<1>5. CallKnows(NoCall)'
  BY NothingIsCalled DEF CallKnows, Guarded
<1> QED BY <1>1, <1>2, <1>3, <1>4, <1>5, NothingIsCalled, CallMoves

LEMMA NothingToForget ==
  ASSUME NEW r \in CallRow
  PROVE  /\ ~r.steady => [r EXCEPT !.steady = FALSE] = r
         /\ ~r.shut => [r EXCEPT !.shut = FALSE] = r
<1>1. ASSUME ~r.steady PROVE [r EXCEPT !.steady = FALSE] = r
  BY <1>1 DEF CallRow
<1>2. ASSUME ~r.shut PROVE [r EXCEPT !.shut = FALSE] = r
  BY <1>2 DEF CallRow
<1> QED BY <1>1, <1>2

(* The others: what a plate says, where it is, an allergy, a block.         *)
LEMMA EditTextKeeps ==
  ASSUME ToolsInv, NEW p \in Plate, EditText(p)
  PROVE  ToolsInv'
<1>1. /\ home' = home /\ shelf' = shelf /\ call' = call /\ allergic' = allergic /\ barred' = barred
      /\ crossed \subseteq crossed' /\ (shelf[p] # Absent => p \in crossed')
      /\ \A r : r # p => (r \in risky' <=> r \in risky)
  BY DEF EditText, TouchPlate
<1>2. ShelfKnows'
  <2> SUFFICES ASSUME NEW r \in Plate, shelf'[r] # Absent, r \notin crossed'
               PROVE  shelf'[r] = [home |-> home'[r], risky |-> r \in risky']
    BY DEF ShelfKnows
  <2>1. r # p /\ shelf[r] # Absent /\ r \notin crossed
    BY <1>1
  <2>2. (r \in risky') = (r \in risky)
    BY <1>1, <2>1
  <2>3. shelf[r] = [home |-> home[r], risky |-> r \in risky]
    BY <2>1 DEF ToolsInv, ShelfKnows
  <2> QED BY <1>1, <2>2, <2>3
<1>3. PICK q \in CallRow : q = call
  BY InCall
<1>4. CallKnows(q)
  BY <1>3, InCall
<1>5. q.tool \in Guarded /\ q.steady /\ q.pc = "answer" => q.plates \cap risky' \subseteq crossed'
  <2> SUFFICES ASSUME q.tool \in Guarded, q.steady, q.pc = "answer", NEW r \in q.plates \cap risky'
               PROVE  r \in crossed'
    OBVIOUS
  <2>1. r \in Plate /\ shelf[r] # Absent /\ q.plates \cap risky \subseteq crossed
    BY <1>4 DEF CallKnows, CallRow
  <2> QED BY <1>1, <2>1
<1>6. q.owner => \A r \in q.peers : home[r] # Mine \/ r \in q.moved \/ q.plates \cap crossed' # {}
  BY <1>1, <1>4 DEF CallKnows
<1>7. CallKnows(q)'
  BY <1>1, <1>4, <1>5, <1>6 DEF CallKnows, Scoped
<1>8. CallKnows(call)'
  BY <1>1, <1>3, <1>7 DEF CallKnows, Scoped
<1> QED BY <1>1, <1>2, <1>8 DEF ToolsInv

LEMMA MovePlateKeeps ==
  ASSUME ToolsInv, NEW p \in Plate, NEW h \in House \cup {Gone}, MovePlate(p, h)
  PROVE  ToolsInv' /\ call'.owner = call.owner
<1>1. /\ risky' = risky /\ shelf' = shelf /\ allergic' = allergic /\ barred' = barred
      /\ crossed \subseteq crossed' /\ (shelf[p] # Absent => p \in crossed')
      /\ home' \in [Plate -> House \cup {Gone}]
      /\ \A r \in Plate : r # p => home'[r] = home[r]
      /\ call' = IF call.pc = "none" THEN call ELSE [call EXCEPT !.moved = @ \cup {p}]
  BY DEF MovePlate, TouchPlate, ToolsInv
<1>2. ShelfKnows'
  <2> SUFFICES ASSUME NEW r \in Plate, shelf'[r] # Absent, r \notin crossed'
               PROVE  shelf'[r] = [home |-> home'[r], risky |-> r \in risky']
    BY DEF ShelfKnows
  <2>1. r # p /\ shelf[r] # Absent /\ r \notin crossed
    BY <1>1
  <2>2. shelf[r] = [home |-> home[r], risky |-> r \in risky]
    BY <2>1 DEF ToolsInv, ShelfKnows
  <2> QED BY <1>1, <2>1, <2>2
<1>3. PICK r \in CallRow : r = call
  BY InCall
<1>4. CallKnows(r)
  BY <1>3, InCall
<1>5. CASE call.pc = "none"
  <2>1. call' = NoCall /\ call = NoCall
    BY <1>1, <1>3, <1>4, <1>5 DEF CallKnows
  <2>2. CallKnows(NoCall)'
    BY NothingIsCalled DEF CallKnows, Guarded
  <2>3. CallKnows(call)'
    BY <2>1, <2>2 DEF CallKnows, Scoped
  <2> QED BY <1>1, <1>2, <2>1, <2>3, NothingIsCalled DEF ToolsInv
<1>6. CASE call.pc # "none"
  <2>1. PICK q : q = [r EXCEPT !.moved = @ \cup {p}]
    OBVIOUS
  <2>2. /\ q \in CallRow /\ q.tool = r.tool /\ q.owner = r.owner /\ q.pc = r.pc /\ q.plates = r.plates
        /\ q.peers = r.peers /\ q.asked = r.asked /\ q.shows = r.shows /\ q.steady = r.steady
        /\ q.shut = r.shut /\ q.moved = r.moved \cup {p}
    BY <2>1 DEF CallRow
  <2>3. call' = q
    BY <1>1, <1>3, <1>6, <2>1
  <2>4. q.owner => \A v \in q.plates : home'[v] = Mine \/ v \in q.moved
    BY <1>1, <1>4, <2>2 DEF CallKnows, Scoped, CallRow
  <2>5. q.owner => \A v \in q.peers : home'[v] # Mine \/ v \in q.moved \/ q.plates \cap crossed' # {}
    <3> SUFFICES ASSUME q.owner, NEW v \in q.peers
                 PROVE  home'[v] # Mine \/ v \in q.moved \/ q.plates \cap crossed' # {}
      OBVIOUS
    <3>1. v \in Plate /\ (home[v] # Mine \/ v \in r.moved \/ r.plates \cap crossed # {})
      BY <1>4, <2>2 DEF CallKnows, CallRow
    <3> QED BY <1>1, <2>2, <3>1
  <2>6. q.owner /\ q.tool \in {"detail", "analyze", "benchmark"} /\ q.pc \in {"more", "peers"} =>
          \A v \in q.asked : /\ home'[v] = Mine \/ v \in q.moved
                            /\ shelf'[v] # Absent /\ (v \in crossed' \/ home'[v] = Mine)
    <3> SUFFICES ASSUME q.owner, q.tool \in {"detail", "analyze", "benchmark"}, q.pc \in {"more", "peers"},
                        NEW v \in q.asked
                 PROVE  /\ home'[v] = Mine \/ v \in q.moved
                        /\ shelf'[v] # Absent /\ (v \in crossed' \/ home'[v] = Mine)
      OBVIOUS
    <3>1. v \in Plate /\ (home[v] = Mine \/ v \in r.moved) /\ shelf[v] # Absent
          /\ (v \in crossed \/ home[v] = Mine)
      BY <1>4, <2>2 DEF CallKnows, CallRow, Scoped
    <3> QED BY <1>1, <2>2, <3>1
  <2>7. CallKnows(q)'
    <3>1. q.pc # "none" /\ (q.owner => \A v \in q.plates : Scoped(q, v)')
      BY <1>3, <1>6, <2>2, <2>4 DEF Scoped
    <3>2. q.tool \in Guarded /\ q.steady /\ q.pc = "answer" => q.plates \cap risky' \subseteq crossed'
      BY <1>1, <1>4, <2>2 DEF CallKnows
    <3>3. /\ (q.steady => allergic') /\ (q.shut => barred') /\ (q.owner => ~barred')
          /\ q.tool \in Guarded => \A v \in q.plates : shelf'[v] # Absent
      BY <1>1, <1>4, <2>2 DEF CallKnows
    <3>4. /\ q.pc # "answer" => ~q.shows /\ q.peers = {}
          /\ q.tool \in {"detail", "reviews"} /\ q.shut => ~q.shows
          /\ q.owner /\ q.tool \in {"detail", "analyze", "benchmark"} => \E v \in Plate : q.asked = {v}
      BY <1>4, <2>2 DEF CallKnows
    <3> QED BY <2>5, <2>6, <3>1, <3>2, <3>3, <3>4 DEF CallKnows, Scoped
  <2>8. CallKnows(call)'
    BY <2>3, <2>7 DEF CallKnows, Scoped
  <2> QED BY <1>1, <1>2, <1>3, <2>2, <2>3, <2>8 DEF ToolsInv
<1> QED BY <1>5, <1>6

LEMMA SetAllergyKeeps ==
  ASSUME ToolsInv, SetAllergy
  PROVE  ToolsInv' /\ call'.owner = call.owner
<1>1. /\ UNCHANGED home /\ UNCHANGED risky /\ UNCHANGED barred /\ UNCHANGED shelf /\ UNCHANGED crossed
      /\ allergic' \in BOOLEAN /\ call' = [call EXCEPT !.steady = FALSE]
  BY DEF SetAllergy
<1>2. PICK r \in CallRow : r = call
  BY InCall
<1>3. PICK q : q = [r EXCEPT !.steady = FALSE]
  OBVIOUS
<1>4. /\ q \in CallRow /\ q.tool = r.tool /\ q.owner = r.owner /\ q.pc = r.pc /\ q.plates = r.plates
      /\ q.peers = r.peers /\ q.asked = r.asked /\ q.shows = r.shows /\ ~q.steady
      /\ q.shut = r.shut /\ q.moved = r.moved
  BY <1>3 DEF CallRow
<1>5. CallKnows(r)
  BY <1>2, InCall
<1>6. r.pc = "none" => q = NoCall
  <2>1. r.pc = "none" => r = NoCall
    BY <1>5 DEF CallKnows
  <2> QED BY <1>3, <2>1, NothingIsCalled, NothingToForget
<1>7. CallKnows(q)'
  BY <1>1, <1>4, <1>5, <1>6 DEF CallKnows, Scoped
<1>8. call' = q /\ ShelfKnows'
  BY <1>1, <1>2, <1>3 DEF ToolsInv, ShelfKnows
<1>9. CallKnows(call)'
  BY <1>7, <1>8 DEF CallKnows, Scoped
<1> QED BY <1>1, <1>2, <1>4, <1>8, <1>9 DEF ToolsInv

LEMMA SetBlockKeeps ==
  ASSUME ToolsInv, ~call.owner, SetBlock
  PROVE  ToolsInv' /\ call'.owner = call.owner
<1>1. /\ UNCHANGED home /\ UNCHANGED risky /\ UNCHANGED allergic /\ UNCHANGED shelf /\ UNCHANGED crossed
      /\ barred' \in BOOLEAN /\ call' = [call EXCEPT !.shut = FALSE]
  BY DEF SetBlock
<1>2. PICK r \in CallRow : r = call
  BY InCall
<1>3. PICK q : q = [r EXCEPT !.shut = FALSE]
  OBVIOUS
<1>4. /\ q \in CallRow /\ q.tool = r.tool /\ q.owner = r.owner /\ q.pc = r.pc /\ q.plates = r.plates
      /\ q.peers = r.peers /\ q.asked = r.asked /\ q.shows = r.shows /\ q.steady = r.steady
      /\ ~q.shut /\ q.moved = r.moved
  BY <1>3 DEF CallRow
<1>5. CallKnows(r) /\ ~r.owner
  BY <1>2, InCall
<1>6. r.pc = "none" => q = NoCall
  <2>1. r.pc = "none" => r = NoCall
    BY <1>5 DEF CallKnows
  <2> QED BY <1>3, <2>1, NothingIsCalled, NothingToForget
<1>7. CallKnows(q)'
  BY <1>1, <1>4, <1>5, <1>6 DEF CallKnows, Scoped
<1>8. call' = q /\ ShelfKnows'
  BY <1>1, <1>2, <1>3 DEF ToolsInv, ShelfKnows
<1>9. CallKnows(call)'
  BY <1>7, <1>8 DEF CallKnows, Scoped
<1> QED BY <1>1, <1>2, <1>4, <1>8, <1>9 DEF ToolsInv

LEMMA ToolsRest ==
  ASSUME ToolsInv, UNCHANGED toolVars
  PROVE  ToolsInv'
<1>1. /\ home' = home /\ risky' = risky /\ allergic' = allergic /\ barred' = barred /\ shelf' = shelf
      /\ crossed' = crossed /\ call' = call
  BY DEF toolVars
<1>2. ShelfKnows' /\ CallKnows(call)'
  BY <1>1 DEF ToolsInv, ShelfKnows, CallKnows, Scoped
<1> QED BY <1>1, <1>2 DEF ToolsInv

(* Who calls does not change while a call runs.                             *)
LEMMA CallerStays ==
  ASSUME call \in CallRow
  PROVE  /\ \A pc : Goes(pc) => call'.owner = call.owner
         /\ \A pc, dishes : Names(pc, dishes) => call'.owner = call.owner
         /\ \A dishes, shown : Shows(dishes, shown) => call'.owner = call.owner
         /\ \A p : CompareOne(p) => call'.owner = call.owner
         /\ \A p : BenchmarkPeers(p) => call'.owner = call.owner
         /\ BaselinePeers => call'.owner = call.owner
<1>1. \A pc : Goes(pc) => call'.owner = call.owner
  BY DEF CallRow, Goes
<1>2. \A pc, dishes : Names(pc, dishes) => call'.owner = call.owner
  BY DEF CallRow, Names
<1>3. \A dishes, shown : Shows(dishes, shown) => call'.owner = call.owner
  BY DEF CallRow, Shows
<1>4. \A p : CompareOne(p) => call'.owner = call.owner
  BY DEF CallRow, CompareOne
<1>5. \A p : BenchmarkPeers(p) => call'.owner = call.owner
  BY DEF CallRow, BenchmarkPeers
<1>6. BaselinePeers => call'.owner = call.owner
  BY DEF CallRow, BaselinePeers
<1> QED BY <1>1, <1>2, <1>3, <1>4, <1>5, <1>6

LEMMA DinerKeeps ==
  ASSUME ToolsInv, ~call.owner, [DinerNext]_toolVars
  PROVE  ToolsInv' /\ ~call'.owner
<1>0. call \in CallRow /\ "answer" \in CallPc
  BY InCall DEF CallPc
<1>1. ASSUME NEW tool \in DinerTool, NEW ids \in SUBSET Plate, Begin(tool, ids, FALSE)
      PROVE  ToolsInv' /\ ~call'.owner
  BY <1>1, BeginKeeps
<1>2. ASSUME NEW dishes \in SUBSET Plate, Search(dishes) \/ AskBack(dishes) \/ ForgetRows(dishes)
      PROVE  ToolsInv' /\ ~call'.owner
  <2>1. (Search(dishes) \/ AskBack(dishes)) => call'.owner = call.owner
    BY <1>0, CallerStays DEF Search, AskBack
  <2>2. ForgetRows(dishes) => call'.owner = call.owner
    BY DEF ForgetRows
  <2> QED BY <1>2, <2>1, <2>2, SearchKeeps, AskBackKeeps, ForgetRowsKeeps
<1>3. ASSUME NEW p \in Plate, CompareOne(p) \/ Surprise(p) \/ ResolveOne(p) \/ Detail(p) \/ EditText(p)
      PROVE  ToolsInv' /\ ~call'.owner
  <2>1. (CompareOne(p) \/ Surprise(p) \/ ResolveOne(p)) => call'.owner = call.owner
    BY <1>0, CallerStays DEF Surprise, ResolveOne
  <2>2. Detail(p) => call'.owner = call.owner
    BY <1>0, CallerStays DEF Detail
  <2>3. EditText(p) => call'.owner = call.owner
    BY DEF EditText
  <2> QED BY <1>3, <2>1, <2>2, <2>3, CompareOneKeeps, SurpriseKeeps, ResolveOneKeeps, DetailKeeps,
             EditTextKeeps
<1>4. ASSUME NEW p \in Plate, MovePlate(p, Gone)
      PROVE  ToolsInv' /\ ~call'.owner
  BY <1>4, MovePlateKeeps
<1>5. ASSUME NEW h \in House, ListRestaurantReviews(h)
      PROVE  ToolsInv' /\ ~call'.owner
  BY <1>0, <1>5, CallerStays, ListRestaurantReviewsKeeps DEF ListRestaurantReviews
<1>6. ASSUME RecommendDishes \/ ReadAllergies \/ ReadExcluded \/ Return
      PROVE  ToolsInv' /\ ~call'.owner
  <2>1. (RecommendDishes \/ ReadAllergies \/ ReadExcluded) => call'.owner = call.owner
    BY <1>0, CallerStays DEF RecommendDishes, ReadAllergies, ReadExcluded
  <2>2. Return => ~call'.owner
    BY NothingIsCalled DEF Return
  <2> QED BY <1>6, <2>1, <2>2, RecommendDishesKeeps, ReadAllergiesKeeps, ReadExcludedKeeps, ReturnKeeps
<1>7. ASSUME SetAllergy \/ SetBlock
      PROVE  ToolsInv' /\ ~call'.owner
  BY <1>7, SetAllergyKeeps, SetBlockKeeps
<1>8. ASSUME UNCHANGED toolVars
      PROVE  ToolsInv' /\ ~call'.owner
  BY <1>8, ToolsRest DEF toolVars
<1> QED BY <1>1, <1>2, <1>3, <1>4, <1>5, <1>6, <1>7, <1>8 DEF DinerNext

LEMMA OwnerKeeps ==
  ASSUME ToolsInv, ~barred, [OwnerNext]_toolVars
  PROVE  ToolsInv' /\ ~barred'
<1>1. ASSUME NEW tool \in OwnerTool,
             \/ tool \in {"detail", "analyze", "benchmark"} /\ \E p \in Plate : Begin(tool, {p}, TRUE)
             \/ tool \in {"search", "rank", "baseline"} /\ Begin(tool, {}, TRUE)
      PROVE  ToolsInv' /\ ~barred'
  <2>1. PICK ids \in SUBSET Plate :
          /\ Begin(tool, ids, TRUE)
          /\ tool \in {"detail", "analyze", "benchmark"} => \E p \in Plate : ids = {p}
    BY <1>1
  <2>2. ~barred'
    BY <2>1 DEF Begin, world
  <2> QED BY <2>1, <2>2, BeginKeeps
<1>2. ASSUME NEW dishes \in SUBSET Plate, Search(dishes) \/ AskBack(dishes) \/ ForgetRows(dishes)
      PROVE  ToolsInv' /\ ~barred'
  <2>1. ~barred'
    BY <1>2 DEF Search, AskBack, ForgetRows, world
  <2> QED BY <1>2, <2>1, SearchKeeps, AskBackKeeps, ForgetRowsKeeps
<1>3. ASSUME NEW p \in Plate, ResolveOne(p) \/ Detail(p) \/ BenchmarkPeers(p)
      PROVE  ToolsInv' /\ ~barred'
  <2>1. ~barred'
    BY <1>3 DEF ResolveOne, Detail, BenchmarkPeers, world
  <2> QED BY <1>3, <2>1, ResolveOneKeeps, DetailKeeps, BenchmarkPeersKeeps
<1>4. ASSUME NEW p \in Plate, NEW h \in House \cup {Gone}, MovePlate(p, h)
      PROVE  ToolsInv' /\ ~barred'
  <2>1. ~barred'
    BY <1>4 DEF MovePlate, TouchPlate
  <2> QED BY <1>4, <2>1, MovePlateKeeps
<1>5. ASSUME RankMyDishes \/ Analyze \/ Benchmark \/ BaselineOwn \/ BaselinePeers \/ ReadAllergies \/ Return
      PROVE  ToolsInv' /\ ~barred'
  <2>1. ~barred'
    BY <1>5 DEF RankMyDishes, Analyze, Benchmark, BaselineOwn, BaselinePeers, ReadAllergies, Return, world
  <2> QED BY <1>5, <2>1, RankMyDishesKeeps, AnalyzeKeeps, BenchmarkKeeps, BaselineOwnKeeps,
             BaselinePeersKeeps, ReadAllergiesKeeps, ReturnKeeps
<1>6. ASSUME UNCHANGED toolVars
      PROVE  ToolsInv' /\ ~barred'
  BY <1>6, ToolsRest DEF toolVars
<1> QED BY <1>1, <1>2, <1>3, <1>4, <1>5, <1>6 DEF OwnerNext

(* A call of the owner that tells something was the owner's before.         *)
LEMMA OwnersGoOn ==
  ASSUME call \in CallRow, call.owner, OwnerNext, call'.pc \in {"guide", "answer"}
  PROVE  call'.owner
<1>1. ASSUME NEW tool, NEW ids, Begin(tool, ids, TRUE)
      PROVE  call'.pc = "start"
  BY <1>1 DEF Begin, NoCall
<1>2. ASSUME NEW dishes, Search(dishes) \/ AskBack(dishes) \/ ForgetRows(dishes)
      PROVE  call'.owner
  BY <1>2, CallerStays DEF Search, AskBack, ForgetRows
<1>3. ASSUME NEW p, ResolveOne(p) \/ Detail(p) \/ BenchmarkPeers(p)
      PROVE  call'.owner
  BY <1>3, CallerStays DEF ResolveOne, Detail
<1>4. ASSUME NEW p \in Plate, NEW h, MovePlate(p, h)
      PROVE  call'.owner
  BY <1>4 DEF MovePlate, CallRow
<1>5. ASSUME RankMyDishes \/ Analyze \/ Benchmark \/ BaselineOwn \/ BaselinePeers \/ ReadAllergies
      PROVE  call'.owner
  BY <1>5, CallerStays DEF RankMyDishes, Analyze, Benchmark, BaselineOwn, ReadAllergies
<1>6. ASSUME Return
      PROVE  call'.pc = "none"
  BY <1>6, NothingIsCalled DEF Return
<1> QED BY <1>1, <1>2, <1>3, <1>4, <1>5, <1>6 DEF OwnerNext

(* What the invariant says of an answer.                                    *)
LEMMA AnswerIsGuarded == ToolsInv => AllergensLeftOut \/ call.pc # "answer"
BY InCall DEF CallKnows, AllergensLeftOut, Guarded

LEMMA AnswerIsUnheard == ToolsInv => BlockedUnheard
BY InCall DEF CallKnows, BlockedUnheard

LEMMA AnswerIsScoped == ToolsInv => (call.owner => WithinScope)
BY InCall DEF CallKnows, WithinScope, Scoped

LEMMA AnswersAreRight ==
  ASSUME ToolsInv, ToolsInv'
  PROVE  /\ call'.pc = "answer" => AllergensLeftOut'
         /\ BlockedUnheard'
         /\ call'.owner => WithinScope'
<1>1. (AllergensLeftOut \/ call.pc # "answer")' /\ BlockedUnheard' /\ (call.owner => WithinScope)'
  BY AnswerIsGuarded, AnswerIsUnheard, AnswerIsScoped, PTL
<1> QED BY <1>1

(* Every row that changed since it was loaded is held.                      *)
ShelfTyped == risky \subseteq Plate /\ \A p \in crossed : p \in Plate /\ shelf[p] # Absent

LEMMA ToolsTypesAre == ToolsInv /\ ShelfTyped => ToolsTypeOK
<1> SUFFICES ASSUME ToolsInv, ShelfTyped PROVE ToolsTypeOK
  OBVIOUS
<1>1. call \in CallRow
  BY DEF ToolsInv
<1>2. /\ call.tool \in {"none"} \cup DinerTool \cup OwnerTool
      /\ call.pc \in {"none", "start", "more", "allergies", "excluded", "peers", "guide", "answer"}
      /\ call.plates \subseteq Plate /\ call.peers \subseteq Plate /\ call.asked \subseteq Plate
      /\ call.moved \subseteq Plate
      /\ call.owner \in BOOLEAN /\ call.shows \in BOOLEAN /\ call.steady \in BOOLEAN /\ call.shut \in BOOLEAN
  BY <1>1 DEF CallRow
<1>3. shelf \in [Plate -> [home : House \cup {Gone}, risky : BOOLEAN]]
  BY DEF ToolsInv, ShelfRow
<1> QED BY <1>2, <1>3 DEF ToolsInv, ShelfTyped, ToolsTypeOK

(* A statement loads rows, and leaves those that are held as they are.      *)
LEMMA LoadTyped ==
  ASSUME ToolsInv, ShelfTyped, UNCHANGED risky, UNCHANGED crossed,
         UNCHANGED shelf \/ \E found : Load(found)
  PROVE  ShelfTyped'
BY DEF Load, ShelfTyped

LEMMA AskTyped ==
  ASSUME ToolsInv, ShelfTyped, NEW p, CompareOne(p) \/ Surprise(p) \/ ResolveOne(p) \/ Detail(p) \/ BenchmarkPeers(p)
  PROVE  ShelfTyped'
<1>1. UNCHANGED risky /\ UNCHANGED crossed /\ (UNCHANGED shelf \/ \E found : Load(found))
  BY DEF CompareOne, Surprise, ResolveOne, Detail, BenchmarkPeers, world
<1> QED BY <1>1, LoadTyped

LEMMA CallsTyped ==
  ASSUME ToolsInv, ShelfTyped,
         \/ \E tool, ids, owner : Begin(tool, ids, owner)
         \/ \E found : Search(found) \/ AskBack(found)
         \/ \E h : ListRestaurantReviews(h)
         \/ RecommendDishes \/ ReadAllergies \/ ReadExcluded \/ Return \/ SetAllergy \/ SetBlock
         \/ RankMyDishes \/ Analyze \/ Benchmark \/ BaselineOwn \/ BaselinePeers
  PROVE  ShelfTyped'
<1>1. UNCHANGED risky /\ UNCHANGED crossed /\ (UNCHANGED shelf \/ \E found : Load(found))
  BY DEF Begin, Search, AskBack, ListRestaurantReviews, RecommendDishes, ReadAllergies, ReadExcluded, Return,
         SetAllergy, SetBlock, RankMyDishes, Analyze, Benchmark, BaselineOwn, BaselinePeers, world
<1> QED BY <1>1, LoadTyped

LEMMA OthersTyped ==
  ASSUME ToolsInv, ShelfTyped,
         \/ \E found : ForgetRows(found)
         \/ \E p \in Plate : EditText(p) \/ \E h : MovePlate(p, h)
  PROVE  ShelfTyped'
<1>1. ASSUME NEW found, ForgetRows(found) PROVE ShelfTyped'
  BY <1>1 DEF ForgetRows, world, ShelfTyped
<1>2. ASSUME NEW p \in Plate, EditText(p) \/ \E h : MovePlate(p, h) PROVE ShelfTyped'
  BY <1>2 DEF EditText, MovePlate, TouchPlate, ShelfTyped
<1> QED BY <1>1, <1>2

LEMMA ToolsTyped ==
  ASSUME ToolsInv, ShelfTyped, DinerNext \/ OwnerNext \/ UNCHANGED toolVars
  PROVE  ShelfTyped'
<1>1. CASE DinerNext
  BY <1>1, AskTyped, CallsTyped, OthersTyped DEF DinerNext
<1>2. CASE OwnerNext
  BY <1>2, AskTyped, CallsTyped, OthersTyped DEF OwnerNext
<1>3. CASE UNCHANGED toolVars
  BY <1>3 DEF toolVars, world, ShelfTyped
<1> QED BY <1>1, <1>2, <1>3

HIDE AgentToolsAssumption

------------------------------------------------------------------------------
(* Duels and maps.                                                          *)

SeekerRow == [op : {"none", "offer", "why", "fought", "fill", "mapped"}, tags : SUBSET Root,
              picky : BOOLEAN, near : SUBSET Eatery, limit : 1 .. MapLimit, complete : BOOLEAN,
              rows : SUBSET (Course \cup Eatery), bare : SUBSET Eatery, offered : BOOLEAN,
              stirred : BOOLEAN, shifted : SUBSET Eatery,
              reason : {"none", "not_found", "unique_restaurant"}]

(* An offer stands until something is committed; a map that is to be filled *)
(* has every restaurant with reviews, but for those that shifted.           *)
SeekerKnows(q) ==
  /\ q.op = "none" => ~q.offered /\ q.bare = {} /\ q.shifted = {}
  /\ q.op \in {"offer", "why"} /\ q.offered /\ ~q.stirred => Rivalry(q.tags, q.picky)
  /\ q.op = "why" /\ q.offered /\ ~q.stirred => q.near # Eatery
  /\ q.op = "fill" =>
       /\ q.rows \subseteq Eatery /\ q.bare = {}
       /\ \A v \in Eatery \ q.shifted : v \in q.rows <=> v \in VenuesOf(tasted) \cap inBox

DiscoveryInv ==
  /\ servedAt \in [Course -> Eatery] /\ root \in [Course -> Root \cup {NoRoot}]
  /\ tasted \subseteq Course /\ fancy \subseteq Eatery /\ inBox \subseteq Eatery
  /\ seeker \in SeekerRow /\ SeekerKnows(seeker)

USE DiscoveryAssumption

LEMMA NobodySeeks ==
  NoSeeker \in SeekerRow /\ NoSeeker.op = "none" /\ ~NoSeeker.offered /\ NoSeeker.bare = {} /\ NoSeeker.shifted = {}
BY DEF NoSeeker, SeekerRow

LEMMA DiscoveryStarts == DiscoveryInit => DiscoveryInv
BY NobodySeeks DEF DiscoveryInit, DiscoveryInv, SeekerKnows

LEMMA InSeeker ==
  ASSUME DiscoveryInv
  PROVE  seeker \in SeekerRow /\ SeekerKnows(seeker)
BY DEF DiscoveryInv

(* What a request finds, field by field.                                    *)
Offering(q, tags, picky, offered) ==
  [q EXCEPT !.op = "offer", !.tags = tags, !.picky = picky, !.offered = offered]
Finding(q, op, found, reason) == [q EXCEPT !.op = op, !.rows = found, !.reason = reason]
Fighting(q, op, found, near) == [q EXCEPT !.op = op, !.rows = found, !.near = near]
Mapping(q, op, found, limit, empty) ==
  [q EXCEPT !.op = op, !.rows = found, !.limit = limit, !.complete = empty]
Filling(q, bare) == [q EXCEPT !.op = "mapped", !.bare = bare]
SeekerOp == {"none", "offer", "why", "fought", "fill", "mapped"}

LEMMA OfferingIs ==
  ASSUME NEW r \in SeekerRow, NEW tags \in SUBSET Root, NEW picky \in BOOLEAN, NEW offered \in BOOLEAN,
         NEW q, q = Offering(r, tags, picky, offered)
  PROVE  q \in SeekerRow /\ q.op = "offer" /\ q.tags = tags /\ q.picky = picky /\ (q.offered <=> offered)
BY DEF SeekerRow, Offering

LEMMA FindingIs ==
  ASSUME NEW r \in SeekerRow, NEW op \in SeekerOp, NEW found \in SUBSET (Course \cup Eatery),
         NEW reason \in {"none", "not_found", "unique_restaurant"}, NEW q, q = Finding(r, op, found, reason)
  PROVE  /\ q \in SeekerRow /\ q.op = op /\ q.rows = found /\ q.offered = r.offered
         /\ q.stirred = r.stirred /\ q.near = r.near /\ q.reason = reason
BY DEF SeekerRow, SeekerOp, Finding

LEMMA FightingIs ==
  ASSUME NEW r \in SeekerRow, NEW op \in SeekerOp, NEW found \in SUBSET (Course \cup Eatery),
         NEW near \in SUBSET Eatery, NEW q, q = Fighting(r, op, found, near)
  PROVE  /\ q \in SeekerRow /\ q.op = op /\ q.rows = found /\ q.offered = r.offered
         /\ q.stirred = r.stirred /\ q.near = near /\ q.tags = r.tags /\ q.picky = r.picky
BY DEF SeekerRow, SeekerOp, Fighting

LEMMA MappingIs ==
  ASSUME NEW r \in SeekerRow, NEW op \in SeekerOp, NEW found \in SUBSET Eatery, NEW limit \in 1 .. MapLimit,
         NEW empty \in BOOLEAN, NEW q, q = Mapping(r, op, found, limit, empty)
  PROVE  /\ q \in SeekerRow /\ q.op = op /\ q.rows = found /\ q.limit = limit /\ (q.complete <=> empty)
         /\ q.bare = r.bare /\ q.shifted = r.shifted
BY DEF SeekerRow, SeekerOp, Mapping

LEMMA FillingIs ==
  ASSUME NEW r \in SeekerRow, NEW bare \in SUBSET Eatery, NEW q, q = Filling(r, bare)
  PROVE  /\ q \in SeekerRow /\ q.op = "mapped" /\ q.bare = bare /\ q.rows = r.rows
         /\ q.limit = r.limit /\ q.shifted = r.shifted
BY DEF SeekerRow, Filling

(* A request that asks: the catalogue rests.                                *)
Answered == OfferedIsFought /\ MapIsWhole
Answering == DiscoveryInv' /\ (seeker'.op # seeker.op => Answered')

LEMMA SeekerMoves ==
  ASSUME DiscoveryInv, NEW q \in SeekerRow, seeker' = q, UNCHANGED Catalogue,
         q.op = "none" => ~q.offered /\ q.bare = {} /\ q.shifted = {},
         q.op \in {"offer", "why"} /\ q.offered /\ ~q.stirred => Rivalry(q.tags, q.picky),
         q.op = "why" /\ q.offered /\ ~q.stirred => q.near # Eatery,
         q.op = "fill" =>
           /\ q.rows \subseteq Eatery /\ q.bare = {}
           /\ \A v \in Eatery \ q.shifted : v \in q.rows <=> v \in VenuesOf(tasted) \cap inBox,
         q.op = "fought" /\ q.offered /\ ~q.stirred =>
           /\ q.near = Eatery => Cardinality(VenuesOf(q.rows)) = 2
           /\ Cardinality(VenuesOf(q.rows)) = 2 \/ q.reason = "unique_restaurant",
         q.op = "mapped" /\ q.complete =>
           /\ q.rows \cap q.bare \subseteq q.shifted
           /\ Cardinality(q.rows) + Cardinality(q.bare) < q.limit =>
                inBox \ (q.rows \cup q.bare) \subseteq q.shifted
  PROVE  Answering
<1>1. servedAt' = servedAt /\ root' = root /\ tasted' = tasted /\ fancy' = fancy /\ inBox' = inBox
  BY DEF Catalogue
<1>2. \A D : VenuesOf(D)' = VenuesOf(D)
  BY <1>1 DEF VenuesOf
<1>3. \A T, b : Rivalry(T, b)' <=> Rivalry(T, b)
  BY <1>1 DEF Rivalry, VenuesOf, Contenders, DiscoverDishes
<1>4. SeekerKnows(seeker)'
  BY <1>1, <1>3 DEF SeekerKnows, VenuesOf
<1>5. OfferedIsFought'
  BY <1>1 DEF OfferedIsFought, VenuesOf
<1>6. MapIsWhole'
  BY <1>1 DEF MapIsWhole
<1> QED BY <1>1, <1>4, <1>5, <1>6 DEF DiscoveryInv, Answering, Answered

LEMMA OffersKeeps ==
  ASSUME DiscoveryInv, NEW tags \in SUBSET Root, NEW picky \in BOOLEAN, NEW offered \in BOOLEAN,
         Offers(tags, picky, offered), UNCHANGED Catalogue, offered => Rivalry(tags, picky)
  PROVE  Answering
<1>1. PICK q : q = Offering(seeker, tags, picky, offered)
  OBVIOUS
<1>2. seeker' = q
  BY <1>1 DEF Offers, Offering
<1>3. q \in SeekerRow /\ q.op = "offer" /\ q.tags = tags /\ q.picky = picky /\ (q.offered <=> offered)
  BY <1>1, InSeeker, OfferingIs
<1> QED BY <1>2, <1>3, SeekerMoves

LEMMA DuelDishesKeeps ==
  ASSUME DiscoveryInv, NEW pair \in SUBSET Course, NEW near \in SUBSET Eatery, DuelDishes(pair, near)
  PROVE  Answering
<1>1. PICK op : op = IF pair = {} THEN "why" ELSE "fought"
  OBVIOUS
<1>2. PICK q : q = Fighting(seeker, op, pair, near)
  OBVIOUS
<1>3. PICK able : able = {d \in Contenders(seeker.tags, seeker.picky) : servedAt[d] \in near}
  OBVIOUS
<1>4. /\ seeker.op = "offer" /\ seeker' = q /\ UNCHANGED Catalogue
      /\ Cardinality(VenuesOf(pair)) = Cardinality(pair)
      /\ Cardinality(pair) = IF Cardinality(VenuesOf(able)) >= 2 THEN 2 ELSE 0
  BY <1>1, <1>2, <1>3 DEF DuelDishes, Fighting
<1>5. op \in SeekerOp /\ op \in {"why", "fought"} /\ (op = "why" <=> pair = {})
  BY <1>1 DEF SeekerOp
<1>6. /\ q \in SeekerRow /\ q.op = op /\ q.rows = pair /\ q.offered = seeker.offered
      /\ q.stirred = seeker.stirred /\ q.near = near /\ q.tags = seeker.tags /\ q.picky = seeker.picky
  BY <1>2, <1>5, InSeeker, FightingIs
<1>7. Cardinality({}) = 0
  BY FS_EmptySet
<1>8. q.offered /\ ~q.stirred => Rivalry(q.tags, q.picky)
  BY <1>4, <1>6, InSeeker DEF SeekerKnows
<1>9. near = Eatery => able = Contenders(seeker.tags, seeker.picky)
  BY <1>3 DEF Contenders, DiscoverDishes, DiscoveryInv
<1>10. q.offered /\ ~q.stirred /\ near = Eatery => Cardinality(pair) = 2
  BY <1>4, <1>6, <1>8, <1>9 DEF Rivalry
<1>11. q.op = "why" /\ q.offered /\ ~q.stirred => q.near # Eatery
  BY <1>5, <1>6, <1>7, <1>10
<1>12. q.op = "fought" => Cardinality(VenuesOf(q.rows)) = 2
  <2>1. CASE Cardinality(VenuesOf(able)) >= 2
    BY <1>4, <1>6, <2>1
  <2>2. CASE ~(Cardinality(VenuesOf(able)) >= 2)
    <3>1. IsFiniteSet(pair)
      BY FS_Subset
    <3>2. pair = {}
      BY <1>4, <2>2, <3>1, FS_EmptySet
    <3> QED BY <1>5, <1>6, <3>2
  <2> QED BY <2>1, <2>2
<1>13. q.op \notin {"none", "offer", "fill", "mapped"}
  BY <1>5, <1>6
<1> QED BY <1>4, <1>6, <1>8, <1>11, <1>12, <1>13, SeekerMoves

LEMMA WhyNotKeeps ==
  ASSUME DiscoveryInv, WhyNot
  PROVE  Answering
<1>1. PICK reason : reason = IF \E d \in Course : root[d] \in seeker.tags
                             THEN "unique_restaurant" ELSE "not_found"
  OBVIOUS
<1>2. PICK q : q = Finding(seeker, "fought", {}, reason)
  OBVIOUS
<1>3. seeker.op = "why" /\ seeker' = q /\ UNCHANGED Catalogue
  BY <1>1, <1>2 DEF WhyNot, Finds, Finding
<1>4. "fought" \in SeekerOp /\ reason \in {"none", "not_found", "unique_restaurant"}
  BY <1>1 DEF SeekerOp
<1>5. /\ q \in SeekerRow /\ q.op = "fought" /\ q.offered = seeker.offered /\ q.stirred = seeker.stirred
      /\ q.near = seeker.near /\ q.reason = reason
  BY <1>2, <1>4, InSeeker, FindingIs
<1>6. q.offered /\ ~q.stirred => q.near # Eatery /\ Rivalry(seeker.tags, seeker.picky)
  BY <1>3, <1>5, InSeeker DEF SeekerKnows
<1>7. Rivalry(seeker.tags, seeker.picky) => reason = "unique_restaurant"
  <2>1. Contenders(seeker.tags, seeker.picky) = {} => VenuesOf(Contenders(seeker.tags, seeker.picky)) = {}
    BY DEF VenuesOf
  <2>2. Rivalry(seeker.tags, seeker.picky) => Contenders(seeker.tags, seeker.picky) # {}
    BY <2>1, FS_EmptySet DEF Rivalry
  <2>3. \A d \in Contenders(seeker.tags, seeker.picky) : d \in Course /\ root[d] \in seeker.tags
    BY DEF Contenders, DiscoverDishes, DiscoveryInv
  <2> QED BY <1>1, <2>2, <2>3
<1> QED BY <1>3, <1>5, <1>6, <1>7, SeekerMoves

LEMMA LegacyDuelKeeps ==
  ASSUME DiscoveryInv, NEW pair \in SUBSET Course, NEW near \in SUBSET Eatery, LegacyDuel(pair, near)
  PROVE  Answering
<1>1. PICK reason : reason = IF Cardinality(pair) = 2 THEN "none" ELSE "not_found"
  OBVIOUS
<1>2. PICK q : q = Finding(seeker, "fought", pair, reason)
  OBVIOUS
<1>3. seeker.op = "none" /\ seeker' = q /\ UNCHANGED Catalogue
  BY <1>1, <1>2 DEF LegacyDuel, Finds, Finding
<1>4. "fought" \in SeekerOp /\ reason \in {"none", "not_found", "unique_restaurant"}
  BY <1>1 DEF SeekerOp
<1>5. q \in SeekerRow /\ q.op = "fought" /\ q.offered = seeker.offered
  BY <1>2, <1>4, InSeeker, FindingIs
<1>6. ~q.offered
  BY <1>3, <1>5, InSeeker DEF SeekerKnows
<1> QED BY <1>3, <1>5, <1>6, SeekerMoves

(* Restaurants are finite, so those taken are all when there are as many.   *)
LEMMA AllAreTaken ==
  ASSUME NEW able \in SUBSET Eatery, NEW some \in SUBSET able
  PROVE  /\ IsFiniteSet(able) /\ Cardinality(able) \in Nat /\ Cardinality(some) \in Nat
         /\ Cardinality(some) = Cardinality(able) => some = able
<1>1. IsFiniteSet(Eatery)
  OBVIOUS
<1>2. IsFiniteSet(able)
  BY <1>1, FS_Subset
<1>3. /\ IsFiniteSet(some) /\ Cardinality(some) \in Nat
      /\ Cardinality(able) \in Nat /\ (Cardinality(some) = Cardinality(able) => some = able)
  BY <1>2, FS_Subset, FS_CardinalityType
<1> QED BY <1>2, <1>3

LEMMA BboxKeeps ==
  ASSUME DiscoveryInv, NEW some \in SUBSET Eatery, NEW limit \in 1 .. MapLimit, NEW empty \in BOOLEAN,
         DiscoverRestaurantsInBbox(some, limit, empty)
  PROVE  Answering
<1>1. PICK op : op = IF empty /\ Cardinality(some) < limit THEN "fill" ELSE "mapped"
  OBVIOUS
<1>2. PICK q : q = Mapping(seeker, op, some, limit, empty)
  OBVIOUS
<1>3. PICK able : able = VenuesOf(tasted) \cap inBox
  OBVIOUS
<1>4. /\ seeker.op = "none" /\ seeker' = q /\ UNCHANGED Catalogue /\ some \subseteq able
      /\ Cardinality(some) = IF Cardinality(able) < limit THEN Cardinality(able) ELSE limit
  BY <1>1, <1>2, <1>3 DEF DiscoverRestaurantsInBbox, Mapping
<1>5. op \in SeekerOp /\ op \in {"fill", "mapped"}
  BY <1>1 DEF SeekerOp
<1>6. /\ q \in SeekerRow /\ q.op = op /\ q.rows = some /\ q.limit = limit /\ (q.complete <=> empty)
      /\ q.bare = seeker.bare /\ q.shifted = seeker.shifted
  BY <1>2, <1>5, InSeeker, MappingIs
<1>7. q.bare = {} /\ q.shifted = {}
  BY <1>4, <1>6, InSeeker DEF SeekerKnows
<1>8. able \in SUBSET Eatery
  BY <1>3 DEF DiscoveryInv
<1>9. /\ Cardinality(able) \in Nat /\ Cardinality(some) \in Nat
      /\ Cardinality(some) = Cardinality(able) => some = able
  BY <1>4, <1>8, AllAreTaken
<1>10. limit \in Nat /\ Cardinality({}) = 0
  BY FS_EmptySet
<1>11. op = "fill" => some = able
  BY <1>1, <1>4, <1>9, <1>10
<1>12. op = "mapped" /\ empty => ~(Cardinality(some) + Cardinality({}) < limit)
  BY <1>1, <1>9, <1>10
<1>13. q.op = "fill" =>
         /\ q.rows \subseteq Eatery /\ q.bare = {}
         /\ \A v \in Eatery \ q.shifted : v \in q.rows <=> v \in VenuesOf(tasted) \cap inBox
  BY <1>3, <1>6, <1>7, <1>11
<1>14. q.op = "mapped" /\ q.complete =>
         /\ q.rows \cap q.bare \subseteq q.shifted
         /\ Cardinality(q.rows) + Cardinality(q.bare) < q.limit =>
              inBox \ (q.rows \cup q.bare) \subseteq q.shifted
  BY <1>6, <1>7, <1>12
<1> QED BY <1>4, <1>5, <1>6, <1>13, <1>14, SeekerMoves

LEMMA FetchKeeps ==
  ASSUME DiscoveryInv, NEW bare \in SUBSET Eatery, FetchEmptyRestaurants(bare)
  PROVE  Answering
<1>1. PICK q : q = Filling(seeker, bare)
  OBVIOUS
<1>2. PICK able : able = inBox \ VenuesOf(tasted)
  OBVIOUS
<1>3. PICK left : left = seeker.limit - Cardinality(seeker.rows)
  OBVIOUS
<1>4. /\ seeker.op = "fill" /\ seeker' = q /\ UNCHANGED Catalogue /\ bare \subseteq able
      /\ Cardinality(bare) = IF Cardinality(able) < left THEN Cardinality(able) ELSE left
  BY <1>1, <1>2, <1>3 DEF FetchEmptyRestaurants, Filling
<1>5. /\ q \in SeekerRow /\ q.op = "mapped" /\ q.bare = bare /\ q.rows = seeker.rows
      /\ q.limit = seeker.limit /\ q.shifted = seeker.shifted
  BY <1>1, InSeeker, FillingIs
<1>6. /\ q.rows \subseteq Eatery
      /\ \A v \in Eatery \ q.shifted : v \in q.rows <=> v \in VenuesOf(tasted) \cap inBox
  BY <1>4, <1>5, InSeeker DEF SeekerKnows
<1>7. able \in SUBSET Eatery
  BY <1>2 DEF DiscoveryInv
<1>8. /\ Cardinality(able) \in Nat /\ Cardinality(bare) \in Nat
      /\ Cardinality(bare) = Cardinality(able) => bare = able
  BY <1>4, <1>7, AllAreTaken
<1>9. Cardinality(q.rows) \in Nat /\ q.limit \in Nat
  <2>1. Cardinality(q.rows) \in Nat
    BY <1>6, AllAreTaken
  <2>2. q.limit \in Nat
    BY <1>5 DEF SeekerRow
  <2> QED BY <2>1, <2>2
<1>10. Cardinality(q.rows) + Cardinality(q.bare) < q.limit => bare = able
  BY <1>3, <1>4, <1>5, <1>8, <1>9
<1>11. q.rows \cap q.bare \subseteq q.shifted
  BY <1>2, <1>4, <1>5, <1>6
<1>12. bare = able => inBox \ (q.rows \cup q.bare) \subseteq q.shifted
  BY <1>2, <1>5, <1>6 DEF DiscoveryInv
<1> QED BY <1>4, <1>5, <1>10, <1>11, <1>12, SeekerMoves

LEMMA ServeKeeps ==
  ASSUME DiscoveryInv, Serve
  PROVE  Answering
<1>1. seeker' = NoSeeker /\ UNCHANGED Catalogue
  BY DEF Serve
<1> QED BY <1>1, NobodySeeks, SeekerMoves

(* What others commit: a request knows of it.                               *)
LEMMA StirsAside ==
  ASSUME DiscoveryInv, NEW venues \in SUBSET Eatery, Stir(venues),
         servedAt' \in [Course -> Eatery], root' \in [Course -> Root \cup {NoRoot}],
         tasted' \subseteq Course, fancy' \subseteq Eatery, inBox' \subseteq Eatery,
         \A v \in Eatery \ venues : v \in VenuesOf(tasted)' <=> v \in VenuesOf(tasted),
         \A v \in Eatery \ venues : v \in inBox' <=> v \in inBox
  PROVE  Answering
<1>1. PICK r \in SeekerRow : r = seeker
  BY InSeeker
<1>2. SeekerKnows(r)
  BY <1>1, InSeeker
<1>3. CASE r.op = "none"
  <2>1. seeker' = r
    BY <1>1, <1>3 DEF Stir
  <2>2. SeekerKnows(seeker)'
    BY <1>2, <1>3, <2>1 DEF SeekerKnows
  <2> QED BY <1>1, <2>1, <2>2 DEF DiscoveryInv, Answering
<1>4. CASE r.op # "none"
  <2>1. PICK gone : gone = IF r.op = "fill" THEN r.shifted \cup venues ELSE r.shifted
    OBVIOUS
  <2>2. PICK q : q = [r EXCEPT !.stirred = TRUE, !.shifted = gone]
    OBVIOUS
  <2>3. seeker' = q
    BY <1>1, <1>4, <2>1, <2>2 DEF Stir
  <2>4. gone \in SUBSET Eatery
    BY <2>1 DEF SeekerRow
  <2>5. q \in SeekerRow /\ q.op = r.op /\ q.stirred /\ q.shifted = gone /\ q.rows = r.rows /\ q.bare = r.bare
    BY <2>2, <2>4 DEF SeekerRow
  <2>6. ASSUME q.op = "fill", NEW v \in Eatery \ q.shifted
        PROVE  v \in q.rows <=> v \in (VenuesOf(tasted) \cap inBox)'
    <3>1. v \in Eatery \ venues /\ v \in Eatery \ r.shifted
      BY <2>1, <2>5, <2>6
    <3>2. v \in r.rows <=> v \in VenuesOf(tasted) \cap inBox
      BY <1>2, <2>5, <2>6, <3>1 DEF SeekerKnows
    <3> QED BY <2>5, <3>1, <3>2
  <2>7. q.op = "fill" => q.rows \subseteq Eatery /\ q.bare = {}
    BY <1>2, <2>5 DEF SeekerKnows
  <2>8. SeekerKnows(seeker)'
    BY <1>4, <2>3, <2>5, <2>6, <2>7 DEF SeekerKnows
  <2> QED BY <1>1, <2>3, <2>5, <2>8 DEF DiscoveryInv, Answering
<1> QED BY <1>3, <1>4

LEMMA OthersKeep ==
  ASSUME DiscoveryInv
  PROVE  /\ \A d \in Course : Review(d) => Answering
         /\ \A d \in Course, v \in Eatery : MoveDish(d, v) => Answering
         /\ \A d \in Course, r \in Root \cup {NoRoot} : RenameDish(d, r) => Answering
         /\ \A v \in Eatery : Recategorize(v) => Answering
         /\ \A v \in Eatery : Relocate(v) => Answering
<1>0. /\ servedAt \in [Course -> Eatery] /\ root \in [Course -> Root \cup {NoRoot}]
      /\ tasted \subseteq Course /\ fancy \subseteq Eatery /\ inBox \subseteq Eatery
  BY DEF DiscoveryInv
<1>1. ASSUME NEW d \in Course, Review(d) PROVE Answering
  <2>1. /\ servedAt' = servedAt /\ root' = root /\ fancy' = fancy /\ inBox' = inBox
        /\ tasted' \subseteq Course /\ Stir({servedAt[d]}) /\ {servedAt[d]} \in SUBSET Eatery
        /\ \A e : e # d => (e \in tasted' <=> e \in tasted)
    BY <1>0, <1>1 DEF Review
  <2>2. \A v \in Eatery \ {servedAt[d]} : v \in VenuesOf(tasted)' <=> v \in VenuesOf(tasted)
    BY <2>1 DEF VenuesOf
  <2> QED BY <1>0, <2>1, <2>2, StirsAside
<1>2. ASSUME NEW d \in Course, NEW v \in Eatery, MoveDish(d, v) PROVE Answering
  <2>1. /\ root' = root /\ fancy' = fancy /\ inBox' = inBox /\ tasted' = tasted
        /\ servedAt' \in [Course -> Eatery] /\ Stir({v, servedAt[d]}) /\ {v, servedAt[d]} \in SUBSET Eatery
        /\ servedAt'[d] = v /\ \A e \in Course : e # d => servedAt'[e] = servedAt[e]
    BY <1>0, <1>2 DEF MoveDish
  <2>2. \A w \in Eatery \ {v, servedAt[d]} : w \in VenuesOf(tasted)' <=> w \in VenuesOf(tasted)
    BY <1>0, <2>1 DEF VenuesOf
  <2> QED BY <1>0, <2>1, <2>2, StirsAside
<1>3. ASSUME NEW d \in Course, NEW r \in Root \cup {NoRoot}, RenameDish(d, r) PROVE Answering
  <2>1. /\ servedAt' = servedAt /\ fancy' = fancy /\ inBox' = inBox /\ tasted' = tasted
        /\ root' \in [Course -> Root \cup {NoRoot}] /\ Stir({}) /\ {} \in SUBSET Eatery
    BY <1>0, <1>3 DEF RenameDish
  <2>2. \A v \in Eatery \ {} : v \in VenuesOf(tasted)' <=> v \in VenuesOf(tasted)
    BY <2>1 DEF VenuesOf
  <2> QED BY <1>0, <2>1, <2>2, StirsAside
<1>4. ASSUME NEW v \in Eatery, Recategorize(v) PROVE Answering
  <2>1. /\ servedAt' = servedAt /\ root' = root /\ inBox' = inBox /\ tasted' = tasted
        /\ fancy' \subseteq Eatery /\ Stir({}) /\ {} \in SUBSET Eatery
    BY <1>0, <1>4 DEF Recategorize
  <2>2. \A w \in Eatery \ {} : w \in VenuesOf(tasted)' <=> w \in VenuesOf(tasted)
    BY <2>1 DEF VenuesOf
  <2> QED BY <1>0, <2>1, <2>2, StirsAside
<1>5. ASSUME NEW v \in Eatery, Relocate(v) PROVE Answering
  <2>1. /\ servedAt' = servedAt /\ root' = root /\ fancy' = fancy /\ tasted' = tasted
        /\ inBox' \subseteq Eatery /\ Stir({v}) /\ {v} \in SUBSET Eatery
        /\ \A w : w # v => (w \in inBox' <=> w \in inBox)
    BY <1>0, <1>5 DEF Relocate
  <2>2. \A w \in Eatery \ {v} : w \in VenuesOf(tasted)' <=> w \in VenuesOf(tasted)
    BY <2>1 DEF VenuesOf
  <2> QED BY <1>0, <2>1, <2>2, StirsAside
<1> QED BY <1>1, <1>2, <1>3, <1>4, <1>5

LEMMA DiscoveryStep ==
  ASSUME DiscoveryInv, [DuelNext \/ MapNext]_discoveryVars
  PROVE  Answering
<1>1. CASE DuelNext
  <2>1. ASSUME NEW picky \in BOOLEAN, NEW r \in Root, PopularDishRoots(r, picky) PROVE Answering
    BY <2>1, OffersKeeps DEF PopularDishRoots
  <2>2. ASSUME NEW picky \in BOOLEAN, PopularDishFamilies(picky) PROVE Answering
    BY <2>2, OffersKeeps DEF PopularDishFamilies
  <2>3. ASSUME NEW picky \in BOOLEAN, NEW tags \in Tags, AskForDuel(tags, picky) PROVE Answering
    BY <2>3, OffersKeeps DEF AskForDuel, Tags
  <2> QED BY <1>1, <2>1, <2>2, <2>3, DuelDishesKeeps, LegacyDuelKeeps, WhyNotKeeps, ServeKeeps, OthersKeep
          DEF DuelNext
<1>2. CASE MapNext
  BY <1>2, BboxKeeps, FetchKeeps, ServeKeeps, OthersKeep DEF MapNext
<1>3. CASE UNCHANGED discoveryVars
  <2>1. /\ servedAt' = servedAt /\ root' = root /\ tasted' = tasted /\ fancy' = fancy /\ inBox' = inBox
        /\ seeker' = seeker
    BY <1>3 DEF discoveryVars
  <2>2. SeekerKnows(seeker)'
    BY <2>1, InSeeker DEF SeekerKnows, Rivalry, VenuesOf, Contenders, DiscoverDishes
  <2> QED BY <2>1, <2>2 DEF DiscoveryInv, Answering
<1> QED BY <1>1, <1>2, <1>3

(* What is offered can be fought, and a map that is whole leaves nobody out *)
(* (discovery_service.py).                                                  *)
THEOREM DiscoveryIsWhole == DiscoverySpec => DiscoveryHolds
<1>1. DiscoveryInv /\ [DuelNext \/ MapNext]_discoveryVars => DiscoveryInv'
  BY DiscoveryStep DEF Answering
<1>2. DiscoveryInv /\ [DuelNext \/ MapNext]_discoveryVars =>
        [seeker'.op # seeker.op => OfferedIsFought' /\ MapIsWhole']_discoveryVars
  BY DiscoveryStep DEF Answering, Answered
<1> QED BY <1>1, <1>2, DiscoveryStarts, PTL DEF DiscoverySpec, DiscoveryHolds

(* The catalogue and the request keep their types.                          *)
LEMMA DiscoveryTypesHold == DiscoverySpec => []DiscoveryTypeOK
<1>1. DiscoveryInv /\ [DuelNext \/ MapNext]_discoveryVars => DiscoveryInv'
  BY DiscoveryStep DEF Answering
<1>2. DiscoveryInv => DiscoveryTypeOK
  BY DEF DiscoveryInv, DiscoveryTypeOK, SeekerRow
<1> QED BY <1>1, <1>2, DiscoveryStarts, PTL DEF DiscoverySpec

HIDE DiscoveryAssumption

------------------------------------------------------------------------------
(* The sum of the parts: each one's properties are those of the whole.      *)

LEMMA HouseIsItsParts ==
  HouseSpec =>
    /\ EnrichmentSpec /\ DeskSpec /\ CatalogSpec /\ CategoriesSpec
    /\ SignalsSpec /\ RecallSpec /\ DiscoverySpec
<1>1. HouseInit =>
        /\ EnrichmentInit /\ DeskInit /\ CatalogInit /\ CategoriesInit
        /\ SignalsInit /\ RecallInit /\ DiscoveryInit
  BY DEF HouseInit
<1>2. [HouseNext]_houseVars => [EnrichmentNext]_enrichmentVars
  BY DEF HouseNext, SignalNext, TheRest, Rests, houseVars, EnrichmentNext
<1>3. [HouseNext]_houseVars => [DeskNext]_deskVars
  BY DEF HouseNext, SignalNext, TheRest, Rests, houseVars, DeskNext
<1>4. [HouseNext]_houseVars => [CatalogNext]_catalogVars
  BY DEF HouseNext, SignalNext, TheRest, Rests, houseVars
<1>5. [HouseNext]_houseVars => [CategoriesNext]_categoryVars
  BY DEF HouseNext, SignalNext, TheRest, Rests, houseVars
<1>6. [HouseNext]_houseVars => [SignalsNext]_signalVars
  <2>1. FirstOpinion \subseteq Opinion /\ OneNote \subseteq Note /\ OneNote \cup {Blank} \subseteq Note
    BY DEF FirstOpinion, OneNote, Note
  <2>2. \A O \in SUBSET Opinion, N \in SUBSET Note : WriteNext(O, N) => SignalsNext
    BY DEF WriteNext, SignalsNext
  <2>3. SignalNext => SignalsNext
    BY <2>1, <2>2 DEF SignalNext, SignalsNext
  <2> QED BY <2>3 DEF HouseNext, TheRest, Rests, houseVars
<1>7. [HouseNext]_houseVars => [RecallNext]_recallVars
  BY DEF HouseNext, SignalNext, TheRest, Rests, houseVars
<1>8. [HouseNext]_houseVars => [DuelNext \/ MapNext]_discoveryVars
  BY DEF HouseNext, SignalNext, TheRest, Rests, houseVars
<1> QED BY <1>1, <1>2, <1>3, <1>4, <1>5, <1>6, <1>7, <1>8, PTL
     DEF HouseSpec, EnrichmentSpec, DeskSpec, CatalogSpec, CategoriesSpec, SignalsSpec, RecallSpec,
         DiscoverySpec

(* Stories are of their dish (dish_editorial_service.py).                   *)
THEOREM HouseStories == HouseSpec => []EnrichmentHolds
<1> QED BY HouseIsItsParts, StoriesAreOfTheirDish

(* What the owner writes (owner_content.py, images.py).                     *)
THEOREM HouseDesk == HouseSpec => DeskHolds
<1> QED BY HouseIsItsParts, DeskIsKept

(* Restaurants and dishes are neither doubled nor left with a category that *)
(* is gone (posts.py, restaurant_service.py, categories.py).                *)
THEOREM HouseCatalogue == HouseSpec => CatalogueHolds
<1> QED BY HouseIsItsParts, CatalogIsKept, CategoriesAreKept, PTL DEF CatalogueHolds

(* Reviews are followed by what is derived from them (sentiment_service.py, *)
(* embeddings_service.py).                                                  *)
THEOREM HouseSignals == HouseSpec => []SignalsHold
<1> QED BY HouseIsItsParts, SignalsAreFollowed

(* A diner is told of a dish once (sommelier_recall.py).                    *)
THEOREM HouseRecall == HouseSpec => RecalledOnce
<1> QED BY HouseIsItsParts, DinersAreToldOnce

(* An offered duel can be fought but for a radius, and a map that is whole  *)
(* leaves nobody out (discovery_service.py).                                *)
THEOREM HouseDiscovery == HouseSpec => DiscoveryHolds
<1> QED BY HouseIsItsParts, DiscoveryIsWhole

(* A conversation is a diner's or an owner's, to its end.                   *)
ToolsPartInv ==
  /\ ToolsInv
  /\ part = "diner" => ~call.owner
  /\ part = "owner" => ~barred

LEMMA ToolsPartStep ==
  ASSUME ToolsPartInv, [HouseNext]_houseVars
  PROVE  ToolsPartInv'
<1>1. part' = part
  BY DEF HouseNext, SignalNext, TheRest, houseVars
<1>2. /\ part = "diner" => [DinerNext]_toolVars
      /\ part = "owner" => [OwnerNext]_toolVars
      /\ part \notin {"diner", "owner"} => UNCHANGED toolVars
  BY DEF HouseNext, SignalNext, TheRest, Rests, houseVars
<1>3. CASE part = "diner"
  BY <1>1, <1>2, <1>3, DinerKeeps DEF ToolsPartInv
<1>4. CASE part = "owner"
  BY <1>1, <1>2, <1>4, OwnerKeeps DEF ToolsPartInv
<1>5. CASE part \notin {"diner", "owner"}
  BY <1>1, <1>2, <1>5, ToolsRest DEF ToolsPartInv
<1> QED BY <1>3, <1>4, <1>5

(* Searches, recommendations and comparisons answer without dishes that     *)
(* name a declared allergen, details and reviews without what somebody      *)
(* blocked wrote, and an owner is told, be it as guidance, of one           *)
(* restaurant (app/services/chat/tools).                                    *)
THEOREM HouseTools == HouseSpec => AnswersHold
<1>1. HouseInit => ToolsPartInv
  <2> SUFFICES ASSUME HouseInit PROVE ToolsPartInv
    OBVIOUS
  <2>1. ToolsInit
    BY DEF HouseInit
  <2>2. ~call.owner /\ ~barred
    BY <2>1, NothingIsCalled DEF ToolsInit
  <2> QED BY <2>1, <2>2, ToolsStart DEF ToolsPartInv
<1>2. ToolsPartInv /\ [HouseNext]_houseVars => ToolsPartInv'
  BY ToolsPartStep
<1>3. ToolsPartInv /\ ToolsPartInv' /\ [HouseNext]_houseVars =>
        [/\ Comes("answer") => AllergensLeftOut' /\ BlockedUnheard'
         /\ Comes("answer") \/ Comes("guide") => (call.owner => WithinScope')]_toolVars
  <2> SUFFICES ASSUME ToolsPartInv, ToolsPartInv', [HouseNext]_houseVars, ~UNCHANGED toolVars
               PROVE  /\ Comes("answer") => AllergensLeftOut' /\ BlockedUnheard'
                      /\ Comes("answer") \/ Comes("guide") => (call.owner => WithinScope')
    OBVIOUS
  <2>1. (call'.pc = "answer" => AllergensLeftOut') /\ BlockedUnheard' /\ (call'.owner => WithinScope')
    BY AnswersAreRight DEF ToolsPartInv
  <2>2. part \in {"diner", "owner"} /\ part' = part
    BY DEF HouseNext, SignalNext, TheRest, Rests, houseVars
  <2>3. call.owner => part = "owner"
    BY <2>2 DEF ToolsPartInv
  <2>4. part = "owner" /\ call'.pc \in {"guide", "answer"} => (call.owner => call'.owner)
    <3>1. ASSUME part = "owner" PROVE OwnerNext
      BY <3>1 DEF HouseNext, SignalNext, TheRest, Rests, houseVars
    <3>2. call \in CallRow
      BY InCall DEF ToolsPartInv
    <3> QED BY <3>1, <3>2, OwnersGoOn
  <2>5. ASSUME call'.pc \in {"guide", "answer"}, call.owner PROVE WithinScope'
    BY <2>1, <2>3, <2>4, <2>5
  <2> QED BY <2>1, <2>5 DEF Comes
<1> QED BY <1>1, <1>2, <1>3, PTL DEF HouseSpec, AnswersHold

LEMMA HouseIsChat == HouseSpec => ChatSpec
<1>1. HouseInit => ChatInit
  BY DEF HouseInit
<1>2. [HouseNext]_houseVars => [ChatNext]_chatVars
  BY DEF HouseNext, SignalNext, TheRest, Rests, houseVars
<1> QED BY <1>1, <1>2, PTL DEF HouseSpec, ChatSpec

(* What is stored of a conversation (conversation_service.py, chat.py).     *)
THEOREM HouseTurns == HouseSpec => TurnsHold
<1> QED BY HouseIsChat, TurnsAreKept

(* Whatever the model is shown of a conversation, in any iteration of a     *)
(* turn, has its calls with their results; what is not truncated begins     *)
(* with a question (chat_service.py, agent_loop.py).                        *)
THEOREM HousePrompts == HouseSpec => []PromptsArePaired
<1> QED BY HouseIsChat, PromptsPairedAlways

LEMMA HouseToolsTyped == HouseSpec => []ToolsTypeOK
<1>1. HouseInit => ToolsPartInv /\ ShelfTyped
  <2> SUFFICES ASSUME HouseInit PROVE ToolsPartInv /\ ShelfTyped
    OBVIOUS
  <2>1. ToolsInit
    BY DEF HouseInit
  <2>2. ~call.owner /\ ~barred /\ ShelfTyped
    BY <2>1, NothingIsCalled DEF ToolsInit, ShelfTyped
  <2> QED BY <2>1, <2>2, ToolsStart DEF ToolsPartInv
<1>2. ToolsPartInv /\ ShelfTyped /\ [HouseNext]_houseVars => ToolsPartInv' /\ ShelfTyped'
  <2> SUFFICES ASSUME ToolsPartInv, ShelfTyped, [HouseNext]_houseVars PROVE ShelfTyped'
    BY ToolsPartStep
  <2>1. DinerNext \/ OwnerNext \/ UNCHANGED toolVars
    BY DEF HouseNext, SignalNext, TheRest, Rests, houseVars
  <2> QED BY <2>1, ToolsTyped DEF ToolsPartInv
<1>3. ToolsPartInv /\ ShelfTyped => ToolsTypeOK
  BY ToolsTypesAre DEF ToolsPartInv
<1> QED BY <1>1, <1>2, <1>3, PTL DEF HouseSpec

(* Every part keeps its types, for any number of turns, rows, loops, dishes *)
(* and restaurants.                                                         *)
THEOREM HouseTypesCorrect == HouseSpec => []HouseTypeOK
<1>1. ChatInv => ChatTypeOK
  BY DEF ChatInv
<1>2. CatalogInv => CatalogTypeOK
  BY DEF CatalogInv
<1>3. CategoriesInv => CategoriesTypeOK
  BY DEF CategoriesInv
<1>4. EnrichmentInv => EnrichmentTypeOK
  BY DEF EnrichmentInv
<1>5. DeskInv => DeskTypeOK
  BY DEF DeskInv
<1>6. /\ ChatTypeOK /\ CatalogTypeOK /\ CategoriesTypeOK /\ EnrichmentTypeOK /\ DeskTypeOK
      /\ ToolsTypeOK /\ RecallTypeOK /\ DiscoveryTypeOK /\ SignalsTypeOK
      => HouseTypeOK
  BY DEF HouseTypeOK
<1> QED BY <1>1, <1>2, <1>3, <1>4, <1>5, <1>6, HouseIsChat, HouseIsItsParts, HouseToolsTyped,
           ChatInvariant, CatalogInvariant, CategoriesInvariant, EnrichmentInvariant, DeskInvariant,
           RecallTypesHold, DiscoveryTypesHold, SignalsTypesHold, PTL

==============================================================================
