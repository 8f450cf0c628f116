-------------------------------- MODULE Paging --------------------------------
(***************************************************************************)
(* A list that is read page by page while it changes: every endpoint that   *)
(* answers with next_cursor (app/routers/comments.py, notifications.py,     *)
(* follows.py, safety.py, bookmarks.py, want_to_try.py, reports.py, feed.py, *)
(* users.py, dishes_social.py).                                             *)
(*                                                                          *)
(* The cursor is the created_at of the last row of a page, and the next     *)
(* page is what lies strictly beyond it.  created_at is drawn when a row is *)
(* flushed, so a row can become visible after rows that are younger; rows   *)
(* that are flushed in the same tick of the clock have the same one.        *)
(***************************************************************************)
EXTENDS Naturals, FiniteSets

CONSTANTS
  Item,     \* rows of the list
  Limit,    \* rows of a page
  Ahead,    \* rows that for_you fetches beyond a page (5 or more)
  MaxTime   \* bound: ticks of the clock

ASSUME PagingAssumption ==
  Limit \in Nat \ {0} /\ Ahead \in Nat \ {0} /\ MaxTime \in Nat \ {0}

VARIABLES
  clock,     \* the clock
  item,    \* the rows
  reader   \* the one who reads

pagingVars == <<clock, item, reader>>

(* How a list is read.  oldest, newest: by created_at, with the cursor;     *)
(* saved: the same, and what the reader may not see is left out of the page *)
(* afterwards; posts: newest, as _build_feed_items does it; ranked: by a    *)
(* priority that changes all the time, with the cursor; stuck: by           *)
(* created_at, without the cursor.                                          *)
Way == {"oldest", "newest", "saved", "posts", "ranked", "ahead", "stuck"}
Keyset == {"oldest", "newest", "saved"}

ItemRow == [state : {"absent", "flushed", "shown", "hidden"}, stamp : 0..MaxTime]

(* The reader: what it has seen, and twice, and, a history, what has been   *)
(* there ever since it opened the list.                                     *)
Reader == [way : Way, pc : {"away", "reading", "done"}, cursor : 0..(MaxTime + 1),
           seen : SUBSET Item, again : SUBSET Item, owed : SUBSET Item]

PagingTypeOK ==
  /\ clock \in 0..MaxTime
  /\ item \in [Item -> ItemRow]
  /\ reader \in Reader

PagingInit ==
  /\ clock = 0
  /\ item = [i \in Item |-> [state |-> "absent", stamp |-> 0]]
  /\ \E way \in Way :
       reader = [way |-> way, pc |-> "away", cursor |-> 0,
                 seen |-> {}, again |-> {}, owed |-> {}]

------------------------------------------------------------------------------
(* What others do to the rows.                                              *)
Tick == clock < MaxTime /\ clock' = clock + 1 /\ UNCHANGED <<item, reader>>

Turns(i, from, to) ==
  /\ item[i].state = from
  /\ item' = [item EXCEPT ![i].state = to]
  /\ UNCHANGED clock

FlushItem(i) ==
  /\ item[i].state = "absent"
  /\ item' = [item EXCEPT ![i] = [state |-> "flushed", stamp |-> clock]]
  /\ UNCHANGED <<clock, reader>>

CommitItem(i) == Turns(i, "flushed", "shown") /\ UNCHANGED reader

(* A comment is removed, a follow or a block is undone, a report is closed, *)
(* the author of a review is blocked.                                       *)
HideItem(i) ==
  /\ Turns(i, "shown", "hidden")
  /\ reader' = [reader EXCEPT !.owed = @ \ {i}]

ShowItem(i) == Turns(i, "hidden", "shown") /\ UNCHANGED reader

------------------------------------------------------------------------------
InList == {i \in Item : item[i].state = "shown"
                          \/ (reader.way = "saved" /\ item[i].state = "hidden")}

(* The rows beyond the cursor.                                              *)
Beyond ==
  {i \in InList :
     \/ reader.cursor = 0 \/ reader.way = "stuck"
     \/ IF reader.way = "oldest" THEN item[i].stamp + 1 > reader.cursor
        ELSE item[i].stamp + 1 < reader.cursor}

Precedes(i, j) ==
  IF reader.way = "oldest" THEN item[i].stamp <= item[j].stamp
  ELSE reader.way \in {"ranked", "ahead"} \/ item[i].stamp >= item[j].stamp

(* The first n rows, in an order that ties leave open.                      *)
Firsts(n, rows) ==
  {p \in SUBSET rows :
     /\ Cardinality(p) = IF Cardinality(rows) < n THEN Cardinality(rows) ELSE n
     /\ \A i \in p, j \in rows \ p : Precedes(i, j)}

Lasts(p) == {i \in p : \A j \in p : Precedes(j, i)}

(* How many rows have to be there for a next page: one more than the page,  *)
(* but _build_feed_items probes one or more further on.                     *)
Probe ==
  CASE reader.way \in Keyset -> Limit + 1
    [] reader.way = "ahead" -> Limit + Ahead + 1
    [] OTHER -> Limit + 2

(* Mutant of Resume: the cursor is the row that was only fetched to see     *)
(* whether there is a next page.                                            *)
ResumeAtProbe(p) ==
  LET probes == IF Beyond = p THEN p ELSE UNION Firsts(1, Beyond \ p) IN
  {item[i].stamp + 1 : i \in probes}

(* The cursor of the next page; 0 is no cursor, times count from 1 here.    *)
Resume(p) == {item[i].stamp + 1 : i \in Lasts(p)}

(* One request for a page.                                                  *)
ReadPage(way) ==
  /\ reader.pc = "reading" /\ reader.way = way
  /\ \E p \in Firsts(Limit, Beyond) :
       LET shown == {i \in p : item[i].state = "shown"}
           more == p # {} /\ Cardinality(Beyond) >= Probe IN
       \E cursor \in IF more THEN Resume(p) ELSE {reader.cursor} :
         reader' = [reader EXCEPT !.seen = @ \cup shown, !.again = @ \cup (shown \cap reader.seen),
                                  !.cursor = cursor, !.pc = IF more THEN @ ELSE "done"]
  /\ UNCHANGED <<clock, item>>

OpenList ==
  /\ reader.pc = "away"
  /\ reader' = [reader EXCEPT !.pc = "reading",
                              !.owed = {i \in Item : item[i].state = "shown"}]
  /\ UNCHANGED <<clock, item>>

------------------------------------------------------------------------------
(* The endpoints.                                                           *)
ListComments == ReadPage("oldest")
ListReplies == ReadPage("oldest")
ListNotifications == ReadPage("newest")
ListFollowEdges == ReadPage("newest")
ListBlockedUsers == ReadPage("newest")
ListMutedUsers == ReadPage("newest")
ListMyWantToTry == ReadPage("newest")
ListReports == ReadPage("newest")
ListMyBookmarks == ReadPage("saved")
GetUserReviews == ReadPage("posts")
GetFeedFollowing == ReadPage("posts")
GetFeedTop == ReadPage("ranked")
GetFeedForYou == ReadPage("ahead")
GetDishReviews == ReadPage("stuck")

PagingNext ==
  \/ Tick
  \/ \E i \in Item : FlushItem(i) \/ CommitItem(i) \/ HideItem(i) \/ ShowItem(i)
  \/ OpenList
  \/ ListComments \/ ListReplies
  \/ ListNotifications \/ ListFollowEdges \/ ListBlockedUsers \/ ListMutedUsers
  \/ ListMyWantToTry \/ ListReports
  \/ ListMyBookmarks
  \/ GetUserReviews \/ GetFeedFollowing
  \/ GetFeedTop \/ GetFeedForYou
  \/ GetDishReviews

PagingSpec == PagingInit /\ [][PagingNext]_pagingVars

------------------------------------------------------------------------------
Tied(i) == \E j \in Item \ {i} : item[j].state # "absent" /\ item[j].stamp = item[i].stamp

(* Whoever has read a list to its end has seen every row that was there     *)
(* when they opened it and ever since, unless another row has the same      *)
(* created_at (comments.py:193).                                            *)
SeesAll == reader.pc = "done" => \A i \in reader.owed : Tied(i) \/ i \in reader.seen

(* This for the lists that fetch one row beyond the page, which also show   *)
(* no row twice, whatever is inserted, hidden or shown meanwhile.           *)
PagesMissNothing == reader.way \in Keyset => SeesAll /\ reader.again = {}

(* The same of the reviews of a user and the feed of those one follows,     *)
(* whose helper is documented to return "(items, has_more)" (feed.py:177).  *)
PostsMissNothing == reader.way = "posts" => SeesAll

=============================================================================
