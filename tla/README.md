# A model of the Palato (CritiComida) backend

The backend is a FastAPI application over PostgreSQL (SQLAlchemy 2, asyncio): diners
review dishes, owners claim restaurants, admins merge duplicates, and a background worker
in the same process indexes what was written. Its code is sequential in each request; what
is hard about it is between requests: many run at the same time, each one a READ COMMITTED
transaction of several statements with `await`s between them, without optimistic locking,
and the worker is a set of such transactions that a restart may cut anywhere. This
directory holds TLA+ modules of the parts where that matters, the TLC configurations that
check them, and proofs that TLAPS checks.

- [1. Inventory](#1-inventory) of the system
- [2. Plan](#2-plan): modules, runs, theorems, in the order they are written
- [3. The modules](#3-the-modules) and the code they stand for
- [4. The runs](#4-the-runs): what each checks, bounds, fairness
- [5. The proofs](#5-the-proofs)
- [6. What the code does against its documentation](#6-what-the-code-does-against-its-documentation)
- [7. What is left out](#7-what-is-left-out)

Paths are relative to `src/`; `services/`, `routers/` and `models/` are under `src/app/`.
`PROJECT.json` has the same facts in machine form: which definition stands for which lines,
the properties each hazard is covered by, the mutated definition each property catches.

To check: `tlc -workers 2 -config X.cfg M` for the pairs of section 4, `tlapm M.tla` for
the eight `*Proofs` modules (`HouseProofs` takes a quarter of an hour).

## 1. Inventory

### What everything rests on

**Transactions of requests** (`database.py` 31-38). `get_db` opens a session, hands it to
the handler, commits after the handler has returned and rolls back when it raised. State:
the database and the objects of the session. Hard: the response is built before the commit;
checks and writes are separate statements; the ORM does not read a row again whose object it
holds, and leaves a column out of an UPDATE whose value did not change; row locks are taken
by whatever statement comes first. Every module below is written on top of this model.

**Background job queue** (`services/async_job_worker.py`, `models/async_job.py`,
`main.py` 76-123, alembic 053 and 063). State: the rows of `async_job` (status, attempts,
scheduled_at, dedup key), one loop per process. Operations: `enqueue` (INSERT .. ON
CONFLICT DO NOTHING in the caller's transaction), claim (FOR UPDATE SKIP LOCKED, committed
before the handler runs), handler, done / requeue with backoff / park after `_MAX_ATTEMPTS`
(five) attempts, start and graceful stop of the loop, CASCADE from the review, dish or user. Hard: two
processes, kills between claim and bookkeeping, a raise of the bookkeeping itself, a row
that is put back while a newer row of the same key is pending. Correct when: a row is run by
one loop at a time, a key has one pending row, attempts are charged before the run and never
given back, done and failed are final, every pending row is picked up as long as a loop is free.

### What users write

**Reviews, posts and rating aggregates** (`routers/reviews.py`, `routers/posts.py`,
`routers/dishes.py`, `services/rating_service.py`, `services/dish_service.py`). State:
`dish_reviews`, and the derived `computed_rating` and `review_count` of dishes and
restaurants. Operations: create, edit (a rename moves the review to another dish), delete,
posts that create what they review, merge and deletion of dishes. Hard: aggregates are
computed by one statement and stored by a later one, from objects that may be old; two dishes
of a rename are locked in no fixed order. Correct when: aggregates are those of the reviews,
or there is a reason that can be named; no review is lost to a merge.

**Review indexing** (`services/embeddings_service.py`, `services/sentiment_service.py`,
`app/scripts/backfill_sentiment.py`, `app/scripts/backfill_embeddings.py`). State: the embedding
row and the sentiment columns of a review, derived from its text by a provider, and the embedding
of a dish, derived from its name and the notes of its reviews. Operations: schedule with every
write, recompute in a job or a script. Hard: edits while a job is pending, running or waiting for
the provider; failures that the handler swallows; answers matched with reviews by position, hours
later. Correct when: what is derived from an older text is about to be replaced, or there is a
reason that can be named; label and score go together and are of that review; no work is left for
reviews that do not exist.

**Restaurant claims and ownership** (`services/claim_service.py`, `routers/claims.py`,
`routers/admin.py`, alembic 024). State: `restaurant_claims` (status, claimant, token in the
verification payload) and `restaurants.claimed_by_user_id`. Operations: create, click on the
mailed link, approve, reject, revoke. Hard: decisions by a status loaded without a lock, two
copies of the truth, two lock orders. Correct when: one verified claim per restaurant, one
open claim per user, and the owner is the claimant of the verified claim.

**Restaurant catalog and merges** (`services/restaurant_service.py`,
`services/dish_service.py`, `routers/restaurants.py`, `routers/posts.py`). State:
restaurants, slugs, `restaurant_slug_redirects`, dishes, everything below a restaurant.
Operations: find-or-create by place, by name and by hand, update, merge, delete, lookup with
fallback to redirects. Hard: a merge of about fifteen statements against everything that
writes below the two restaurants; chains of merges; reused slugs; two posts of a restaurant
nobody has posted yet. Correct when: nothing that was to be moved is lost, old links lead to
where their restaurant went, a place has one restaurant.

**Categories** (`services/category_inference_service.py`, `routers/categories.py`,
`services/admin_notification_service.py`). State: categories (approved or pending), the
categories of restaurants and dishes. Operations: a post asks a provider to pick or propose
one; admins create, approve, reject, delete. Hard: the answer takes seconds, and decisions
come meanwhile. Correct when: nothing refers to a category that is gone.

**Sessions and credentials** (`routers/auth.py`, `services/password_reset_service.py`,
`services/email_verification_service.py`). State: refresh tokens with a grace period and
revocation; mailed single-use tokens. Hard: two refreshes with one token, two clicks on
one link, sweeps of many rows under READ COMMITTED, reuse detection against a lost response.
Correct when: a token is exchanged once, a mailed token serves once, and a reset ends what
was opened with the old password.

**Chat turns and the agent loop** (`services/chat_service.py`,
`services/chat/agent_loop.py`, `routers/chat.py`, `services/chat_title_service.py`). State:
conversations, messages, the transcript of a running turn, the cap of iterations. Operations:
stream a turn, call tools, abort, archive, delete, title task. Hard: a stream that is closed
in the middle, a conversation deleted under a running turn, a history that is cut between a
call and its result, and cut again before every call of the model when it grows too long. Correct when: what is stored is whole turns, every tool call that the
model is shown has its result, the loop ends at its cap.

**Chat tools** (`services/chat/tools/`). State: none of their own, but the identity map of
the turn's session. Operations: queries the agent asks for; a few write reservation requests,
wishlist entries and preferences in the turn's transaction. Hard: several statements per
tool, over objects that an earlier tool loaded. Correct when: an allergen and a blocked author
are left out, and an owner is told of their own restaurant.

**Sommelier recall** (`services/sommelier_recall_service.py`). State: delayed jobs of the
queue, dismissals, notifications. Hard: the check for an earlier notification and its insert
are two statements, in a job that is retried. Correct when: a diner is asked once about a
dish, and not about one they have reviewed.

**Social graph** (`routers/follows.py`, `routers/safety.py`, `services/safety_service.py`).
State: follows, blocks, mutes, cached pages of suggestions; reports. Hard: a follow against a
concurrent block. Correct when: nobody follows across a block or hears of it.

**Likes, comments, bookmarks, want-to-try** (`routers/likes.py`, `routers/comment_likes.py`,
`routers/comments.py`, `routers/bookmarks.py`, `routers/want_to_try.py`). State: one row per
user and target; comments with replies; the anti-spam count over them. Hard: double clicks,
targets that go, the count is read before the row is written. Correct when: no mark outlives
its target, nobody is told twice, the limit holds. **Dish lists** (`routers/dish_lists.py`)
are rows of one user.

**Lists and pages** (every endpoint with a `next_cursor`). State: a cursor at the client.
Hard: `created_at` is drawn at the flush and visible from the commit on, it alone is the key,
and rows come and go between pages. Correct when: who reads to the end has seen what was there
all along, once.

**Notifications and mentions** (`services/notification_service.py`,
`services/mention_service.py`). Rows added in the transaction of what they are about.

**Owner console** (`routers/owner_content.py`, `routers/owner_dishes.py`,
`scripts/promote_dish_covers.py`). State: covers, official photos, answers to reviews.
Hard: a nightly script writes covers too; a cap is counted before it is used. Correct when:
the script takes no cover from an owner, an answer tells once.

**User profile, preferences and UI state** (`routers/user_preferences.py`,
`routers/owner_preferences.py`, `routers/user_ui_state.py`, `routers/users.py`,
`services/user_chat_preferences_service.py`). State: one row per user and matter. Hard: forms
and turns of the chat write the same row, and a turn lasts. Correct when: a writer changes
what it was asked to change.

**Images and uploads** (`routers/images.py`, `services/image_cleanup.py`). Files and rows
that point at entities without a foreign key; files are removed before the commit.

**Provider calls and enrichment** (`services/dish_editorial_enricher.py`,
`services/google_places_enricher.py` and the scripts that call them). State: stories of
dishes and their shared cache, Google's data on a restaurant. Hard: a row is loaded, a
provider asked, the row written. Correct when: what is written is about what the row is now,
or was changed meanwhile.

**Discovery** (`services/discovery_service.py`): the duel, whose selector and answer are two
requests, and the map, which is two statements; the rankings are queries.

### What only reads, or is somebody else's

**Search, trending and ranking formulas**: single queries. **Rate limiting, headers and
configuration**: counters of a library. **Migrations and backfills**: one-shot; the constraints
that migrations create are in the models.

### How they interact

Requests share the database and nothing else; the worker shares it too. `create_review`,
`update_review`, `create_post` stage queue rows in their own transaction, and call the rating
service before it commits. Deleting a review, dish or user cascades into the queue. Merges
call the rating service. Claims set the column that the owner console and the insights tools
read. Recalls are queued by the chat and notify through the notification table. A block is
read by follows, notifications, lists and tools; a rejection of a category re-points
restaurants; a merge moves plates under a running tool. Mail follows the state changes and
changes none; in-app notifications are rows of the transaction that causes them.

## 2. Plan

Order: first the queue, on which two other components stand; then what every user touches
(reviews and their aggregates); then ownership, which guards the owner console; then merges,
the largest transaction; then credentials, the social graph, lists and marks; then the
sommelier and the catalog; then proofs about these.

| module | composes | abstract specification | state |
|---|---|---|---|
| `WorkLedger` | | is one: requests and executions | done |
| `AsyncJobQueue` | refines `WorkLedger` | `WorkLedger` | done, safety and refinement proved |
| `ReviewIndexing` | extends `AsyncJobQueue` | | done, proved |
| `ReviewSignals` | | | done, proved |
| `RatingAggregates` | | | done, proved |
| `ClaimFlow` | | | done, proved |
| `RestaurantMerge` | | | done, proved |
| `Sessions` | | | done, proved |
| `SocialGraph`, `Comments`, `Marks`, `Preferences` | | | done, proved |
| `Paging` | | every row once, for all lists | done, proved |
| `ChatTurn` (with the agent loop) | | | done, proved |
| `AgentTools`, `SommelierRecall` | | | done, proved |
| `Catalog`, `Categories`, `Enrichment`, `OwnerDesk`, `Discovery` | | | done, proved |
| `MCCommunity`, `MCHouse` | the modules of diners; the others | | done; what the parts promise is proved of the sum |

Every property of a passing run is stated by a theorem but `PendingIsPickedUp`, which is liveness
(section 5).

Left to model, in this order: dimension ratings, the deletion of a restaurant with its images,
saved routes, `update_category`.

## 3. The modules

Conventions. A request is a record in `req` (what it is about, where it is, what it has seen,
written and locked) or `Idle`; its statements are actions, and its commit is the action that
changes the tables. What a statement reads is what is committed at that moment plus what its
own transaction wrote. A lock wait is the absence of a step: a statement is enabled when
`WaitsFor(c)` is empty, and a deadlock is a set of requests that wait for each other. `Abort`
is any exception, and the database's choice of a deadlock victim. A definition with the
comment `Mutant of X` is a plausible bug of `X`, used by no specification. History variables
say what happened; no action reads them. `Positions` has the entries of a sequence at given
positions, in their order, which is what the code's filters of lists come to.

### `WorkLedger`, `AsyncJobQueue` (`services/async_job_worker.py`)

| state | code |
|---|---|
| `status`, `attempts`, `key` | the columns of `async_job`; the key is kind plus payload columns |
| `due` | `scheduled_at <= now()`; the order of `scheduled_at` is given up, so any due row may be claimed |
| `mode`, `phase`, `held` | a process and its loop: where it is in `_drain_one`, the `job` it has |

`Enqueue` is the insert of a request when it commits, `Claim` the transaction of `_claim_one`,
`Fetch` / `FetchNone` / `FetchRaises` the refetch after it, and one action per end: `MarkDone`
(or it raises), `Requeue`, `Park`, `RequeueConflict` (the row is put back while a newer one of
its key is pending: the index refuses, the row stays running), `FailNone` (the row was deleted
meanwhile), `BookkeepingRaises` (anything between the rollback and the commit raises; this
includes reading an attribute of the expired object). `Cascade` deletes the rows of a key,
`Boot`, `Stop` and `Kill` are the life of the process; a stop that takes longer than the five
seconds of `production_lifespan` cancels the loop, which records nothing, and is a `Kill`.

`WorkLedger` promises: an execution comes from one request, a request is executed by one loop,
a request that arrives during an execution is a request again. Pending rows are its requests,
held rows its executions.

### `ReviewIndexing` (`services/embeddings_service.py`, extends the queue)

Keys are reviews. A review is known by the version of its text, an embedding by the version it
was computed from. `Stage` runs the statements of a write, among them the insert of the queue
row, which either inserts (`fold = NoJob`) or finds a pending row; it takes no lock, because an
edit of pros, cons, tags or images alone updates no row of `dish_reviews`, so two writes of one
review may overlap (an edit that does lock is one of these behaviours); `CommitQueued` and
`CommitFolded` are the commits of the two. `Read` is the handler loading the review, `Index` its
end with an answer of the provider, `Skip` the end without one (the handler logs and returns, on
purpose, and the job is done), `Retry` and `GiveUp` the ends by an exception. The rows are those
of `AsyncJobQueue`, whose actions are conjoined.

### `ReviewSignals` (`services/sentiment_service.py`, `services/embeddings_service.py`, two scripts)

What else is derived from reviews. `heard` has the two columns of the sentiment and, as history,
the review and the note they are of; `vector` is the text that the embedding of the dish was
computed from. `rows` says which kind of queue rows a behaviour is about, as kinds do not meet;
a pending row is an element of `queued`. `Queues` says which writes queue what: a post queues no
sentiment, an edit only if the note changed, and nothing queues a dish when it is renamed or
loses a review (`DubDish`, `DeleteOpinion`). `PersistSentiment` is the UPDATE of the ORM, which
leaves out a column that equals what the transaction loaded: two analyses that overlap can leave
the label of one and the score of the other (`torn`). `EmbedReview` locks the embedding of the
review until the dish is embedded. The text of the dish has the notes of its reviews as they are,
but the note of the job's own review as the job loaded it (`SeenText`): the session still holds
that object, and a query does not refresh it. So an edit that commits while the provider embeds
the review stays out of the dish until its own job comes, jobs of one review or of two, and a job
and the script, can overtake each other, and `missed` says when the later one was the older. `script` is a run of `backfill_sentiment`: calls one by one
(`RunSync`), or a batch that is built, waited for, perhaps resumed by name over snapshots that are
loaded again, refused if the number of answers differs (`SameNumber`), and walked through in
lockstep, each row loaded, written and committed on its own.

### `RatingAggregates` (`services/rating_service.py` and its callers)

One restaurant, its dishes and reviews. A request computes the rating (`Rate`), then the count
(`Count`) from a second query, loads the object (`Load`) and stores what differs from it
(`Store`), first for the dishes, then for the restaurant. `cache` and `held` are the identity map
of the session: an object that the handler still references is not refreshed by a query, so
`Changes` may be empty although the row has changed since. `Classify` is the category that
`create_post` writes first; `Lock` the FOR UPDATE of `merge_dishes`; `Unlink` and `WriteReviews`
delete a dish, the loaded reviews by their ids and later ones by cascade. The formulas are in
hundredths with ROUND_HALF_UP, critics weigh two, dishes rated 0 are left out. `drifted` records
the columns that missed a change and why: computed before another commit, elided, moved under
the request, or changed by a merge or a deletion, which do not recompute the restaurant.

### `ClaimFlow` (`services/claim_service.py`, `routers/claims.py`, `routers/admin.py`)

One restaurant. `Begin*` loads the claim and, by its selectin relationship, the restaurant, and
passes the test of the status; `Look` is the check of the owner; `RotateToken` the click's own
UPDATE of the payload, before the rest; `WriteOwner` and `WriteStatus` the two UPDATEs by primary
key in the order of the unit of work; `Commit` ends. `VerifiedAdmits` and `OpenAdmits` are the two
partial unique indexes, which see uncommitted entries of others and wait for them. `raced`
records that a decision was made on what another request had changed since it was loaded.
Refusals that change nothing, mails and notifications are left out.

### `RestaurantMerge` (`services/restaurant_service.py`)

`merge_restaurants` is one action per statement that locks or changes something: `Lock` twice
(FOR UPDATE), `Remap` (1a), `Drop` (1b), `Shift` (1c), `MoveRows` (2 to 6), `Repoint` (7),
`Redirect` (8), `DeleteSource` (9), `Recompute` (10), `CommitMerge`. Against it: `create_review`,
`update_dish` with a new name, any insert below a restaurant (`Attach`; `upsert_menu` is the one
that may have one row only), `delete_restaurant`, `TakeSlug` (a restaurant is created with, or
changes to, a slug that is free, be it in the table of links), and other merges. Locks are of two
kinds: own (UPDATE, DELETE, FOR UPDATE) and share (foreign keys, updates of columns in no key).
Two concurrent updates of plain columns do not wait for each other in this module, which only
adds behaviours. The statement
that locks the two restaurants has no ORDER BY, so a merge may come across them in either order
(`Second` is the one it takes last). An aggregate that does not change is not written, hence `Insert` and `DeleteSource` may skip it.
`Init` is any database that the constraints allow; `SmallInit` of `MCRestaurantMerge`, whose rows
are few, is where TLC starts.

### The modules of diners

**`Sessions`** (`routers/auth.py`, the two services of mailed links). `row` is the state of every
refresh token (by jti) and of every mailed link: live, spent (`revoked_at`, `consumed_at`), aged
once the grace of a refresh has passed. `Begin*` is the check at the head of a handler, `Scan` and
`Strike` the two halves of an UPDATE of many rows (its snapshot, then each row tested again under
its lock), `TakeRefresh` the `UPDATE .. RETURNING` of a rotation, `ReadLost` what its loser does,
`Raise` the 401 after a sweep. `former` records sessions that go back to a password before a
reset; `crossed` in which matter another request committed since this one began.

**`SocialGraph`** (`routers/follows.py`, `safety.py`). `tie` has the rows of the three tables. A
request looks for its row (`LookFound`, `LookInsert`, `LookDelete`; `InsertLost` meets the key of
another), sweeps the follows of a block, tells, and commits. `rail` is the cached page of
suggestions, filled by `FillSuggest` and invalidated before the commit of a follow, as in the code.

**`Comments`** (`routers/comments.py`). One review; `CountRepeats` is the statement of the
anti-spam limit, `InsertNote` the flush with its notifications (who is mentioned, who has closed
their notifications or blocks), `CommitNote` the commit. A removed comment is a row with
`removed_at`, an erased review takes all. **`Marks`**: likes, likes of comments, bookmarks and wishes
have the same protocol (look for the target, for the row, write, tell, commit) with differences
that `kind` and `op` name: `tool` is the wishlist tool of the chat, whose commit is that of its turn.
An insert locks its target (`TargetBusy`), and a target that went stays gone: ids are not used again.

**`Paging`**. One list and one reader. `FlushItem` draws `created_at` from the clock, `CommitItem`
makes the row visible, `HideItem` and `ShowItem` are blocks, moderation and deletion. One action per
endpoint, which differ in the key (`reader.way`): oldest or newest first, filtered after the fetch,
the helper of the feed, the ranked feed. `reader.owed` has the rows that were there all along.

**`Preferences`**. One row of one of four tables. A form reads the row and flushes the columns that
it changed, an upsert writes the columns it is given, a turn keeps the profile it loaded when it
began; the row is locked from the flush to the commit. The values of a column are finite lists of
things, up to the cap of that column.

### The sommelier

**`ChatTurn`** (`routers/chat.py`, `services/chat_service.py`, `agent_loop.py`). `log` has the
messages of a conversation in the order of their flush, committed (`by = Kept`) or not. `OpenKnown`
and `OpenNew` find or create the conversation; `AskTurn` is `stream_chat` up to the loop;
`AnswerText`, `AnswerCalls`, `AnswerFails`, `RunTool` and `Reserve` are the loop, with the cap in
`AfterTool`; `CommitTurn`, `Break` and `LegacyFails` its ends. FastAPI 0.115 closes `get_db` when
the handler returns its `StreamingResponse`: the conversation is committed before the first event
and detached from then on (`attached`), which the old endpoint is not. `Prompt` is `_load_history`
with `Sanitized`, which runs once, at the start of a turn (`History`); `Prompts` are the contents
of a call of the model, any of them in the turn: that history, the turn's own rows, and what
`Truncations` leaves of the two, as the guard drops the oldest blocks of more than `GuardRows`
contents. `Reserve` starts the mail with the row: a booking that is `lost` was mailed. `BeginHardDelete`, `Drop` and
`CommitErase` delete a conversation, `FindTitle` is the title task.

**`AgentTools`** (`services/chat/tools/`). `shelf` is the identity map of the turn's session: a
statement's WHERE sees what is committed, but a plate loaded earlier keeps its attributes until
`ForgetRows`. A tool is `Begin`, its statements, and `Return`; the edits of others come between.
A tool that resolves a name may instead answer with guidance (`AskBack`): candidates, a part of
the menu, the dishes resolved so far. `Comes` tells answers and guidance apart.
`DinerNext` and `OwnerNext` have the tools of the two agents.

**`SommelierRecall`**. `Recommend` and `CommitTip` queue a row for each dish that a turn recommends
(the same dedup as the queue, on the pending row), `TakeRecall`, `LookForReview`, `LookForNotice`, `MayTell`,
`ReadDish` and `FinishRecall` are the statements of the handler, `FailRecall` its failure, after
which the row is pending, parked or left running. The rest is what the diner does meanwhile.

### What is kept about restaurants

**`Catalog`** (`routers/posts.py`, `restaurants.py`, `dishes.py`). Restaurants of one name, which
share a base slug. `FindByPlace`, `FindByName`, `LookBeforeInsert`, `UniqueSlugFor` and `InsertSpot`
are the statements of find-or-create, with the unique indexes of place and slug, which see
uncommitted entries and wait; then `ResolveDish`, `InsertDish`, `WritePost`. `Erase` is any deletion
or merge that takes a dish or restaurant away. **`Categories`**: one slug that providers propose;
`BeginPosting`, `TakeGiven`, `InferCategory`, then the fallback, `PickExisting` or `ProposeNew`, then
`WriteColumns` on dish and restaurant; and the admins' requests against it.

**`Enrichment`**. `BeginStory`, `LoadMeal`, `ReadCache`, `GenerateBlurb`, `StoreBlurb` are a story;
a story is known by the name and language it is of. `BeginPlace` and `BeginFind` load the
restaurant, `FetchPlace` is the provider, `StorePlace` and `StoreFound` the writes; an answer has
some of the fields (`told`), and the others keep what they had. **`OwnerDesk`**: four small machines
for owners and admins, who may all that owners may: covers against the nightly promotion, photos and their cap, the answer to a
review, and an image whose file and row are written apart. **`Discovery`**: the offer of the selector
(`PopularDishRoots`, `PopularDishFamilies`) and the later fight, which may be limited to the
restaurants `near`; the two statements of the map
(`DiscoverRestaurantsInBbox`, `FetchEmptyRestaurants`). Ranks are left open: any order may come.

## 4. The runs

Each property has a mutant of the code's definitions that violates it, in `PROJECT.json`. The
numbers of distinct states are those of TLC with the configuration as it is; where a run is violated,
of the states it had found by then, which vary.

| run | configuration | what it shows | states |
|---|---|---|---|
| `async_queue` | `MCAsyncJobQueue` | two loops, two rows, two keys, two attempts: dedup, exclusion, budget, finality; refinement of `WorkLedger`; every pending row is picked up unless all loops hang | 5,156 |
| `queue_resume` | `.._resume` | violated: a row that a killed loop was running leaves that status | 32 |
| `review_indexing` | `MCReviewIndexing` | two writers that may overlap, two loops, one review of three versions, three rows: no work for missing reviews, every outdated embedding is covered or has a named cause | 383,096 |
| `indexing_fold` | `.._fold` | violated, though nothing fails: an edit that folds into a pending row is indexed | 149 |
| `rating_aggregates` | `MCRatingAggregates` | two overlapping requests of any kind, two dishes, two reviews, a critic: causes of drift, causes of deadlock, merges keep reviews | 769,678 |
| `ratings_settle` | `.._settle` | violated, from the creation of the first two reviews on: when nobody writes, a dish has the average of its reviews | 552 |
| `claim_flow` | `MCClaimFlow` | two overlapping requests, three claims, two users, no bound on their number: uniqueness, owner and claims agree, deadlocks need a click | 279,525 |
| `restaurant_merge` | `MCRestaurantMerge` | two overlapping requests, three restaurants and slugs, two dishes, a review, two menus: constraints, links, reviews, rows; merges that wait for each other lock in different orders | 155,928 |
| `sessions_reuse` | `MCSessions_reuse` | violated: a token that is used again ends every session of its user | 836 |
| `feed_pages` | `MCCommunity_posts` | violated: who reads the feed to its end has seen every post | 32,066 |
| `community` | `MCCommunity` | credentials, graph, comments, lists, settings and marks, each under two overlapping requests | 714,599 |
| `house` | `MCHouse` | turns and their prompts, tools, recalls, catalog, categories, enrichment, sentiment and embeddings of dishes, the owner's desk, duel and map, likewise | 931,866 |

**Bounds.** Two of each actor suffice for what the properties tell apart, since each concerns a
pair: two loops and a row, two writers of a dish, two decisions of a claim, a merge and what
interferes with it. Three queue rows for one review let one be running, one pending and one be
inserted. Three claims let a restaurant be verified, revoked and claimed again by another user
while a third is open. Three restaurants let the target of a merge be merged, and three slugs let
a merged slug be taken. `MaxVersion` = 3 lets a job read a text older than the one a second job
has indexed. `MaxRequests` bounds the requests of a behaviour in `RatingAggregates` and
`RestaurantMerge`, whose runs therefore start in every database that sequential requests can
leave (in `RestaurantMerge`: with one other row, one link, one dish per restaurant at
most) and end: `CHECK_DEADLOCK FALSE` there stands for that end only, and deadlocks of requests
are properties. The claims and the queue need no such bound. Ids that are deleted are reused
once nobody refers to them, so that behaviours do not end.

**`community` and `house`** hold several modules that share no state: `part`, chosen in the
initial state, says which one a behaviour is about, and the others rest. TLC so explores the sum
of the state spaces, never their product, and a part loses no behaviour by it. A part is
the machine with the bounds here; distinct states of each are in brackets.

- `sessions` (192 thousand): two requests, two refresh tokens, two links that reset. Two tokens
  let one be exchanged, or two logins cross, while both are swept; two links let one be asked for
  while the other is clicked. A token is never deleted, so these numbers are what ends a
  behaviour. `mails` (6 thousand): the same machine with two links of either kind and no login;
  links that verify and refresh tokens do not meet, so each has a part.
- `social` (188 thousand), `comments` (146 thousand), `marks` (6 thousand): two requests, two
  people (one of whom, `Viewer`, asks for suggestions), two comments, a limit of one repeated body
  instead of two.
- `paging` (149 thousand): three rows, pages of one row, two ticks of the clock: a row at a page
  boundary, one before and one after, with equal and different times.
- `settings` (27 thousand): two requests on one of four rows, lists of two things and a cap of one.
- `chat` (150 thousand): two turns in one conversation, two iterations with up to two calls (one,
  while two turns are in flight), a window of four messages, so that it cuts through a turn, and a
  turn starts only on fewer than four stored messages.
- `diner` (55 thousand), `owner` (8 thousand): two plates, two restaurants, one call of any
  tool after any other; to a diner's tools one restaurant holds all plates, as they do not tell
  restaurants apart. `recall` (78 thousand): two dishes, one of which is followed (`OneFollowed`: it
  is reviewed, dismissed or deleted, and its row falls due), two rows, two loops, two turns.
- `catalog` (241 thousand): two requests, two restaurants, one place. `categories` (48 thousand):
  two requests, a restaurant with a dish, two categories of one slug.
- `story` (139 thousand), `place` (5 thousand): two jobs, a dish of two names, two places.
- `tone` (8 thousand), `sync` (18 thousand), `dub` (57 thousand): one review and two loops, or
  one loop beside the script; two notes, or one note that may be empty and two names of the dish.
  `batch` (15 thousand), `twins` (32 thousand): two reviews of one note, written one at a time,
  with the script, or with two loops. Scores are below -0.15 or above 0.15, where a label can be
  contradicted.
- `cover`, `photo`, `answer`, `image` (640 together), `duel` (71 thousand), `map` (5 thousand).

The number of requests is not bounded there; what ends a behaviour is that ids are used up
(tokens, comments, stored messages, slugs), hence `CHECK_DEADLOCK FALSE`. Requests there are not
examined for deadlocks: one that the database resolves is an abort, which each of them may have at
any statement.

**Symmetry** is declared over sets of ids that no definition chooses from by order; the `CHOOSE`
of `NextLock` in `RatingAggregates` chooses a dish, and dishes are not permuted there, nor the
tokens of `Sessions`. In `community` and `house` the requests of a part are permuted, in `house`
the dishes of the tools and of the duel too, and nothing else. No run with a liveness property has symmetry.

**Fairness** is used by the queue alone. `Served`: time passes (`WF` of `FallDue`); the platform
starts a process that is down (`WF` of `Boot`); the claim of each due row is strongly fair, since
the loop polls for ever and takes the row that was scheduled first, before which there are finitely
many, and since kills may come between polls but not before every poll. Nothing is assumed of
requests, of `Stop` and `Kill`, of the success of anything, nor that a handler ever returns: the
provider's client is made without a timeout and the worker sets none, so a call that hangs holds
its loop. `PendingIsPickedUp` therefore says that a row waits for ever only if in the end every
loop is in the middle of a row. `queue_resume` is checked under `Served` and, in addition, handlers
that come to an end (`WF` of `Progress`), with kills and restarts as the only accidents: even in
that kindest of environments a running row is not resumed. All other violated properties are invariants or
action properties.

**What is worth knowing from the runs that pass.** A dedup against pending rows alone loses no
write that arrives while an older job runs (`StaleHasCause`). A row put back while a newer one of
its key is pending stays running though nothing crashed (`RequeueConflict`). Deadlocks of rating
requests need a rename, a merge, or a post that sets the restaurant's category. Two racing
approvals leave owner and claims in agreement, because the index stops the second after it wrote
the owner and the rollback takes that back. Links survive chained merges and slugs that are taken
again, although a comment calls the latter impossible. A review is lost to a merge of restaurants
only if a dish of that name is renamed into a collision, or is reviewed, between two of its
statements. A prompt pairs calls and results wherever window and token guard cut, because one
drops what precedes the first question and the other cuts before rows that are no result; but the
guard may leave a prompt that begins with a call, or has no question (section 6). A
deleted conversation leaves no message of a turn that streams, because the insert of a message
locks it. A second notification of a recall needs two runs of its dish at the same time. A keyset
list loses rows only among equal timestamps, or rows that were committed after a younger one had
been read.

## 5. The proofs

Eight modules; every leaf is checked by tlapm.

| module | about |
|---|---|
| `QueueProofs` | `AsyncJobQueue`, then `ReviewIndexing`, which reuses the first part |
| `RatingAggregatesProofs`, `ClaimFlowProofs`, `RestaurantMergeProofs`, `ChatTurnProofs` | the module of that name |
| `CommunityProofs` | `Sessions` and the modules of diners, one section each, and their sum `MCCommunity` |
| `PlacesProofs` | `Enrichment`, `OwnerDesk`, `Catalog`, `Categories`, one section each |
| `HouseProofs` | `ReviewSignals`, `SommelierRecall`, `AgentTools`, `Discovery`, one section or two each; then `MCHouse`, to which these and the theorems of `PlacesProofs` and `ChatTurnProofs` carry over |

**Assumptions.** The theorems hold for every value of the constants that satisfies the named
assumptions of the module, so for any number of requests, users, rows and workers. The
assumptions say that null values are not ids and that kinds of ids differ, that limits
(attempts, photos, allergies, rows of a page or a map, repeated bodies, answers and calls of a
turn) are positive, and that some sets are finite: the restaurants to merge, the eateries of a
map, the requests at the owner's desk, the reviews, dishes and scores of a restaurant, the rows
of recalls there ever are. Tables that grow by one row at a time are shown to be finite, and so
are the messages of a conversation, without a bound. Theorems `House*` are about `MCHouse`, which
the theorems about its components (`StoriesAreOfTheirDish`, `TurnsAreKept`, ..) carry over to.

**How they go.** What a request may do depends on what it has read or locked, so no property is
inductive. Each invariant has up to four parts besides the types: a *stage* (`Shape`, `..Stage`:
which operation is where, with what in hand), what a request *knows* (`Held`, `Stands`,
`..Knows`: how what it has in hand stands to the tables, as long as the flag of the model that
says it was crossed is down), how two requests are kept *apart* (`..Apart`: by locks, unique
indexes, ids not yet inserted), and what the tables alone satisfy. There is one lemma per action
and part, or per group of actions that do the same to the tables.

**The queue.** Theorems `TypeCorrect`, `OnePending`, `Exclusion`, `Budget`, `Holding`,
`Settled`, `Refinement`. The inductive invariant `IInv` is the conjunction of `TypeOK`,
`OnePendingPerKey`, `ExclusiveClaim`, `HeldIsRunning`, `AttemptBudget` and `RowsHaveKeys` (a row
that exists has a key). None is inductive alone: exclusion of the claim needs that a held row is
not pending; the budget of a row that is put back needs that a running row was charged; that
what a loop writes at the end finds a running row needs exclusion. Steps are grouped by what
they do to rows and loops (inserted, claimed, settled, abandoned, quiet, cascaded). `Settled`
and `Refinement` are step properties under `IInv`: the refinement maps pending rows to requests
and held rows to executions, and each group of steps to `Request`, `Take`, `Retry`, `End`,
`Withdraw` or a stutter.

**Indexing.** `QueueInside`: each step of `ReviewIndexing` is one of the queue or leaves it
alone, so `IInv` holds there. `IndexIInv` adds that the row a write folds into is of that review (`FoldIsOpen`), that a
handler has read a version that was committed (`SeenCommitted`), and the two properties,
`NoOrphanRow` and `StaleHasCause`.

**Ratings.** `LockInv`: the shape of a request at each statement, that reviews refer to dishes
that exist (`References`), that written reviews and locked rows are one request's alone
(`WroteApart`, `LocksApart`), that a merge has emptied its source (`EmptiedAt`) and what it gives
reviews to is there (`AliveAt`). `DeadlockCause` is by contradiction: in a circle without one of
the named causes nobody holds a lock taken before writing, so everybody waits for a write or an
unlink, and two deletions meet. `DriftInv` adds, per column, that what a request has computed, has
loaded and has stored is what the formula gives of the reviews as they will be when it commits
(`ValueAt`, `CacheAt`, `StoredAt`), unless it computed from a stale object or missed a review,
which are the causes that `DriftHasCause` names. The formulas are not expanded there: that a
column is right means that it is the formula's value, whatever the formula. They are for the types
(`AggregatesTyped`): `TypesInv` adds `Bounds`, that a count is at most the number of reviews (for
the restaurant, the sum of its dishes': that number for each) and an average at most a hundred
times the highest score, in the stored row, in every object that a session has cached, in what is
about to be written and in what has just been computed. The sums that the formulas are built of
are folds, and what a fold computes is an induction over a set. The library's induction theorems
cannot be used, so the one that is needed is by a smallest counterexample (`SmallestOf`, from the
well-foundedness of the numbers): a function that sums each subset exists (`SumsExist`), the fold
is one (`Summing`), and two sums compare as their terms do, or there would be a smallest set whose
sums do not (`TotalBound`). The bound of an average is that of `HalfUp`: a weighted sum is at most
the highest score times the sum of the weights.

**Claims.** Theorems `ClaimTypeCorrect`, `ClaimsAreUnique`, `OwnerHasTheClaim`,
`DeadlockTakesClick`. No decision holds a lock when it tests, so the properties are far from
inductive. `ClaimInv` adds: `Shape`, `RowsKnown` (who may be about which row), `EntriesApart`
(uncommitted entries of the two indexes differ from each other and from the committed ones: this
gives uniqueness at the commit), `SeenIsSo` (a decision that is not outdated knows the status
and the owner as they are) and `WrittenOwner` (the owner a decision is about to write, from what
it saw). At a commit that is not outdated the last two give the agreement of owner and claims;
at one that is, `raced` is set. The circle of a deadlock needs a click because all other
requests lock the restaurant before the claim.

**Merges.** `MergeInv`: shape, locks, index entries and inserted rows apart, and `Held`, what a
merge knows of the rows it has locked: after the second statement no dish of the source has the
name of one of the target, after the rows all are moved but menus that the target has, and every
link to the source is among those it repoints. Another request's commit leaves that alone
because of the locks (`Rely`, `Stays`). `MergesInOrder`: in a circle of merges every one is still
locking its two restaurants, and waits for one that the next has locked; if one ranking of the
restaurants agreed with the orders in which all of them lock (`Ordered`), the ranks of what they
wait for would grow around the circle, which well-foundedness excludes. That there are circles,
because nothing makes the orders agree, is the first of the claims in section 6; the theorem says that an ORDER BY
would be enough, whatever else a merge locks.

**Turns.** `ChatInv`. What is stored is whole turns, and a prompt is cut from it; but in between
there are half a turn's rows, so what is inductive is where a turn stands in its own rows.
`Splits`: a conversation in which no two turns overlapped is committed rows, then rows of one
turn; the committed ones are whole, and all of them are whole but for as many results as that
turn has calls left (`CallsPaired`, `CallsOpen`) and as many answers as its round allows. A turn
that is about to ask the model ends in a question or a result, which is what makes the next row
well placed. `RowsHere` and `HasRow` tie the rows that are not committed to the turns that run, so that
an abort, which removes the rows of its turn (`ForgetTurn`), leaves exactly the committed ones,
and a commit makes all of them `Kept`. `FreshTalk` and `EraserShape` say that no row of another is in a
conversation that goes: hence `NoOrphanMessage`. `Booked` ties a reservation to a result in the
rows of its turn. For the prompt, three cuts are shown to keep the pairing, each by where it may fall:
the window of the history may fall anywhere, but `Sanitized` then starts at a question, before
which no call is open (`FromQuestion`), and drops a last call without results; at later
calls of the model the turn's own rows follow, of which none is open when the model is asked
(`PromptsPaired`); the truncation starts at a row that is no result. Filters keep the order by the number of rows before a row
(`AscendingIs`), not by recursion, so sequences of any length need no induction.

**Credentials.** `SessionsInv`: `Stage`, `Stands`, `Apart`. A request that has updated a row is
the only one that may until it ends, so a sweep that nobody crossed holds every open token it is
about when it commits.

**Diners.** `SocialInv`: who asked for a block has swept every follow between the two by its
commit, a follow that commits has found no block, and has emptied the cached suggestions, unless
passed. `MarksInv`: two requests do not write one mark, and a target is not deleted under an
insert that waits to commit (`PressApart`), so a target that is gone has no marks. `PagingInv`:
what has been seen lies before the cursor, what is owed lies beyond it or shares its timestamp
(`IsBeyond`), so the last page completes the list; a cursor is an arithmetic comparison there,
not an order of ids. `CommentsInv`: nobody has posted since an unpassed request counted
(`HandKnows`), hence `SpamIsBounded` after its commit; the rows posted are finitely many,
without which counting them would mean nothing. `PreferencesInv`: what a form leaves out is as
it wants it, and what a turn stores is the old allergies and the new ones up to the cap.
`CommunityIsItsParts`: a behaviour of `MCCommunity` is one of each component, so what is proved
of these holds of what TLC explores; `CommunityTypesCorrect` is its type invariant.

**The house.** `EnrichmentInv`: what a job carries was written for the name and the place it read
(`JobKnows`), and a field of another place is one that was `moved`. `DeskInv`: photos plus those about to be added exceed the cap by at most one less
than there are seats; who has the lock of the answer has seen the answer as it is; an image lacks
its file only in the middle of a deletion or after one that failed. `CatalogInv`: a new restaurant
is nobody else's, and entries of the unique indexes clash with no row that stands; a post that
nobody crossed has found what there is. `CategoriesInv`: what is brought is not there yet and what
is being ended is in nobody else's commit (`TasksApart`), so columns refer to categories that are
listed (`ColumnsKnow`). `SignalsInv`: an outdated sentiment or vector has a job, a script or a run
on its way (`Followed`, `DishFollowed`), and a script that was not resumed has the answers of its
own snapshots. `RecallInv`: two runs of one dish overlap (`RunnersApart`), and a run past its
guard has found no notification but one that overlapped. `ToolsInv`: what the session holds of a
plate is as it is unless it changed (`ShelfKnows`), a guarded tool names plates that the session
holds, an owner's tool only those it found in the restaurant. `DiscoveryInv`: an offer nobody
stirred is still a rivalry (of all restaurants; a radius may leave one), and a map to be filled has every restaurant but those that shifted.
The types of these parts have theorems of their own where they take more than the invariant: what
a loop or a script has in hand is lists and texts of reviews that exist (`SignalsTyped`), a batch
of any length included (`SomeOf`); a notification of a recall is of a row of its own that is done
(`RecallCounted`). `HouseIsItsParts` carries the theorems over to `MCHouse`, with `ToolsPartInv`
for the tools, which are of one kind per part there; `HouseTypesCorrect` is its type invariant.

**What proving corrected.** `DeadlockHasCause` lacked two deletions that meet at a moved review,
merges were thought to lock in one order, which a plan does not have to follow, a merge of restaurants
may miss a review of a dish renamed into a collision as long as the name is among those touched,
a target of marks that was deleted could come back, `Preferences` counted lists that could be
infinite, and a story could be the null value. TLC had met none of these in its instances.

**Only model-checked.**

- `PendingIsPickedUp` and the violated liveness properties: the prover has no ENABLED, so
  fairness is out of its reach.
- What the formulas of the ratings compute, beyond their bounds: `DriftHasCause` is relative to
  them, and that they are the averages of the code is read from the code.

## 6. What the code does against its documentation

Checked by a run: a hard kill is not recoverable for the row being run (`queue_resume`); an edit
that folds into a pending row may be lost (`indexing_fold`); a rating may stay wrong after two
concurrent reviews (`ratings_settle`); a token that is used again revokes every session, and the
401 that answers it rolls that back (`sessions_reuse`); the feed says there is no other page when
there is exactly one post more than a page (`feed_pages`). `PROJECT.json` quotes the lines.

Refuted by TLC under the constants of a passing run, when one line of its configuration asks for
the property instead; each stands in its module, beside what holds in its place.

| claimed at | property | what happens (`house`; the first: `restaurant_merge`) |
|---|---|---|
| `restaurant_service.py:275`: ordered "to avoid deadlocks if two merges race" | `MergesDoNotDeadlock` | an `IN` list has no order; without `ORDER BY` two merges lock the two rows in the orders in which their plans meet them. `OneOrderNoDeadlock` holds |
| `chat_service.py:133`: a call follows a question or a result, never words | `CallsFollowTurns` | the rows are cleaned when the turn begins; the guard on tokens then drops the question and leaves the call. `PromptsArePaired` holds |
| `agent_loop.py:731`: "Always preserves the latest user turn" | `QuestionIsShown` | it spares the last block, which from the second call of the model on is a call with its results |
| `chat_service.py:12-14`: what is persisted during the stream survives an abort, "important for Business audits" | `AbortKeepsTranscript` | the messages are flushed and committed once, at the end of the turn; an abort rolls all of them back, the question too. `TurnsHold` holds, which asks for whole turns only |
| `reservations.py:153`: "the row is already committed" when the mail leaves | `MailedIsStored` | it is flushed; an abort leaves an owner who was mailed about no request. `BookedWithTurn` holds |
| `_allergy_filter.py:10`: `compare_dishes` consults the filter before it answers | `GuidanceIsFiltered` | for a name without match, or with several, it returns candidates and the dishes resolved so far, before the allergies are read. `AllergensLeftOut` holds of what is compared |
| `category_inference_service.py:28-31, 286`: never raises, at the worst "otros" | `InferenceNeverRaises` | a proposal is compared with the approved categories only; its flush clashes with a pending slug, or one that came meanwhile, and the post is lost. `CatalogueHolds` holds of posts that land |

Seen while reading, without a run of their own; where the models have the behaviour, it is an
exception that a property names.

- *Claims and merges.* `routers/claims.py` 182 calls the second click on a link idempotent, but the
  token it looks for has been removed, and the answer is 404; the comment at 205 there expects a
  failed approval to keep the payload, which `get_db` rolls back. An approval and a rejection that
  overlap leave an owner whose claim is rejected. A merge deletes with the source what it does not
  move: claims, official photos, reservation requests and clicks, owner preferences.
  `services/dish_service.py` 541 expects no children at a merged dish, but list entries, recalls
  and dismissals cascade. A `GET` by an old slug reads the link and the restaurant in two
  queries, and answers 404 when the target is itself merged in between.
- *Turns.* The docstring of `chat_service.py` (14-16) has one transaction per request; a streamed
  turn has its own, and the title and `last_message_at` it sets on the detached conversation are
  never flushed.
- *Discovery.* The selector of duels asks for two restaurants anywhere, the duel for two within the
  radius: what is offered may have no opponent, and the reason given is a root of one restaurant.
- *Tools.* `compare_dishes` counts the pros and cons of blocked authors; `create_dish_route`,
  `surprise_me` and `get_dish_detail` have no guard of allergies by text (`Guarded` names those that
  have); the search applies its limit before its filter of allergies. A comment in `recommend.py`
  says that a failure of the queue does not reach the recommendation; a failed flush does.
- *People.* `except IntegrityError` around the insert of a follow is never reached, because the
  flush comes earlier; a repeated like notifies again after an unlike; blocks and mutes leave the
  cached suggestions. `dishes_social.py` 219 discards the cursor it is given.
- *Preferences.* `recompute_taste_profile` and `maybe_refresh_after_review` are called by nobody,
  although `user_preferences.py` and `models/chat.py` 172 describe them as running. Allergies
  beyond the twentieth are dropped by a tool that answers that they are saved.
- *Catalog.* Two restaurants of one name make a post by that name raise for ever
  (`MultipleResultsFound`), and posts at the same time can create them. An approval and a rejection
  of a category that race can delete an approved one; dishes of a rejected one have no category,
  restaurants get the target. `update_restaurant` blames the slug for a clash of the place.
- *Owner and providers.* Overlapping additions exceed the cap of photos that the docstring answers
  409 for. The script of covers can promote on a restaurant claimed since it looked. A story is
  not stale when its dish was renamed. The stage of a batch that finds places overwrites one set
  meanwhile, and commits the batch at its end. An answer of Google's that lacks a field leaves that of a
  former place, under a fresh `google_cached_at`. `maybe_schedule_refresh` is called by nobody.
- *Sentiment.* `sentiment_service.py` (16-17, 286) skips the analysis if the hash of the note
  matches the previous run; nothing computes it, and every job asks the provider. A note that is
  emptied keeps the sentiment it had. `app/scripts/backfill_sentiment.py` (387-391) resumes a
  batch if the flags are the same; the snapshots also have to be, and only their number is
  compared.

## 7. What is left out

- Of reviews and the catalog: dimension ratings and price flags (the formulas have the branch
  without dimensions), dishes found or created by posts in
  `RatingAggregates` (they are dishes that exist, empty), moves of a review by a rename during a
  merge of restaurants, the uniqueness of dimension ratings in a merge (resolved by the same rule
  as the menu), menus, diary entries, pros and cons, and images at the deletion of what they are of.
- Of the other components: dish lists and routes; the uniqueness of a report; `update_category`
  and the tree of categories; the profile form and handles; `chef_only` of the map; titles and
  texts of messages, cards and token counts (the guard may cut anywhere it can). Tools
  that only query are those of `AgentTools` or differ from one of them in the columns.
- Ranking, search and trending are single queries whose correctness is their SQL and arithmetic.
  Rate limits count in a library; prompts, providers and mail are external, an answer or a failure
  where a module depends on them. Migrations and backfills run by hand, once.
- Serialisation failures do not occur at READ COMMITTED. The length of a poll, of a backoff and
  of a timeout is abstracted to whether it has passed.
