----------------------------- MODULE MCCommunity -----------------------------
(***************************************************************************)
(* What the diners do, in one instance.  These components share no state    *)
(* that the modules know of: a behaviour chooses a part and is a behaviour  *)
(* of that one, so that TLC explores the disjoint sum of their state spaces *)
(* and a property is about the steps of its own part.                       *)
(***************************************************************************)
EXTENDS Sessions, SocialGraph, Comments, Paging, Preferences, Marks, TLC

VARIABLE part  \* the one this behaviour is about

communityVars ==
  <<part, sessionVars, socialVars, commentVars, pagingVars, prefVars, marksVars>>

Part == {"sessions", "mails", "social", "comments", "paging", "settings", "marks"}

(* Where a part starts in one of several states, the others know one.       *)
CommunityInit ==
  /\ part \in Part
  /\ SessionsInit /\ SocialInit /\ CommentsInit
  /\ PagingInit /\ (part = "paging" \/ reader.way = "newest")
  /\ PreferencesInit /\ (part = "settings" \/ table = "voice")
  /\ MarksInit /\ (part = "marks" \/ kind = "like")

Rests(owners, vars) == IF part \in owners THEN TRUE ELSE UNCHANGED vars

(* What this behaviour is not about.                                        *)
TheRest ==
  /\ Rests({"sessions", "mails"}, sessionVars) /\ Rests({"social"}, socialVars)
  /\ Rests({"comments"}, commentVars) /\ Rests({"paging"}, pagingVars)
  /\ Rests({"settings"}, prefVars) /\ Rests({"marks"}, marksVars)
  /\ UNCHANGED part

(* Links that verify and refresh tokens do not meet: each has a part.       *)
Without(ops) == \A c \in Client : request'[c].op \notin ops

CommunityNext ==
  \/ part = "sessions" /\ SessionsNext /\ Without({"verify", "resend"}) /\ TheRest
  \/ part = "mails" /\ SessionsNext /\ Without({"login", "refresh", "logout"}) /\ TheRest
  \/ part = "social" /\ SocialNext /\ TheRest
  \/ part = "comments" /\ CommentsNext /\ TheRest
  \/ part = "paging" /\ PagingNext /\ TheRest
  \/ part = "settings" /\ PreferencesNext /\ TheRest
  \/ part = "marks" /\ MarksNext /\ TheRest

CommunitySpec == CommunityInit /\ [][CommunityNext]_communityVars

(* The requests of a part are interchangeable.                              *)
Symmetry == Permutations(Client)

(* Every part keeps its types.                                              *)
CommunityTypeOK ==
  /\ part \in {"sessions", "mails"} => SessionsTypeOK
  /\ part = "social" => SocialTypeOK
  /\ part = "comments" => CommentsTypeOK
  /\ part = "paging" => PagingTypeOK
  /\ part = "settings" => PreferencesTypeOK
  /\ part = "marks" => MarksTypeOK
=============================================================================
