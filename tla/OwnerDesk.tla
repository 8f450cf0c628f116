------------------------------- MODULE OwnerDesk -------------------------------
(***************************************************************************)
(* What the verified owner of a restaurant, or an admin for him, writes:    *)
(* the cover of a dish, the official photos, the answer to a review         *)
(* (app/routers/owner_dishes.py, owner_content.py); the nightly script that promotes covers where there   *)
(* is no owner (scripts/promote_dish_covers.py); and an uploaded image,     *)
(* whose row and file go together (app/routers/images.py).                  *)
(*                                                                          *)
(* A request is one READ COMMITTED transaction: a row it writes is locked   *)
(* until it ends, and others that write the row wait.                       *)
(***************************************************************************)
EXTENDS Naturals, FiniteSets

CONSTANTS
  Photo,  \* ids of official photos
  PhotoCap,    \* official photos a restaurant may have (five)
  Seat,   \* requests in flight at the same time
  Unlocked

ASSUME OwnerDeskAssumption ==
  PhotoCap \in Nat \ {0} /\ IsFiniteSet(Seat) /\ Unlocked \notin Seat

VARIABLES
  owned,     \* has the restaurant a verified owner
  cover,     \* who chose the cover of the dish
  coverLock, \* the request that holds the row of the dish
  photos,    \* the official photos
  reviewThere,    \* is the review there
  answer,    \* is the owner's answer to it there
  answerTold,      \* history: times the mentions of this answer were told
  answerLock,
  file,      \* is the file of the image on disk
  image,     \* is its row there
  halved,    \* history: was a deletion of it rolled back after the file went
  desk       \* the requests

deskVars == <<owned, cover, coverLock, photos, reviewThere, answer, answerTold, answerLock,
              file, image, halved, desk>>
coverRows == <<cover, coverLock>>
answerRows == <<reviewThere, answer, answerTold, answerLock>>
imageRows == <<file, image, halved>>

(* A request: what the row it looked up was, the photo it removes, and, a   *)
(* history, whether the restaurant got its owner since the look.            *)
NoSeat == [op |-> "none", pc |-> "none", saw |-> FALSE, photo |-> {}, crossed |-> FALSE]

DeskOp == {"none", "cover", "uncover", "promote", "add", "remove", "answer", "withdraw",
       "upload", "erase"}

SeatRecord ==
  [op : DeskOp, pc : {"none", "look", "write", "file", "commit"}, saw : BOOLEAN,
   photo : {{}} \cup {{p} : p \in Photo}, crossed : BOOLEAN]

DeskTypeOK ==
  /\ {owned, reviewThere, answer, file, image, halved} \subseteq BOOLEAN
  /\ cover \in {"none", "fans", "owner"} /\ photos \subseteq Photo /\ answerTold \in 0 .. 2
  /\ {coverLock, answerLock} \subseteq Seat \cup {Unlocked}
  /\ desk \in [Seat -> SeatRecord]

DeskInit ==
  /\ owned = FALSE /\ cover = "none" /\ coverLock = Unlocked /\ photos = {}
  /\ reviewThere = TRUE /\ answer = FALSE /\ answerTold = 0 /\ answerLock = Unlocked
  /\ file = FALSE /\ image = FALSE /\ halved = FALSE
  /\ desk = [s \in Seat |-> NoSeat]

Sits(s, op, pc) == desk[s].op = op /\ desk[s].pc = pc
GoesOn(s, q) == desk' = [desk EXCEPT ![s] = q]
Leaves(s) == GoesOn(s, NoSeat)
Steps(s, pc) == GoesOn(s, [desk[s] EXCEPT !.pc = pc])

(* assert_verified_owner has read the claim, once, before anything else;    *)
(* an admin acts for any restaurant, with an owner or without.              *)
BeginOwner(s, op, admin) ==
  /\ desk[s].pc = "none" /\ (admin \/ owned)
  /\ GoesOn(s, [NoSeat EXCEPT !.op = op, !.pc = "look"])
  /\ UNCHANGED <<owned, coverRows, photos, answerRows, imageRows>>

(* The dish is loaded; a clear of a cover that was not there writes nothing. *)
LookAtDish(s) ==
  /\ Sits(s, "cover", "look") \/ Sits(s, "uncover", "look")
  /\ IF desk[s].op = "uncover" /\ cover = "none" THEN Leaves(s) ELSE Steps(s, "write")
  /\ UNCHANGED <<owned, coverRows, photos, answerRows, imageRows>>

WriteCover(s) ==
  /\ Sits(s, "cover", "write") \/ Sits(s, "uncover", "write")
  /\ coverLock = Unlocked
  /\ coverLock' = s /\ Steps(s, "commit")
  /\ UNCHANGED <<owned, cover, photos, answerRows, imageRows>>

(* The script picks, in the snapshot of its statement, the dishes without a *)
(* cover of restaurants without an owner.                                   *)
BeginPromotion(s) ==
  /\ desk[s].pc = "none" /\ reviewThere /\ cover = "none" /\ ~owned
  /\ GoesOn(s, [NoSeat EXCEPT !.op = "promote", !.pc = "write"])
  /\ UNCHANGED <<owned, coverRows, photos, answerRows, imageRows>>

(* Mutant of StillBare: an UPDATE without "AND cover_image_url IS NULL".    *)
StillBareInSnapshot(s) == desk[s].op = "promote"

StillBare(s) == cover = "none"

(* It waits for the row of the dish, tests the newest version of that row   *)
(* again, though not the owner, and commits.                                *)
Promote(s) ==
  /\ Sits(s, "promote", "write") /\ coverLock = Unlocked
  /\ cover' = IF StillBare(s) THEN "fans" ELSE cover
  /\ Leaves(s)
  /\ UNCHANGED <<owned, coverLock, photos, answerRows, imageRows>>

CommitCover(s) ==
  /\ Sits(s, "cover", "commit") \/ Sits(s, "uncover", "commit")
  /\ cover' = IF desk[s].op = "cover" THEN "owner" ELSE "none"
  /\ coverLock' = Unlocked /\ Leaves(s)
  /\ UNCHANGED <<owned, photos, answerRows, imageRows>>

(* Photos are counted, then inserted; one is found, then deleted.           *)
CountPhotos(s) ==
  /\ Sits(s, "add", "look")
  /\ IF Cardinality(photos) >= PhotoCap THEN Leaves(s) ELSE Steps(s, "commit")
  /\ UNCHANGED <<owned, coverRows, photos, answerRows, imageRows>>

FindPhoto(s, p) ==
  /\ Sits(s, "remove", "look")
  /\ IF p \in photos THEN GoesOn(s, [desk[s] EXCEPT !.pc = "commit", !.photo = {p}]) ELSE Leaves(s)
  /\ UNCHANGED <<owned, coverRows, photos, answerRows, imageRows>>

CommitPhoto(s, p) ==
  /\ \/ Sits(s, "add", "commit") /\ p \notin photos /\ photos' = photos \cup {p}
     \/ Sits(s, "remove", "commit") /\ desk[s].photo = {p} /\ photos' = photos \ {p}
  /\ Leaves(s)
  /\ UNCHANGED <<owned, coverRows, answerRows, imageRows>>

(* The answer is looked up; there must be a review, and one to withdraw.    *)
LookAtAnswer(s) ==
  /\ Sits(s, "answer", "look") \/ Sits(s, "withdraw", "look")
  /\ IF ~reviewThere \/ (desk[s].op = "withdraw" /\ ~answer) THEN Leaves(s)
     ELSE GoesOn(s, [desk[s] EXCEPT !.pc = "write", !.saw = answer])
  /\ UNCHANGED <<owned, coverRows, photos, answerRows, imageRows>>

(* It is written when nobody else holds its key.  An answer that came or    *)
(* went since the look fails the request: a duplicate key, or no row.       *)
WriteAnswer(s) ==
  /\ Sits(s, "answer", "write") \/ Sits(s, "withdraw", "write")
  /\ answerLock = Unlocked
  /\ IF reviewThere /\ answer = desk[s].saw
     THEN answerLock' = s /\ Steps(s, "commit")
     ELSE Leaves(s) /\ UNCHANGED answerLock
  /\ UNCHANGED <<owned, coverRows, photos, reviewThere, answer, answerTold, imageRows>>

(* Who is mentioned is told with the first text only.                       *)
FirstText(q) == q.op = "answer" /\ ~q.saw

CommitAnswer(s) ==
  /\ Sits(s, "answer", "commit") \/ Sits(s, "withdraw", "commit")
  /\ answer' = (desk[s].op = "answer")
  /\ answerTold' = IF desk[s].op = "withdraw" THEN 0
                   ELSE IF FirstText(desk[s]) THEN answerTold + 1 ELSE answerTold
  /\ answerLock' = Unlocked /\ Leaves(s)
  /\ UNCHANGED <<owned, coverRows, photos, reviewThere, imageRows>>

(* The author deletes the review, and the answer with it.                   *)
DeleteReview ==
  /\ reviewThere /\ answerLock = Unlocked
  /\ reviewThere' = FALSE /\ answer' = FALSE /\ answerTold' = 0
  /\ UNCHANGED <<owned, coverRows, photos, answerLock, imageRows, desk>>

(* An upload writes a file of a new name, then its row, and is a new image; *)
(* a deletion finds the row, removes the file, then the row.                *)
BeginUpload(s) ==
  /\ ~image /\ \A r \in Seat : desk[r].pc = "none"
  /\ file' = FALSE /\ halved' = FALSE
  /\ GoesOn(s, [NoSeat EXCEPT !.op = "upload", !.pc = "file"])
  /\ UNCHANGED <<owned, coverRows, photos, answerRows, image>>

BeginErase(s) ==
  /\ desk[s].pc = "none" /\ image
  /\ GoesOn(s, [NoSeat EXCEPT !.op = "erase", !.pc = "file"])
  /\ UNCHANGED <<owned, coverRows, photos, answerRows, imageRows>>

TouchFile(s) ==
  /\ desk[s].pc = "file"
  /\ file' = (desk[s].op = "upload")
  /\ Steps(s, "commit")
  /\ UNCHANGED <<owned, coverRows, photos, answerRows, image, halved>>

CommitImage(s) ==
  /\ Sits(s, "upload", "commit") \/ Sits(s, "erase", "commit")
  /\ image' = (desk[s].op = "upload")
  /\ Leaves(s)
  /\ UNCHANGED <<owned, coverRows, photos, answerRows, file, halved>>

(* The connection drops: what is not committed is rolled back, but a file.  *)
CutSeat(s) ==
  /\ desk[s].pc = "commit"
  /\ coverLock' = IF coverLock = s THEN Unlocked ELSE coverLock
  /\ answerLock' = IF answerLock = s THEN Unlocked ELSE answerLock
  /\ halved' = (halved \/ desk[s].op = "erase")
  /\ Leaves(s)
  /\ UNCHANGED <<owned, cover, photos, reviewThere, answer, answerTold, file, image>>

(* A claim is verified or revoked.                                          *)
ChangeOwner ==
  /\ owned' = ~owned
  /\ desk' = [s \in Seat |-> IF desk[s].op = "promote" /\ ~owned
                             THEN [desk[s] EXCEPT !.crossed = TRUE] ELSE desk[s]]
  /\ UNCHANGED <<coverRows, photos, answerRows, imageRows>>

CoverNext ==
  \/ \E s \in Seat :
       \/ \E op \in {"cover", "uncover"}, admin \in BOOLEAN : BeginOwner(s, op, admin)
       \/ LookAtDish(s) \/ WriteCover(s) \/ CommitCover(s)
       \/ BeginPromotion(s) \/ Promote(s) \/ CutSeat(s)
  \/ ChangeOwner

PhotoNext ==
  \/ \E s \in Seat :
       \/ \E op \in {"add", "remove"}, admin \in BOOLEAN : BeginOwner(s, op, admin)
       \/ CountPhotos(s) \/ (\E p \in Photo : FindPhoto(s, p) \/ CommitPhoto(s, p))
       \/ CutSeat(s)
  \/ ChangeOwner

AnswerNext ==
  \/ \E s \in Seat :
       \/ \E op \in {"answer", "withdraw"}, admin \in BOOLEAN : BeginOwner(s, op, admin)
       \/ LookAtAnswer(s) \/ WriteAnswer(s) \/ CommitAnswer(s) \/ CutSeat(s)
  \/ DeleteReview \/ ChangeOwner

ImageNext ==
  \E s \in Seat :
    \/ BeginUpload(s) \/ BeginErase(s)
    \/ TouchFile(s) \/ CommitImage(s) \/ CutSeat(s)

DeskNext == CoverNext \/ PhotoNext \/ AnswerNext \/ ImageNext

DeskSpec == DeskInit /\ [][DeskNext]_deskVars

(***************************************************************************)
(* Properties                                                              *)
(***************************************************************************)
(* The script never takes a cover from an owner, and sets one where there   *)
(* is an owner only if the claim was verified after it had looked.  More    *)
(* than the cap of photos is there only by additions at the same time, one  *)
(* per request.  The mentions of an answer are told at most once.  The row  *)
(* of an image without its file is left only by a deletion that was rolled  *)
(* back.                                                                    *)
DeskHolds ==
  /\ []( /\ Cardinality(photos) <= PhotoCap + Cardinality(Seat) - 1
         /\ answerTold <= 1
         /\ image /\ ~file => halved \/ \E s \in Seat : Sits(s, "erase", "commit"))
  /\ [][cover' = "fans" /\ cover # "fans" =>
          /\ cover = "none"
          /\ owned => \E s \in Seat : Sits(s, "promote", "write") /\ desk[s].crossed]_deskVars
===============================================================================
