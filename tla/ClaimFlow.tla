------------------------------ MODULE ClaimFlow ------------------------------
(***************************************************************************)
(* The ownership of one restaurant: the rows of restaurant_claims about it  *)
(* and restaurants.claimed_by_user_id, which is what every later check of   *)
(* ownership reads (app/services/claim_service.py, app/routers/claims.py,   *)
(* the claim endpoints of app/routers/admin.py, alembic 024).               *)
(*                                                                          *)
(* A decision is one READ COMMITTED transaction.  It loads the claim and,   *)
(* by the selectin relationship, the restaurant; it decides by what it has  *)
(* loaded, without a lock; and it writes restaurant and claim by their      *)
(* primary keys.  Two partial unique indexes stand behind it.               *)
(***************************************************************************)
EXTENDS Naturals, FiniteSets, Sequences, TLC

CONSTANTS
  Client,   \* requests in flight at the same time
  Claim,    \* ids of restaurant_claims
  User,     \* users who claim the restaurant
  Nobody,   \* no user: NULL
  NoClaim   \* a request about no claim

ASSUME ClaimAssumption ==
  Nobody \notin User /\ NoClaim \notin Claim /\ "restaurant" \notin Claim

VARIABLES
  status,    \* status of every claim, "absent" when there is no such row
  claimant,  \* claimant_user_id of every claim
  token,     \* the claims whose verification_payload has an email_token_hash
  owner,     \* claimed_by_user_id of the restaurant
  req,       \* the request of every client
  raced      \* history: a decision was made on what another had changed

vars == <<status, claimant, token, owner, req, raced>>
rows == <<status, claimant, token, owner, raced>>

(* "verifying" is open too, but no code assigns it.                         *)
Status == {"absent", "pending", "verified", "rejected", "revoked"}
Op == {"none", "create", "approve", "click", "reject", "revoke"}
PC == {"idle", "insert", "look", "token", "owner", "status", "commit"}

(* A request: its claim and the status it saw, the owner it saw, the owner  *)
(* and the status it wrote; and whether what it saw was changed since.      *)
Idle == [op |-> "none", pc |-> "idle", claim |-> NoClaim, user |-> Nobody,
         email |-> FALSE, saw |-> "absent", sawOwner |-> Nobody,
         locks |-> {}, owner |-> <<>>, status |-> <<>>, stale |-> FALSE]

Request ==
  [op : Op, pc : PC, claim : Claim \cup {NoClaim}, user : User \cup {Nobody},
   email : BOOLEAN, saw : Status, sawOwner : User \cup {Nobody},
   locks : SUBSET (Claim \cup {"restaurant"}),
   owner : {<<>>} \cup {<<u>> : u \in User \cup {Nobody}},
   status : {<<>>} \cup {<<s>> : s \in Status}, stale : BOOLEAN]

ClaimTypeOK ==
  /\ status \in [Claim -> Status]
  /\ claimant \in [Claim -> User \cup {Nobody}]
  /\ token \subseteq Claim
  /\ owner \in User \cup {Nobody}
  /\ req \in [Client -> Request]
  /\ raced \in BOOLEAN

Init ==
  /\ status = [c \in Claim |-> "absent"]
  /\ claimant = [c \in Claim |-> Nobody]
  /\ token = {}
  /\ owner = Nobody
  /\ req = [r \in Client |-> Idle]
  /\ raced = FALSE

------------------------------------------------------------------------------
Others(r) == Client \ {r}

Verified == {c \in Claim : status[c] = "verified"}
OpenOf(u) == {c \in Claim : status[c] = "pending" /\ claimant[c] = u}

(* Mutant of VerifiedAdmits: there is no index uq_restaurant_claims_verified. *)
VerifiedAdmitsAlways(c) == TRUE

(* uq_restaurant_claims_verified lets claim c become verified.              *)
VerifiedAdmits(c) == Verified \subseteq {c}

(* Mutant of OpenAdmits: there is no index uq_restaurant_claims_open_per_user. *)
OpenAdmitsAlways(u) == TRUE

(* uq_restaurant_claims_open_per_user lets user u open a claim.             *)
OpenAdmits(u) == OpenOf(u) = {}

(* Whom the next statement of r waits for: the holders of a row lock, or of *)
(* an uncommitted entry of a unique index.                                  *)
WaitsFor(r) ==
  LET q == req[r] IN
  CASE q.pc = "insert" ->
         {e \in Others(r) : req[e].op = "create" /\ req[e].pc = "commit"
                              /\ req[e].user = q.user}
    [] q.pc = "owner" -> {e \in Others(r) : "restaurant" \in req[e].locks}
    [] q.pc = "token" -> {e \in Others(r) : q.claim \in req[e].locks}
    [] q.pc = "status" ->
         {e \in Others(r) :
            \/ q.claim \in req[e].locks
            \/ /\ q.op \in {"approve", "click"}
               /\ req[e].status = <<"verified">>}
    [] OTHER -> {}

At(r, pc) == req[r].pc = pc /\ WaitsFor(r) = {}

Becomes(r, q) == req' = [req EXCEPT ![r] = q] /\ UNCHANGED rows

------------------------------------------------------------------------------
(* create_claim.  It has seen neither an open claim of the user nor an      *)
(* owner; email says that the method is domain_email.                       *)
BeginCreate(r, c, u, email) ==
  /\ req[r] = Idle
  /\ status[c] = "absent" /\ \A e \in Client : req[e].claim # c
  /\ OpenOf(u) = {} /\ owner = Nobody
  /\ Becomes(r, [Idle EXCEPT !.op = "create", !.pc = "insert", !.claim = c,
                             !.user = u, !.email = email])

(* The insert; on a conflict it raises, and only Abort is left.             *)
Insert(r) ==
  /\ At(r, "insert")
  /\ OpenAdmits(req[r].user)
  /\ Becomes(r, [req[r] EXCEPT !.pc = "commit"])

------------------------------------------------------------------------------
(* The decisions: approve, reject and revoke of an admin, and the click on  *)
(* the link of the mail, which finds the claim by the hash of its token.    *)
(* The refusals that follow from the status alone, and the approval of a    *)
(* verified claim, which changes nothing, are left out.                     *)
Begin(r, op, c) ==
  /\ req[r] = Idle
  /\ Becomes(r, [Idle EXCEPT !.op = op, !.pc = "look", !.claim = c,
                             !.saw = status[c]])

BeginApprove(r, c) == status[c] = "pending" /\ Begin(r, "approve", c)
BeginReject(r, c) == status[c] = "pending" /\ Begin(r, "reject", c)

(* Mutant of BeginRevoke: an open claim can be revoked too.                 *)
BeginRevokeOpen(r, c) == status[c] \in {"pending", "verified"} /\ Begin(r, "revoke", c)

BeginRevoke(r, c) == status[c] = "verified" /\ Begin(r, "revoke", c)

BeginClick(r, c) ==
  /\ c \in token
  /\ status[c] \in {"pending", "verified"}
  /\ Begin(r, "click", c)

(* Mutant of Look: every approval writes its claim first.                   *)
LookClaimFirst(r) ==
  LET q == req[r]
      mine == owner = claimant[q.claim] IN
  /\ At(r, "look")
  /\ q.op = "approve" => owner = Nobody \/ mine
  /\ Becomes(r, [q EXCEPT
       !.sawOwner = owner,
       !.pc = CASE q.op \in {"click", "approve"} -> "token"
                [] q.op = "reject" \/ (q.op = "revoke" /\ ~mine) -> "status"
                [] OTHER -> "owner"])

(* The relationship loads the restaurant; an approval that finds another    *)
(* owner raises.  A click writes its claim before it gets to that, and a    *)
(* revocation clears the owner only if it is the claimant.                  *)
Look(r) ==
  LET q == req[r]
      mine == owner = claimant[q.claim] IN
  /\ At(r, "look")
  /\ q.op = "approve" => owner = Nobody \/ mine
  /\ Becomes(r, [q EXCEPT
       !.sawOwner = owner,
       !.pc = CASE q.op = "click" -> "token"
                [] q.op = "reject" \/ (q.op = "revoke" /\ ~mine) -> "status"
                [] OTHER -> "owner"])

(* verify_email_token takes the hash out of the payload, and approves       *)
(* unless the claim was verified already.                                   *)
RotateToken(r) ==
  LET q == req[r] IN
  /\ At(r, "token")
  /\ q.saw = "verified" \/ q.sawOwner \in {Nobody, claimant[q.claim]}
  /\ Becomes(r, [q EXCEPT !.locks = @ \cup {q.claim},
                          !.pc = IF q.saw = "verified" THEN "commit" ELSE "owner"])

(* The UPDATE of the restaurant, which contains claimed_by_user_id only if  *)
(* it differs from the owner that was loaded.                               *)
WriteOwner(r) ==
  LET q == req[r]
      new == IF q.op = "revoke" THEN Nobody ELSE claimant[q.claim] IN
  /\ At(r, "owner")
  /\ Becomes(r, [q EXCEPT !.locks = @ \cup {"restaurant"},
                          !.owner = IF new = q.sawOwner THEN <<>> ELSE <<new>>,
                          !.pc = "status"])

(* Mutant of Outcome: the action takes the place of the status.             *)
OutcomeIsAction(op) == op

(* The status a decision leaves.                                            *)
Outcome(op) ==
  CASE op \in {"approve", "click"} -> "verified"
    [] op = "reject" -> "rejected"
    [] OTHER -> "revoked"

(* The UPDATE of the claim; a second verified claim raises.                 *)
WriteStatus(r) ==
  LET q == req[r] IN
  /\ At(r, "status")
  /\ Outcome(q.op) = "verified" => VerifiedAdmits(q.claim)
  /\ Becomes(r, [q EXCEPT !.locks = @ \cup {q.claim},
                          !.status = <<Outcome(q.op)>>,
                          !.pc = "commit"])

(* get_db commits.  Whoever has loaded a status, or an owner who is not     *)
(* NULL, that changes here will decide by a stale one.                      *)
Commit(r) ==
  LET q == req[r]
      c == q.claim
      s == IF q.op = "create" THEN "pending"
           ELSE IF q.status = <<>> THEN status[c] ELSE Head(q.status)
      o == IF q.owner = <<>> THEN owner ELSE Head(q.owner)
      Outdated(e) == \/ req[e].claim = c /\ s # status[c]
                     \/ req[e].sawOwner # Nobody /\ o # owner IN
  /\ q.pc = "commit"
  /\ status' = [status EXCEPT ![c] = s]
  /\ claimant' = [claimant EXCEPT ![c] = IF q.op = "create" THEN q.user ELSE @]
  /\ token' = CASE q.op = "create" /\ q.email -> token \cup {c}
                [] q.op = "click" -> token \ {c}
                [] OTHER -> token
  /\ owner' = o
  /\ raced' = (raced \/ (q.stale /\ q.status # <<>>))
  /\ req' = [e \in Client |->
               IF e = r \/ req[e] = Idle THEN Idle
               ELSE [req[e] EXCEPT !.stale = @ \/ (req[e].op # "create" /\ Outdated(e))]]

(* The request raises, or is the victim of a deadlock: get_db rolls back.   *)
Abort(r) ==
  /\ req[r] # Idle
  /\ req' = [req EXCEPT ![r] = Idle]
  /\ UNCHANGED rows

Next ==
  \E r \in Client :
    \/ \E c \in Claim, u \in User, email \in BOOLEAN : BeginCreate(r, c, u, email)
    \/ \E c \in Claim :
         BeginApprove(r, c) \/ BeginReject(r, c) \/ BeginRevoke(r, c) \/ BeginClick(r, c)
    \/ Insert(r) \/ Look(r) \/ RotateToken(r) \/ WriteOwner(r) \/ WriteStatus(r)
    \/ Commit(r)
    \/ Abort(r)

Spec == Init /\ [][Next]_vars

------------------------------------------------------------------------------
(* The two indexes: one verified claim for the restaurant, one open claim   *)
(* per user, however many requests passed the checks of the code.           *)
UniqueClaims ==
  /\ \A c, d \in Verified : c = d
  /\ \A c, d \in Claim :
       status[c] = "pending" /\ status[d] = "pending" /\ claimant[c] = claimant[d] => c = d

(* The owner is the claimant of the verified claim, and there is no owner   *)
(* without one, unless a decision was made by a status that another had     *)
(* changed since it looked, or by an owner that another had removed.  In    *)
(* particular two approvals that both saw no owner leave the columns in     *)
(* agreement: the second has overwritten the owner by the time the index    *)
(* stops it, and that is rolled back.                                       *)
OwnerHasClaim ==
  ~raced => {owner} \ {Nobody} = {claimant[c] : c \in Verified}

(* Requests wait for each other in a circle only if one of them is a click, *)
(* which writes its claim before the restaurant; everybody else does it the *)
(* other way round.                                                         *)
DeadlockNeedsClick ==
  \A S \in SUBSET Client :
    S # {} /\ (\A r \in S : req[r] # Idle /\ WaitsFor(r) \cap S # {}) =>
      \E r \in S : req[r].op = "click"

=============================================================================
