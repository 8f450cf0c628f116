---------------------------- MODULE ClaimFlowProofs ----------------------------
(***************************************************************************)
(* ClaimFlow, for any number of requests, claims and users.  The types; the *)
(* partial unique indexes keep what they promise although no request looks  *)
(* at them before it writes; as long as no decision was made on what        *)
(* another had changed, the owner of the restaurant is the claimant of its  *)
(* verified claim; and decisions never deadlock without a click.            *)
(***************************************************************************)
EXTENDS ClaimFlow, TLAPS

Decision == {"approve", "click", "reject", "revoke"}

(* r makes, or will make, its claim the verified one.                       *)
Verifies(r) ==
  req[r].op = "approve" \/ (req[r].op = "click" /\ req[r].saw = "pending")

(* A request that has written an index entry and not yet committed it.      *)
Opening(r) == req[r].op = "create" /\ req[r].pc = "commit"
Verifying(r) == req[r].status = <<"verified">>

(* Uncommitted entries differ from each other and from the committed ones.  *)
EntriesApart ==
  /\ \A r, e \in Client :
       Opening(r) /\ Opening(e) /\ req[r].user = req[e].user => r = e
  /\ \A r \in Client : Opening(r) => OpenOf(req[r].user) = {}
  /\ \A r, e \in Client : Verifying(r) /\ Verifying(e) => r = e
  /\ \A r \in Client : Verifying(r) => Verified \subseteq {req[r].claim}

(* What a request may have seen and written, by what it is and where it is. *)
Shape ==
  \A r \in Client :
    /\ req[r].op = "none" => req[r].pc = "idle"
    /\ req[r].op = "create" =>
         /\ req[r].claim \in Claim /\ req[r].user \in User
         /\ req[r].status = <<>> /\ req[r].owner = <<>>
         /\ req[r].pc \in {"insert", "commit"}
    /\ req[r].op \in Decision =>
         /\ req[r].claim \in Claim
         /\ req[r].pc \in {"look", "token", "owner", "status", "commit"}
         /\ req[r].status = IF req[r].pc = "commit"
                               /\ ~(req[r].op = "click" /\ req[r].saw = "verified")
                            THEN <<Outcome(req[r].op)>> ELSE <<>>
         /\ req[r].op \in {"approve", "reject"} => req[r].saw = "pending"
         /\ req[r].op = "revoke" => req[r].saw = "verified"
         /\ req[r].op = "click" => req[r].saw \in {"pending", "verified"}
         /\ req[r].pc \in {"look", "token", "owner"} => req[r].owner = <<>>
         /\ req[r].pc = "look" => req[r].sawOwner = Nobody
         /\ req[r].pc = "token" => req[r].op = "click"
         /\ req[r].pc = "owner" => req[r].op # "reject"
         /\ req[r].pc \in {"owner", "status"} =>
              ~(req[r].op = "click" /\ req[r].saw = "verified")

(* The row of a claim: a row that exists has a claimant; a row that is      *)
(* being inserted is nobody else's business; a decision is about a row that *)
(* exists.                                                                  *)
RowsKnown ==
  /\ \A c \in Claim : status[c] # "absent" => claimant[c] \in User
  /\ \A r \in Client :
       req[r].op = "create" =>
         /\ status[req[r].claim] = "absent"
         /\ \A e \in Others(r) : req[e].claim # req[r].claim
  /\ \A r \in Client : req[r].op \in Decision => status[req[r].claim] # "absent"

(* What a request that is not stale knows is so.                            *)
SeenIsSo ==
  \A r \in Client :
    req[r].op \in Decision /\ ~req[r].stale =>
      /\ status[req[r].claim] = req[r].saw
      /\ req[r].sawOwner # Nobody => owner = req[r].sawOwner

(* The owner a decision writes.                                             *)
WrittenOwner ==
  \A r \in Client :
    LET u == claimant[req[r].claim] IN
    /\ Verifies(r) /\ req[r].pc \in {"owner", "status", "commit"} =>
         req[r].sawOwner \in {Nobody, u}
    /\ Verifies(r) /\ req[r].pc \in {"status", "commit"} =>
         req[r].owner = IF req[r].sawOwner = u THEN <<>> ELSE <<u>>
    /\ req[r].op = "reject" \/ (req[r].op = "click" /\ req[r].saw = "verified") =>
         req[r].owner = <<>>
    /\ req[r].op = "revoke" /\ ~raced /\ ~req[r].stale =>
         /\ req[r].pc # "look" => req[r].sawOwner = u
         /\ req[r].pc \in {"status", "commit"} => req[r].owner = <<Nobody>>

ClaimInv ==
  /\ ClaimTypeOK /\ Shape /\ RowsKnown
  /\ EntriesApart /\ UniqueClaims
  /\ SeenIsSo /\ WrittenOwner /\ OwnerHasClaim

------------------------------------------------------------------------------
LEMMA OutcomeKind ==
  \A op \in Decision :
    /\ Outcome(op) \in {"verified", "rejected", "revoked"}
    /\ Outcome(op) = "verified" <=> op \in {"approve", "click"}
  BY DEF Decision, Outcome

LEMMA InitEstablishes == Init => ClaimInv
  <1> SUFFICES ASSUME Init PROVE ClaimInv
    OBVIOUS
  <1>1. ClaimTypeOK
    BY DEF Init, ClaimTypeOK, Request, Idle, Status, Op, PC
  <1>2. Verified = {} /\ \A r \in Client : req[r] = Idle
    BY DEF Init, Verified
  <1>3. Shape /\ RowsKnown
    BY <1>2 DEF Init, Idle, Shape, RowsKnown, Decision
  <1>4. EntriesApart /\ UniqueClaims
    BY <1>2 DEF Init, Idle, EntriesApart, Opening, Verifying, UniqueClaims
  <1>5. SeenIsSo /\ WrittenOwner /\ OwnerHasClaim
    BY <1>2 DEF Init, Idle, SeenIsSo, WrittenOwner, Verifies, OwnerHasClaim, Decision
  <1> QED
    BY <1>1, <1>3, <1>4, <1>5 DEF ClaimInv

(* A step of r that touches no row disturbs no index and no agreement       *)
(* between owner and claim; what is left to prove of it is about r.         *)
LEMMA BecomesKeeps ==
  ASSUME ClaimInv, NEW r \in Client, NEW q \in Request, Becomes(r, q),
         Shape', RowsKnown', EntriesApart', SeenIsSo', WrittenOwner'
  PROVE  ClaimInv'
  <1>1. ClaimTypeOK'
    BY DEF ClaimInv, ClaimTypeOK, Becomes, rows
  <1>2. UniqueClaims' /\ OwnerHasClaim'
    BY DEF ClaimInv, UniqueClaims, OwnerHasClaim, Becomes, rows, Verified
  <1> QED
    BY <1>1, <1>2 DEF ClaimInv

LEMMA CreateKeeps ==
  ASSUME ClaimInv, NEW r \in Client, NEW c \in Claim, NEW u \in User,
         NEW email \in BOOLEAN, BeginCreate(r, c, u, email)
  PROVE  ClaimInv'
  <1> DEFINE q == [Idle EXCEPT !.op = "create", !.pc = "insert", !.claim = c,
                               !.user = u, !.email = email]
  <1>1. q \in Request
    BY DEF Idle, Request, Op, PC, Status
  <1>2. Becomes(r, q) /\ status[c] = "absent" /\ \A e \in Client : req[e].claim # c
    BY DEF BeginCreate
  <1>3. req' = [req EXCEPT ![r] = q] /\ UNCHANGED rows
    BY <1>2 DEF Becomes
  <1>4. /\ q.op = "create" /\ q.pc = "insert" /\ q.claim = c /\ q.user = u
        /\ q.status = <<>> /\ q.owner = <<>>
    BY DEF Idle
  <1> HIDE DEF q
  <1>5. Shape'
    BY <1>3, <1>4 DEF ClaimInv, ClaimTypeOK, Shape, Decision
  <1>6. RowsKnown'
    BY <1>2, <1>3, <1>4 DEF ClaimInv, ClaimTypeOK, RowsKnown, Decision, Others, rows
  <1>7. EntriesApart'
    BY <1>3, <1>4
       DEF ClaimInv, ClaimTypeOK, EntriesApart, Opening, Verifying, OpenOf, Verified, rows
  <1>8. SeenIsSo'
    BY <1>3, <1>4 DEF ClaimInv, ClaimTypeOK, SeenIsSo, Decision, rows
  <1>9. WrittenOwner'
    BY <1>3, <1>4 DEF ClaimInv, ClaimTypeOK, WrittenOwner, Verifies, rows
  <1> QED
    BY <1>1, <1>2, <1>5, <1>6, <1>7, <1>8, <1>9, BecomesKeeps
LEMMA InsertKeeps ==
  ASSUME ClaimInv, NEW r \in Client, Insert(r)
  PROVE  ClaimInv'
  <1> DEFINE q == [req[r] EXCEPT !.pc = "commit"]
  <1>1. req[r] \in Request /\ q \in Request
    BY DEF ClaimInv, ClaimTypeOK, Request, PC
  <1>2. /\ Becomes(r, q) /\ req[r].pc = "insert"
        /\ WaitsFor(r) = {} /\ OpenOf(req[r].user) = {}
    BY DEF Insert, At, OpenAdmits
  <1>3. req' = [req EXCEPT ![r] = q] /\ UNCHANGED rows
    BY <1>2 DEF Becomes
  <1>4. req[r].op = "create" /\ req[r].status = <<>>
    <2>1. req[r].op \in Op
      BY <1>1 DEF Request
    <2> QED
      BY <1>2, <2>1 DEF ClaimInv, Shape, Op, Decision
  <1>5. /\ q.op = req[r].op /\ q.pc = "commit" /\ q.claim = req[r].claim
        /\ q.user = req[r].user /\ q.status = req[r].status /\ q.owner = req[r].owner
        /\ q.saw = req[r].saw
    BY <1>1 DEF Request
  <1>6. \A e \in Others(r) :
          ~(req[e].op = "create" /\ req[e].pc = "commit" /\ req[e].user = req[r].user)
    BY <1>2 DEF WaitsFor
  <1> HIDE DEF q
  <1>7. Shape'
    BY <1>3, <1>4, <1>5 DEF ClaimInv, ClaimTypeOK, Shape, Decision
  <1>8. RowsKnown'
    BY <1>3, <1>4, <1>5 DEF ClaimInv, ClaimTypeOK, RowsKnown, Decision, Others, rows
  <1>9. EntriesApart'
    <2>1. \A e \in Client :
            req'[e].status = req[e].status /\ req'[e].claim = req[e].claim
            /\ req'[e].user = req[e].user
      BY <1>3, <1>5 DEF ClaimInv, ClaimTypeOK
    <2>2. \A e \in Others(r) : Opening(e)' <=> Opening(e)
      BY <1>3 DEF ClaimInv, ClaimTypeOK, Opening, Others
    <2>3. \A e \in Client : Verifying(e)' <=> Verifying(e)
      BY <2>1 DEF Verifying
    <2>4. Verified' = Verified /\ \A u : OpenOf(u)' = OpenOf(u)
      BY <1>3 DEF rows, Verified, OpenOf
    <2>5. \A d, e \in Client :
            (Opening(d) /\ Opening(e) /\ req[d].user = req[e].user)' => d = e
      BY <1>6, <2>1, <2>2 DEF ClaimInv, EntriesApart, Opening, Others
    <2>6. \A e \in Client : (Opening(e) => OpenOf(req[e].user) = {})'
      BY <1>2, <2>1, <2>2, <2>4 DEF ClaimInv, EntriesApart, Others
    <2>7. \A d, e \in Client : (Verifying(d) /\ Verifying(e))' => d = e
      BY <2>3 DEF ClaimInv, EntriesApart
    <2>8. \A e \in Client : (Verifying(e) => Verified \subseteq {req[e].claim})'
      BY <2>1, <2>3, <2>4 DEF ClaimInv, EntriesApart
    <2> QED
      BY <2>5, <2>6, <2>7, <2>8 DEF EntriesApart
  <1>10. SeenIsSo'
    BY <1>3, <1>4, <1>5 DEF ClaimInv, ClaimTypeOK, SeenIsSo, Decision, rows
  <1>11. WrittenOwner'
    BY <1>3, <1>4, <1>5 DEF ClaimInv, ClaimTypeOK, WrittenOwner, Verifies, rows
  <1> QED
    BY <1>1, <1>2, <1>7, <1>8, <1>9, <1>10, <1>11, BecomesKeeps

LEMMA BeginKeeps ==
  ASSUME ClaimInv, NEW r \in Client, NEW c \in Claim, NEW op \in Decision,
         Begin(r, op, c),
         op \in {"approve", "reject"} => status[c] = "pending",
         op = "revoke" => status[c] = "verified",
         op = "click" => status[c] \in {"pending", "verified"}
  PROVE  ClaimInv'
  <1> DEFINE q == [Idle EXCEPT !.op = op, !.pc = "look", !.claim = c, !.saw = status[c]]
  <1>1. q \in Request
    BY DEF Idle, Request, Op, PC, Status, Decision, ClaimInv, ClaimTypeOK
  <1>2. Becomes(r, q)
    BY DEF Begin
  <1>3. req' = [req EXCEPT ![r] = q] /\ UNCHANGED rows
    BY <1>2 DEF Becomes
  <1>4. /\ q.op = op /\ q.pc = "look" /\ q.claim = c /\ q.saw = status[c]
        /\ q.status = <<>> /\ q.owner = <<>> /\ q.sawOwner = Nobody
    BY DEF Idle
  <1>5. status[c] # "absent"
    BY DEF Decision
  <1> HIDE DEF q
  <1>6. Shape'
    BY <1>3, <1>4 DEF ClaimInv, ClaimTypeOK, Shape, Decision
  <1>7. RowsKnown'
    BY <1>3, <1>4, <1>5 DEF ClaimInv, ClaimTypeOK, RowsKnown, Decision, Others, rows
  <1>8. EntriesApart'
    BY <1>3, <1>4
       DEF ClaimInv, ClaimTypeOK, EntriesApart, Opening, Verifying, OpenOf, Verified, rows
  <1>9. SeenIsSo'
    BY <1>3, <1>4 DEF ClaimInv, ClaimTypeOK, SeenIsSo, Decision, rows
  <1>10. WrittenOwner'
    BY <1>3, <1>4 DEF ClaimInv, ClaimTypeOK, WrittenOwner, Verifies, rows
  <1> QED
    BY <1>1, <1>2, <1>6, <1>7, <1>8, <1>9, <1>10, BecomesKeeps

LEMMA LookKeeps ==
  ASSUME ClaimInv, NEW r \in Client, Look(r)
  PROVE  ClaimInv'
  <1> DEFINE mine == owner = claimant[req[r].claim]
             pc == CASE req[r].op = "click" -> "token"
                     [] req[r].op = "reject" \/ (req[r].op = "revoke" /\ ~mine) -> "status"
                     [] OTHER -> "owner"
             q == [req[r] EXCEPT !.sawOwner = owner, !.pc = pc]
  <1>1. req[r] \in Request /\ owner \in User \cup {Nobody} /\ pc \in PC
    BY DEF ClaimInv, ClaimTypeOK, PC
  <1>2. q \in Request
    BY <1>1 DEF Request
  <1>3. /\ Becomes(r, q) /\ req[r].pc = "look"
        /\ req[r].op = "approve" => owner = Nobody \/ mine
    BY DEF Look, At
  <1>4. req' = [req EXCEPT ![r] = q] /\ UNCHANGED rows
    BY <1>3 DEF Becomes
  <1>5. req[r].op \in Decision
    <2>1. req[r].op \in Op
      BY <1>1 DEF Request
    <2> QED
      BY <1>3, <2>1 DEF ClaimInv, Shape, Op, Decision
  <1>6. /\ q.op = req[r].op /\ q.pc = pc /\ q.claim = req[r].claim
        /\ q.saw = req[r].saw /\ q.sawOwner = owner /\ q.stale = req[r].stale
        /\ q.user = req[r].user /\ q.status = req[r].status /\ q.owner = req[r].owner
    BY <1>1 DEF Request
  <1>7. /\ pc = "token" <=> req[r].op = "click"
        /\ pc = "status" <=> req[r].op = "reject" \/ (req[r].op = "revoke" /\ ~mine)
        /\ pc \in {"token", "status", "owner"}
    BY DEF Decision
  <1>8. req[r].status = <<>> /\ req[r].owner = <<>>
    BY <1>3, <1>5 DEF ClaimInv, Shape
  (* A revocation that is not stale finds its claimant in the column.       *)
  <1>9. req[r].op = "revoke" /\ ~raced /\ ~req[r].stale => mine
    <2> SUFFICES ASSUME req[r].op = "revoke", ~raced, ~req[r].stale PROVE mine
      OBVIOUS
    <2>1. req[r].claim \in Claim /\ status[req[r].claim] = "verified"
      BY <1>5 DEF ClaimInv, Shape, SeenIsSo
    <2>2. claimant[req[r].claim] \in {owner} \ {Nobody}
      BY <2>1 DEF ClaimInv, OwnerHasClaim, Verified
    <2> QED
      BY <2>2
  <1> HIDE DEF q, pc
  <1>10. Shape'
    BY <1>3, <1>4, <1>5, <1>6, <1>7, <1>8 DEF ClaimInv, ClaimTypeOK, Shape, Decision
  <1>11. RowsKnown'
    BY <1>4, <1>6 DEF ClaimInv, ClaimTypeOK, RowsKnown, Decision, Others, rows
  <1>12. EntriesApart'
    BY <1>4, <1>5, <1>6
       DEF ClaimInv, ClaimTypeOK, EntriesApart, Opening, Verifying, OpenOf, Verified, rows,
           Decision
  <1>13. SeenIsSo'
    BY <1>4, <1>6 DEF ClaimInv, ClaimTypeOK, SeenIsSo, Decision, rows
  <1>14. WrittenOwner'
    <2>1. UNCHANGED <<claimant, raced>>
      BY <1>4 DEF rows
    <2>2. ASSUME NEW e \in Client, e # r
          PROVE  req'[e] = req[e]
      BY <1>4, <2>2 DEF ClaimInv, ClaimTypeOK
    <2>3. req'[r] = q
      BY <1>4 DEF ClaimInv, ClaimTypeOK
    <2>4. Verifies(r)' => (req[r].op \in {"approve", "click"} /\ Verifies(r))
      BY <1>6, <2>3 DEF Verifies
    <2>5. Verifies(r) /\ q.pc \in {"owner", "status", "commit"} =>
            owner \in {Nobody, claimant[req[r].claim]}
      BY <1>3, <1>6, <1>7 DEF Verifies
    <2> QED
      BY <1>6, <1>7, <1>8, <1>9, <2>1, <2>2, <2>3, <2>4, <2>5
         DEF ClaimInv, WrittenOwner, Verifies
  <1> QED
    BY <1>2, <1>3, <1>10, <1>11, <1>12, <1>13, <1>14, BecomesKeeps
LEMMA RotateTokenKeeps ==
  ASSUME ClaimInv, NEW r \in Client, RotateToken(r)
  PROVE  ClaimInv'
  <1> DEFINE pc == IF req[r].saw = "verified" THEN "commit" ELSE "owner"
             q == [req[r] EXCEPT !.locks = @ \cup {req[r].claim}, !.pc = pc]
  <1>1. /\ Becomes(r, q) /\ req[r].pc = "token"
        /\ req[r].saw = "verified" \/ req[r].sawOwner \in {Nobody, claimant[req[r].claim]}
    BY DEF RotateToken, At
  <1>2. req[r] \in Request
    BY DEF ClaimInv, ClaimTypeOK
  <1>3. req[r].op = "click" /\ req[r].claim \in Claim
    <2>1. req[r].op \in Op
      BY <1>2 DEF Request
    <2> QED
      BY <1>1, <2>1 DEF ClaimInv, Shape, Op, Decision
  <1>4. q \in Request
    BY <1>2, <1>3 DEF Request, PC
  <1>5. req' = [req EXCEPT ![r] = q] /\ UNCHANGED rows
    BY <1>1 DEF Becomes
  <1>6. /\ q.op = req[r].op /\ q.pc = pc /\ q.claim = req[r].claim
        /\ q.saw = req[r].saw /\ q.sawOwner = req[r].sawOwner /\ q.stale = req[r].stale
        /\ q.user = req[r].user /\ q.status = req[r].status /\ q.owner = req[r].owner
    BY <1>2 DEF Request
  <1>7. req[r].status = <<>> /\ req[r].owner = <<>>
    BY <1>1, <1>3 DEF ClaimInv, Shape, Decision
  <1> HIDE DEF q
  <1>8. Shape'
    BY <1>3, <1>5, <1>6, <1>7 DEF ClaimInv, ClaimTypeOK, Shape, Decision
  <1>9. RowsKnown'
    BY <1>5, <1>6 DEF ClaimInv, ClaimTypeOK, RowsKnown, Decision, Others, rows
  <1>10. EntriesApart'
    BY <1>3, <1>5, <1>6
       DEF ClaimInv, ClaimTypeOK, EntriesApart, Opening, Verifying, OpenOf, Verified, rows
  <1>11. SeenIsSo'
    BY <1>5, <1>6 DEF ClaimInv, ClaimTypeOK, SeenIsSo, Decision, rows
  <1>12. WrittenOwner'
    BY <1>1, <1>3, <1>5, <1>6, <1>7
       DEF ClaimInv, ClaimTypeOK, WrittenOwner, Verifies, rows
  <1> QED
    BY <1>1, <1>4, <1>8, <1>9, <1>10, <1>11, <1>12, BecomesKeeps

LEMMA WriteOwnerKeeps ==
  ASSUME ClaimInv, NEW r \in Client, WriteOwner(r)
  PROVE  ClaimInv'
  <1> DEFINE new == IF req[r].op = "revoke" THEN Nobody ELSE claimant[req[r].claim]
             written == IF new = req[r].sawOwner THEN <<>> ELSE <<new>>
             q == [req[r] EXCEPT !.locks = @ \cup {"restaurant"},
                                 !.owner = written, !.pc = "status"]
  <1>1. Becomes(r, q) /\ req[r].pc = "owner"
    BY DEF WriteOwner, At
  <1>2. req[r] \in Request
    BY DEF ClaimInv, ClaimTypeOK
  <1>3. req[r].op \in Decision /\ req[r].claim \in Claim
    <2>1. req[r].op \in Op
      BY <1>2 DEF Request
    <2> QED
      BY <1>1, <2>1 DEF ClaimInv, Shape, Op, Decision
  <1>4. new \in User \cup {Nobody}
    BY <1>3 DEF ClaimInv, ClaimTypeOK
  <1>5. written \in {<<>>} \cup {<<u>> : u \in User \cup {Nobody}}
    BY <1>4
  <1>6. q \in Request
    <2> HIDE DEF written
    <2>1. /\ req[r].locks \cup {"restaurant"} \in SUBSET (Claim \cup {"restaurant"})
          /\ "status" \in PC
      BY <1>2 DEF Request, PC
    <2> QED
      BY <1>2, <1>5, <2>1 DEF Request
  <1>7. req' = [req EXCEPT ![r] = q] /\ UNCHANGED rows
    BY <1>1 DEF Becomes
  <1>8. /\ q.op = req[r].op /\ q.pc = "status" /\ q.claim = req[r].claim
        /\ q.saw = req[r].saw /\ q.sawOwner = req[r].sawOwner /\ q.stale = req[r].stale
        /\ q.user = req[r].user /\ q.status = req[r].status /\ q.owner = written
    BY <1>2 DEF Request
  <1>9. req[r].status = <<>> /\ claimant[req[r].claim] \in User
    BY <1>1, <1>3 DEF ClaimInv, Shape, RowsKnown
  <1> HIDE DEF q, written
  <1>10. Shape'
    BY <1>3, <1>7, <1>8, <1>9, <1>1 DEF ClaimInv, ClaimTypeOK, Shape, Decision
  <1>11. RowsKnown'
    BY <1>7, <1>8 DEF ClaimInv, ClaimTypeOK, RowsKnown, Decision, Others, rows
  <1>12. EntriesApart'
    BY <1>3, <1>7, <1>8
       DEF ClaimInv, ClaimTypeOK, EntriesApart, Opening, Verifying, OpenOf, Verified, rows,
           Decision
  <1>13. SeenIsSo'
    BY <1>7, <1>8 DEF ClaimInv, ClaimTypeOK, SeenIsSo, Decision, rows
  <1>14. WrittenOwner'
    <2>1. UNCHANGED <<claimant, raced>>
      BY <1>7 DEF rows
    <2>2. ASSUME NEW e \in Client, e # r
          PROVE  req'[e] = req[e]
      BY <1>7, <2>2 DEF ClaimInv, ClaimTypeOK
    <2>3. req'[r] = q
      BY <1>7 DEF ClaimInv, ClaimTypeOK
    <2>4. Verifies(r)' <=> Verifies(r)
      BY <1>8, <2>3 DEF Verifies
    (* A request that writes the owner is no rejection and no click on a    *)
    (* verified claim.                                                      *)
    <2>5. written = IF req[r].op = "revoke"
                    THEN IF Nobody = req[r].sawOwner THEN <<>> ELSE <<Nobody>>
                    ELSE IF claimant[req[r].claim] = req[r].sawOwner
                         THEN <<>> ELSE <<claimant[req[r].claim]>>
      BY DEF written
    <2>6. req[r].op # "reject" /\ ~(req[r].op = "click" /\ req[r].saw = "verified")
      BY <1>1, <1>3 DEF ClaimInv, Shape
    <2>7. Nobody \notin User
      BY ClaimAssumption
    <2>8. req[r].op = "revoke" /\ ~raced /\ ~req[r].stale => written = <<Nobody>>
      BY <1>1, <1>9, <2>5, <2>7 DEF ClaimInv, WrittenOwner
    <2>9. Verifies(r) => req[r].op # "revoke"
      BY DEF Verifies
    <2>10. ASSUME NEW e \in Client
           PROVE  LET u == claimant[req[e].claim] IN
                  /\ Verifies(e)' /\ req'[e].pc \in {"owner", "status", "commit"} =>
                       req'[e].sawOwner \in {Nobody, u}
                  /\ Verifies(e)' /\ req'[e].pc \in {"status", "commit"} =>
                       req'[e].owner = IF req'[e].sawOwner = u THEN <<>> ELSE <<u>>
                  /\ req'[e].op = "reject" \/ (req'[e].op = "click" /\ req'[e].saw = "verified")
                       => req'[e].owner = <<>>
                  /\ req'[e].op = "revoke" /\ ~raced /\ ~req'[e].stale =>
                       /\ req'[e].pc # "look" => req'[e].sawOwner = u
                       /\ req'[e].pc \in {"status", "commit"} => req'[e].owner = <<Nobody>>
      <3>1. CASE e = r
        BY <1>1, <1>8, <2>3, <2>4, <2>5, <2>6, <2>8, <2>9, <3>1 DEF ClaimInv, WrittenOwner
      <3>2. CASE e # r
        BY <2>2, <3>2 DEF ClaimInv, WrittenOwner, Verifies
      <3> QED
        BY <3>1, <3>2
    <2>11. \A e \in Client : req'[e].claim = req[e].claim
      BY <1>8, <2>2, <2>3
    <2> QED
      BY <2>1, <2>10, <2>11 DEF WrittenOwner
  <1> QED
    BY <1>1, <1>6, <1>10, <1>11, <1>12, <1>13, <1>14, BecomesKeeps
LEMMA WriteStatusKeeps ==
  ASSUME ClaimInv, NEW r \in Client, WriteStatus(r)
  PROVE  ClaimInv'
  <1> DEFINE out == Outcome(req[r].op)
             q == [req[r] EXCEPT !.locks = @ \cup {req[r].claim},
                                 !.status = <<out>>, !.pc = "commit"]
  <1>1. /\ Becomes(r, q) /\ req[r].pc = "status" /\ WaitsFor(r) = {}
        /\ out = "verified" => Verified \subseteq {req[r].claim}
    BY DEF WriteStatus, At, VerifiedAdmits
  <1>2. req[r] \in Request
    BY DEF ClaimInv, ClaimTypeOK
  <1>3. req[r].op \in Decision /\ req[r].claim \in Claim
    <2>1. req[r].op \in Op
      BY <1>2 DEF Request
    <2> QED
      BY <1>1, <2>1 DEF ClaimInv, Shape, Op, Decision
  <1>4. /\ out \in {"verified", "rejected", "revoked"}
        /\ out = "verified" <=> req[r].op \in {"approve", "click"}
    BY <1>3, OutcomeKind
  <1>5. q \in Request
    BY <1>2, <1>3, <1>4 DEF Request, PC, Status
  <1>6. req' = [req EXCEPT ![r] = q] /\ UNCHANGED rows
    BY <1>1 DEF Becomes
  <1>7. /\ q.op = req[r].op /\ q.pc = "commit" /\ q.claim = req[r].claim
        /\ q.saw = req[r].saw /\ q.sawOwner = req[r].sawOwner /\ q.stale = req[r].stale
        /\ q.user = req[r].user /\ q.status = <<out>> /\ q.owner = req[r].owner
    BY <1>2 DEF Request
  (* The UPDATE has waited for every uncommitted verified claim.            *)
  <1>8. req[r].op \in {"approve", "click"} => \A e \in Others(r) : ~Verifying(e)
    BY <1>1 DEF WaitsFor, Verifying
  <1> HIDE DEF q
  <1>9. Shape'
    BY <1>1, <1>3, <1>6, <1>7 DEF ClaimInv, ClaimTypeOK, Shape, Decision
  <1>10. RowsKnown'
    BY <1>6, <1>7 DEF ClaimInv, ClaimTypeOK, RowsKnown, Decision, Others, rows
  <1>11. EntriesApart'
    <2>1. Verified' = Verified /\ \A u : OpenOf(u)' = OpenOf(u)
      BY <1>6 DEF rows, Verified, OpenOf
    <2>2. \A e \in Client : req'[e].claim = req[e].claim /\ req'[e].user = req[e].user
      BY <1>6, <1>7 DEF ClaimInv, ClaimTypeOK
    <2>3. \A e \in Client : Opening(e)' <=> Opening(e)
      BY <1>3, <1>6, <1>7 DEF ClaimInv, ClaimTypeOK, Opening, Decision
    <2>4. \A e \in Client : e # r => (Verifying(e)' <=> Verifying(e))
      BY <1>6 DEF ClaimInv, ClaimTypeOK, Verifying
    <2>5. Verifying(r)' <=> out = "verified"
      BY <1>6, <1>7 DEF ClaimInv, ClaimTypeOK, Verifying
    <2>6. \A d, e \in Client :
            (Opening(d) /\ Opening(e) /\ req[d].user = req[e].user)' => d = e
      BY <2>2, <2>3 DEF ClaimInv, EntriesApart
    <2>7. \A e \in Client : (Opening(e) => OpenOf(req[e].user) = {})'
      BY <2>1, <2>2, <2>3 DEF ClaimInv, EntriesApart
    <2>8. \A d, e \in Client : (Verifying(d) /\ Verifying(e))' => d = e
      BY <1>4, <1>8, <2>4, <2>5 DEF ClaimInv, EntriesApart, Others
    <2>9. \A e \in Client : (Verifying(e) => Verified \subseteq {req[e].claim})'
      BY <1>1, <2>1, <2>2, <2>4, <2>5 DEF ClaimInv, EntriesApart
    <2> QED
      BY <2>6, <2>7, <2>8, <2>9 DEF EntriesApart
  <1>12. SeenIsSo'
    BY <1>6, <1>7 DEF ClaimInv, ClaimTypeOK, SeenIsSo, Decision, rows
  <1>13. WrittenOwner'
    BY <1>1, <1>6, <1>7 DEF ClaimInv, ClaimTypeOK, WrittenOwner, Verifies, rows
  <1> QED
    BY <1>1, <1>5, <1>9, <1>10, <1>11, <1>12, <1>13, BecomesKeeps

LEMMA AbortKeeps ==
  ASSUME ClaimInv, NEW r \in Client, Abort(r)
  PROVE  ClaimInv'
  <1>1. Becomes(r, Idle)
    BY DEF Abort, Becomes
  <1>2. req' = [req EXCEPT ![r] = Idle] /\ UNCHANGED rows
    BY DEF Abort
  <1>3. /\ Idle \in Request /\ Idle.op = "none" /\ Idle.pc = "idle"
        /\ Idle.claim = NoClaim /\ Idle.status = <<>> /\ Idle.owner = <<>>
    BY DEF Idle, Request, Op, PC, Status
  <1>4. Shape'
    BY <1>2, <1>3 DEF ClaimInv, ClaimTypeOK, Shape, Decision
  <1>5. RowsKnown'
    BY <1>2, <1>3, ClaimAssumption
       DEF ClaimInv, ClaimTypeOK, RowsKnown, Shape, Decision, Others, rows
  <1>6. EntriesApart'
    <2>1. Verified' = Verified /\ \A u : OpenOf(u)' = OpenOf(u)
      BY <1>2 DEF rows, Verified, OpenOf
    <2>2. <<>> # <<"verified">>
      OBVIOUS
    <2>3. ~Opening(r)' /\ ~Verifying(r)'
      BY <1>2, <1>3, <2>2 DEF ClaimInv, ClaimTypeOK, Opening, Verifying
    <2>4. \A e \in Client : e # r => req'[e] = req[e]
      BY <1>2 DEF ClaimInv, ClaimTypeOK
    <2> QED
      BY <2>1, <2>3, <2>4 DEF ClaimInv, EntriesApart, Opening, Verifying
  <1>7. SeenIsSo'
    BY <1>2, <1>3 DEF ClaimInv, ClaimTypeOK, SeenIsSo, Decision, rows
  <1>8. WrittenOwner'
    BY <1>2, <1>3 DEF ClaimInv, ClaimTypeOK, WrittenOwner, Verifies, rows
  <1> QED
    BY <1>1, <1>3, <1>4, <1>5, <1>6, <1>7, <1>8, BecomesKeeps
(* The rows and the requests that the commit of r leaves, by what r is.     *)
LEMMA CommitEffect ==
  ASSUME ClaimInv, NEW r \in Client, Commit(r)
  PROVE  /\ req[r].pc = "commit" /\ req[r].claim \in Claim /\ req[r] \in Request
         /\ status' \in [Claim -> Status] /\ claimant' \in [Claim -> User \cup {Nobody}]
         /\ \A c \in Claim : c # req[r].claim =>
              status'[c] = status[c] /\ claimant'[c] = claimant[c]
         /\ \/ /\ req[r].op = "create" /\ req[r].user \in User
               /\ status'[req[r].claim] = "pending"
               /\ claimant'[req[r].claim] = req[r].user
               /\ owner' = owner /\ raced' = raced
            \/ /\ req[r].op = "click" /\ req[r].saw = "verified"
               /\ status' = status /\ claimant' = claimant
               /\ owner' = owner /\ raced' = raced
            \/ /\ req[r].op \in Decision
               /\ ~(req[r].op = "click" /\ req[r].saw = "verified")
               /\ req[r].status = <<Outcome(req[r].op)>>
               /\ status'[req[r].claim] = Outcome(req[r].op)
               /\ claimant' = claimant
               /\ owner' = IF req[r].owner = <<>> THEN owner ELSE Head(req[r].owner)
               /\ raced' = (raced \/ req[r].stale)
  <1> DEFINE q == req[r]
             c == q.claim
  <1>1. q \in Request /\ q.pc = "commit"
    BY DEF Commit, ClaimInv, ClaimTypeOK
  <1>2. q.op \in Op
    BY <1>1 DEF Request
  <1>3. c \in Claim
    BY <1>1, <1>2 DEF ClaimInv, Shape, Op, Decision
  <1>4. status \in [Claim -> Status] /\ claimant \in [Claim -> User \cup {Nobody}]
    BY DEF ClaimInv, ClaimTypeOK
  <1>5. CASE q.op = "create"
    <2>1. q.status = <<>> /\ q.owner = <<>> /\ q.user \in User
      BY <1>5 DEF ClaimInv, Shape
    <2>2. /\ status' = [status EXCEPT ![c] = "pending"]
          /\ claimant' = [claimant EXCEPT ![c] = q.user]
          /\ owner' = owner /\ raced' = raced
      BY <1>5, <2>1 DEF Commit, ClaimInv, ClaimTypeOK
    <2> QED
      BY <1>1, <1>3, <1>4, <1>5, <2>1, <2>2 DEF Status
  <1>6. CASE q.op = "click" /\ q.saw = "verified"
    <2>1. q.status = <<>> /\ q.owner = <<>>
      BY <1>1, <1>6 DEF ClaimInv, Shape, WrittenOwner, Decision
    <2>2. /\ status' = [status EXCEPT ![c] = status[c]]
          /\ claimant' = [claimant EXCEPT ![c] = claimant[c]]
          /\ owner' = owner /\ raced' = raced
      BY <1>6, <2>1 DEF Commit, ClaimInv, ClaimTypeOK
    <2> QED
      BY <1>1, <1>3, <1>4, <1>6, <2>2
  <1>7. CASE q.op \in Decision /\ ~(q.op = "click" /\ q.saw = "verified")
    <2>1. q.status = <<Outcome(q.op)>>
      BY <1>1, <1>7 DEF ClaimInv, Shape
    <2>2. q.op # "create" /\ q.status # <<>> /\ Head(q.status) = Outcome(q.op)
      BY <1>7, <2>1 DEF Decision
    <2>3. /\ status' = [status EXCEPT ![c] = Outcome(q.op)]
          /\ claimant' = [claimant EXCEPT ![c] = claimant[c]]
          /\ owner' = IF q.owner = <<>> THEN owner ELSE Head(q.owner)
          /\ raced' = (raced \/ q.stale)
      BY <2>2 DEF Commit, ClaimInv, ClaimTypeOK
    <2>4. Outcome(q.op) \in Status
      BY <1>7, OutcomeKind DEF Status
    <2> QED
      BY <1>1, <1>3, <1>4, <1>7, <2>1, <2>3, <2>4
  <1> QED
    BY <1>1, <1>2, <1>5, <1>6, <1>7 DEF ClaimInv, Shape, Op, Decision

(* What the commit of r leaves of the requests: r is idle, and the others   *)
(* are what they were, except that they may have become stale.              *)
LEMMA CommitRequests ==
  ASSUME ClaimInv, NEW r \in Client, Commit(r)
  PROVE  /\ req' \in [Client -> Request] /\ req'[r] = Idle
         /\ \A e \in Others(r) :
              /\ req'[e].op = req[e].op /\ req'[e].pc = req[e].pc
              /\ req'[e].claim = req[e].claim /\ req'[e].user = req[e].user
              /\ req'[e].saw = req[e].saw /\ req'[e].sawOwner = req[e].sawOwner
              /\ req'[e].status = req[e].status /\ req'[e].owner = req[e].owner
              /\ ~req'[e].stale => ~req[e].stale
              /\ req[e].op \in Decision /\ ~req'[e].stale =>
                   /\ req[e].claim = req[r].claim =>
                        status'[req[r].claim] = status[req[r].claim]
                   /\ req[e].sawOwner # Nobody => owner' = owner
  <1> DEFINE c == req[r].claim
             s == IF req[r].op = "create" THEN "pending"
                  ELSE IF req[r].status = <<>> THEN status[c] ELSE Head(req[r].status)
             o == IF req[r].owner = <<>> THEN owner ELSE Head(req[r].owner)
             Outdated(e) == \/ req[e].claim = c /\ s # status[c]
                            \/ req[e].sawOwner # Nobody /\ o # owner
             Stale(e) == req[e].stale \/ (req[e].op # "create" /\ Outdated(e))
  <1>1. /\ req' = [e \in Client |-> IF e = r \/ req[e] = Idle THEN Idle
                                    ELSE [req[e] EXCEPT !.stale = Stale(e)]]
        /\ status' = [status EXCEPT ![c] = s] /\ owner' = o
    BY Zenon DEF Commit
  <1>2. Idle \in Request /\ Idle.op = "none" /\ ~Idle.stale
    BY DEF Idle, Request, Op, PC, Status
  <1>3. req'[r] = Idle
    BY <1>1
  <1>4. \A e \in Client : req[e] \in Request
    BY DEF ClaimInv, ClaimTypeOK
  <1>5. c \in Claim /\ status'[c] = s
    BY <1>1, CommitEffect DEF ClaimInv, ClaimTypeOK
  <1>6. ASSUME NEW e \in Others(r)
        PROVE  req'[e] = IF req[e] = Idle THEN Idle ELSE [req[e] EXCEPT !.stale = Stale(e)]
    BY <1>1, <1>6 DEF Others
  <1> HIDE DEF s, o
  <1>7. ASSUME NEW e \in Others(r)
        PROVE  /\ req'[e] \in Request
               /\ req'[e].op = req[e].op /\ req'[e].pc = req[e].pc
               /\ req'[e].claim = req[e].claim /\ req'[e].user = req[e].user
               /\ req'[e].saw = req[e].saw /\ req'[e].sawOwner = req[e].sawOwner
               /\ req'[e].status = req[e].status /\ req'[e].owner = req[e].owner
               /\ ~req'[e].stale => ~req[e].stale
               /\ req[e].op \in Decision /\ ~req'[e].stale => ~Outdated(e)
    <2>1. req[e] \in Request /\ Stale(e) \in BOOLEAN
      BY <1>4 DEF Others, Request
    <2>2. CASE req[e] = Idle
      BY <1>2, <1>6, <2>2 DEF Decision
    <2>3. CASE req[e] # Idle
      <3>1. req'[e] = [req[e] EXCEPT !.stale = Stale(e)]
        BY <1>6, <2>3
      <3> HIDE DEF Outdated
      <3>2. req'[e] \in Request
        BY <2>1, <3>1 DEF Request
      <3> QED
        BY <2>1, <3>1, <3>2 DEF Request, Decision
    <2> QED
      BY <2>2, <2>3
  <1>8. req' \in [Client -> Request]
    BY <1>1, <1>2, <1>3, <1>7 DEF Others
  <1> QED
    BY <1>1, <1>3, <1>5, <1>7, <1>8

LEMMA CommitKeeps ==
  ASSUME ClaimInv, NEW r \in Client, Commit(r)
  PROVE  ClaimInv'
  <1> DEFINE q == req[r]
             c == req[r].claim
             creates == q.op = "create"
             clicks == q.op = "click" /\ q.saw = "verified"
             decides == q.op \in Decision /\ ~clicks
  <1>1. /\ q.pc = "commit" /\ c \in Claim /\ q \in Request
        /\ status' \in [Claim -> Status] /\ claimant' \in [Claim -> User \cup {Nobody}]
        /\ \A d \in Claim : d # c => status'[d] = status[d] /\ claimant'[d] = claimant[d]
        /\ creates \/ clicks \/ decides
    BY CommitEffect
  <1>2. creates => /\ q.user \in User /\ status'[c] = "pending" /\ claimant'[c] = q.user
                   /\ owner' = owner /\ raced' = raced
    BY CommitEffect DEF Decision
  <1>3. clicks => status' = status /\ claimant' = claimant /\ owner' = owner /\ raced' = raced
    BY CommitEffect DEF Decision
  <1>4. decides => /\ q.status = <<Outcome(q.op)>> /\ status'[c] = Outcome(q.op)
                   /\ claimant' = claimant
                   /\ owner' = IF q.owner = <<>> THEN owner ELSE Head(q.owner)
                   /\ raced' = (raced \/ q.stale)
    BY CommitEffect DEF Decision
  <1>5. req' \in [Client -> Request] /\ req'[r] = Idle
    BY CommitRequests
  <1>6. \A e \in Client : e # r =>
          /\ req'[e].op = req[e].op /\ req'[e].pc = req[e].pc
          /\ req'[e].claim = req[e].claim /\ req'[e].user = req[e].user
          /\ req'[e].saw = req[e].saw /\ req'[e].sawOwner = req[e].sawOwner
          /\ req'[e].status = req[e].status /\ req'[e].owner = req[e].owner
          /\ ~req'[e].stale => ~req[e].stale
          /\ req[e].op \in Decision /\ ~req'[e].stale =>
               /\ req[e].claim = c => status'[c] = status[c]
               /\ req[e].sawOwner # Nobody => owner' = owner
    BY CommitRequests DEF Others
  <1>7. /\ Idle.op = "none" /\ Idle.pc = "idle" /\ Idle.claim = NoClaim
        /\ Idle.status = <<>> /\ Idle.owner = <<>>
    BY DEF Idle
  <1>8. decides => /\ Outcome(q.op) \in {"verified", "rejected", "revoked"}
                   /\ Outcome(q.op) = "verified" <=> Verifies(r)
                   /\ ~creates
    BY <1>1, OutcomeKind DEF ClaimInv, Shape, Decision, Verifies
  <1>9. creates => status[c] = "absent" /\ \A e \in Client : e # r => req[e].claim # c
    BY DEF ClaimInv, RowsKnown, Others
  <1>10. raced \in BOOLEAN /\ raced' \in BOOLEAN /\ (~raced' => ~raced)
    BY <1>1, <1>2, <1>3, <1>4 DEF ClaimInv, ClaimTypeOK, Request
  <1>11. owner' \in User \cup {Nobody}
    <2>1. q.owner = <<>> \/ \E u \in User \cup {Nobody} : q.owner = <<u>>
      BY <1>1 DEF Request
    <2>2. q.owner # <<>> => Head(q.owner) \in User \cup {Nobody}
      BY <2>1
    <2> QED
      BY <1>1, <1>2, <1>3, <1>4, <2>2 DEF ClaimInv, ClaimTypeOK
  <1> HIDE DEF creates, clicks, decides
  <1>12. ClaimTypeOK'
    <2>1. token' \subseteq Claim
      BY <1>1, Zenon DEF Commit, ClaimInv, ClaimTypeOK
    <2> QED
      BY <1>1, <1>5, <1>10, <1>11, <2>1 DEF ClaimTypeOK
  <1>13. Shape'
    BY <1>5, <1>6, <1>7 DEF ClaimInv, Shape, Decision
  <1>14. RowsKnown'
    <2>1. \A d \in Claim : status'[d] # "absent" => claimant'[d] \in User
      BY <1>1, <1>2, <1>3, <1>4 DEF ClaimInv, RowsKnown, Shape, decides
    <2>2. \A d \in Claim : status[d] # "absent" => status'[d] # "absent"
      BY <1>1, <1>2, <1>3, <1>4, <1>8
    <2>3. \A e \in Client : req'[e].op = "create" =>
            /\ status'[req'[e].claim] = "absent"
            /\ \A d \in Client \ {e} : req'[d].claim # req'[e].claim
      <3> SUFFICES ASSUME NEW e \in Client, req'[e].op = "create"
                   PROVE  /\ status'[req'[e].claim] = "absent"
                          /\ \A d \in Client \ {e} : req'[d].claim # req'[e].claim
        OBVIOUS
      <3>1. e # r /\ req[e].op = "create" /\ req'[e].claim = req[e].claim
        BY <1>5, <1>6, <1>7
      <3>2. /\ req[e].claim \in Claim /\ status[req[e].claim] = "absent"
            /\ \A d \in Client \ {e} : req[d].claim # req[e].claim
        BY <3>1 DEF ClaimInv, RowsKnown, Shape, Others
      <3>3. req[e].claim # c
        BY <3>1, <3>2
      <3>4. req[e].claim # NoClaim
        BY <3>2, ClaimAssumption
      <3> QED
        BY <1>1, <1>5, <1>6, <1>7, <3>1, <3>2, <3>3, <3>4
    <2>4. \A e \in Client : req'[e].op \in Decision => status'[req'[e].claim] # "absent"
      <3> SUFFICES ASSUME NEW e \in Client, req'[e].op \in Decision
                   PROVE  status'[req'[e].claim] # "absent"
        OBVIOUS
      <3>1. e # r
        BY <1>5, <1>7 DEF Decision
      <3>2. req[e].op \in Decision /\ req'[e].claim = req[e].claim
        BY <1>6, <3>1
      <3>3. req[e].claim \in Claim /\ status[req[e].claim] # "absent"
        BY <3>2 DEF ClaimInv, RowsKnown, Shape
      <3> QED
        BY <2>2, <3>2, <3>3
    <2> QED
      BY <2>1, <2>3, <2>4 DEF RowsKnown, Others
  <1>15. \/ creates \/ clicks \/ ~Verifies(r)
         \/ Verified \subseteq {c}
    <2>1. decides /\ Verifies(r) => Verifying(r)
      BY <1>4, <1>8 DEF Verifying
    <2> QED
      BY <1>1, <2>1 DEF ClaimInv, EntriesApart
  <1>16. Verified' \subseteq Verified \/ (decides /\ Verifies(r) /\ Verified' \subseteq {c})
    <2>1. CASE decides /\ Verifies(r)
      <3>1. ~creates /\ ~clicks
        BY <1>8, <2>1 DEF decides
      <3> QED
        BY <1>1, <1>15, <2>1, <3>1 DEF Verified
    <2>2. CASE ~(decides /\ Verifies(r))
      BY <1>1, <1>2, <1>3, <1>4, <1>8, <2>2 DEF Verified
    <2> QED
      BY <2>1, <2>2
  <1>17. \A u \in User : IF creates /\ u = q.user THEN OpenOf(u)' = {c} /\ OpenOf(u) = {}
                         ELSE OpenOf(u)' \subseteq OpenOf(u)
    <2> SUFFICES ASSUME NEW u \in User
                 PROVE  IF creates /\ u = q.user THEN OpenOf(u)' = {c} /\ OpenOf(u) = {}
                        ELSE OpenOf(u)' \subseteq OpenOf(u)
      OBVIOUS
    <2>1. CASE creates /\ u = q.user
      <3>1. OpenOf(u) = {}
        BY <1>1, <2>1 DEF creates, ClaimInv, EntriesApart, Opening
      <3>2. \A d \in Claim : d # c => d \notin OpenOf(u)'
        BY <1>1, <3>1 DEF OpenOf
      <3>3. c \in OpenOf(u)'
        BY <1>1, <1>2, <2>1 DEF OpenOf
      <3> QED
        BY <2>1, <3>1, <3>2, <3>3 DEF OpenOf
    <2>2. CASE ~(creates /\ u = q.user)
      <3>1. \A d \in Claim : d # c /\ d \in OpenOf(u)' => d \in OpenOf(u)
        BY <1>1 DEF OpenOf
      <3>2. c \in OpenOf(u)' => c \in OpenOf(u)
        BY <1>1, <1>2, <1>3, <1>4, <1>8, <2>2 DEF OpenOf
      <3> QED
        BY <2>2, <3>1, <3>2 DEF OpenOf
    <2> QED
      BY <2>1, <2>2
  <1>18. \A e \in Client :
           /\ Opening(e)' => e # r /\ Opening(e)
           /\ Verifying(e)' => e # r /\ Verifying(e)
    <2>1. <<>> # <<"verified">>
      OBVIOUS
    <2> QED
      BY <1>5, <1>6, <1>7, <2>1 DEF Opening, Verifying
  <1>19. EntriesApart'
    <2>1. \A d, e \in Client :
            (Opening(d) /\ Opening(e) /\ req[d].user = req[e].user)' => d = e
      BY <1>6, <1>18 DEF ClaimInv, EntriesApart
    <2>2. \A e \in Client : (Opening(e) => OpenOf(req[e].user) = {})'
      <3> SUFFICES ASSUME NEW e \in Client, Opening(e)' PROVE OpenOf(req[e].user)' = {}
        OBVIOUS
      <3>1. e # r /\ Opening(e) /\ req'[e].user = req[e].user
        BY <1>6, <1>18
      <3>2. req[e].user \in User /\ OpenOf(req[e].user) = {}
        BY <3>1 DEF ClaimInv, EntriesApart, Shape, Opening
      <3>3. creates => req[e].user # q.user
        BY <1>1, <3>1 DEF creates, ClaimInv, EntriesApart, Opening
      <3>5. \A u \in User : ~(creates /\ u = q.user) /\ OpenOf(u) = {} => OpenOf(u)' = {}
        BY <1>17
      <3> QED
        BY <3>1, <3>2, <3>3, <3>5 DEF OpenOf
    <2>3. \A d, e \in Client : (Verifying(d) /\ Verifying(e))' => d = e
      BY <1>18 DEF ClaimInv, EntriesApart
    <2>4. \A e \in Client : (Verifying(e) => Verified \subseteq {req[e].claim})'
      <3>1. decides /\ Verifies(r) => \A e \in Client : e # r => ~Verifying(e)
        BY <1>4, <1>8 DEF ClaimInv, EntriesApart, Verifying
      <3> QED
        BY <1>6, <1>16, <1>18, <3>1 DEF ClaimInv, EntriesApart
    <2> QED
      BY <2>1, <2>2, <2>3, <2>4 DEF EntriesApart
  <1>20. UniqueClaims'
    <2>1. \A d, e \in Verified' : d = e
      BY <1>16 DEF ClaimInv, UniqueClaims
    <2>2. \A u \in User : \A d, e \in OpenOf(u) : d = e
      BY DEF ClaimInv, UniqueClaims, OpenOf
    <2>3. \A u \in User : \A d, e \in OpenOf(u)' : d = e
      BY <1>17, <2>2
    <2>4. \A d, e \in Claim :
            (status[d] = "pending" /\ status[e] = "pending" /\ claimant[d] = claimant[e])'
              => d = e
      BY <1>14, <2>3 DEF RowsKnown, OpenOf
    <2> QED
      BY <2>1, <2>4 DEF UniqueClaims
  <1>21. SeenIsSo'
    <2> SUFFICES ASSUME NEW e \in Client, req'[e].op \in Decision, ~req'[e].stale
                 PROVE  /\ status'[req'[e].claim] = req'[e].saw
                        /\ req'[e].sawOwner # Nobody => owner' = req'[e].sawOwner
      BY DEF SeenIsSo
    <2>1. e # r /\ req[e].op \in Decision /\ ~req[e].stale /\ req[e].claim \in Claim
      BY <1>5, <1>6, <1>7 DEF Decision, ClaimInv, Shape
    <2>2. /\ status[req[e].claim] = req[e].saw
          /\ req[e].sawOwner # Nobody => owner = req[e].sawOwner
      BY <2>1 DEF ClaimInv, SeenIsSo
    <2> QED
      BY <1>1, <1>6, <2>1, <2>2
  <1>22. WrittenOwner'
    <2>1. \A e \in Client : e # r /\ req[e].op \in Decision =>
            claimant'[req[e].claim] = claimant[req[e].claim]
      BY <1>1, <1>2, <1>3, <1>4, <1>9 DEF ClaimInv, Shape
    <2>2. ASSUME NEW e \in Client, req'[e].op \in Decision
          PROVE  /\ e # r /\ req[e].op \in Decision
                 /\ Verifies(e)' <=> Verifies(e)
                 /\ claimant'[req'[e].claim] = claimant[req[e].claim]
      BY <1>5, <1>6, <1>7, <2>1, <2>2 DEF Decision, Verifies
    <2>3. \A e \in Client : Verifies(e)' => req'[e].op \in Decision
      BY DEF Verifies, Decision
    <2>4. {"approve", "click", "reject", "revoke"} = Decision
      BY DEF Decision
    <2> QED
      BY <1>6, <1>10, <2>2, <2>3, <2>4 DEF ClaimInv, WrittenOwner
  <1>23. OwnerHasClaim'
    <2> SUFFICES ASSUME ~raced'
                 PROVE  {owner'} \ {Nobody} = {claimant'[d] : d \in Verified'}
      BY DEF OwnerHasClaim
    <2>1. ~raced /\ {owner} \ {Nobody} = {claimant[d] : d \in Verified}
      BY <1>10 DEF ClaimInv, OwnerHasClaim
    <2>2. CASE creates
      <3>1. Verified' = Verified /\ c \notin Verified
        BY <1>1, <1>2, <1>9, <2>2 DEF Verified
      <3>2. \A d \in Verified : claimant'[d] = claimant[d]
        BY <1>1, <3>1 DEF Verified
      <3> QED
        BY <1>2, <2>1, <2>2, <3>1, <3>2
    <2>3. CASE clicks
      BY <1>3, <2>1, <2>3 DEF Verified
    <2>4. CASE decides
      <3>1. ~q.stale /\ status[c] = q.saw /\ (q.sawOwner # Nobody => owner = q.sawOwner)
        BY <1>4, <1>1, <2>4 DEF ClaimInv, SeenIsSo, decides, Request
      <3>2. claimant[c] \in User /\ claimant[c] # Nobody
        BY <1>1, <2>4, ClaimAssumption DEF ClaimInv, RowsKnown, decides
      (* It becomes verified: nothing was, hence nobody was the owner.        *)
      <3>3. CASE Verifies(r)
        <4>1. q.saw = "pending"
          BY <3>3, <2>4 DEF ClaimInv, Shape, Verifies, decides
        <4>2. Verified \subseteq {c}
          BY <1>8, <1>15, <2>4, <3>3 DEF decides
        <4>3. Verified = {}
          BY <3>1, <4>1, <4>2 DEF Verified
        <4>4. owner = Nobody
          BY <2>1, <4>3
        <4>5. q.sawOwner = Nobody
          BY <3>1, <4>4
        <4>6. q.owner = <<claimant[c]>>
          BY <1>1, <3>2, <3>3, <4>5 DEF ClaimInv, WrittenOwner
        <4>7. owner' = claimant[c] /\ claimant' = claimant
          BY <1>4, <2>4, <4>6
        <4>8. status'[c] = "verified"
          BY <1>4, <1>8, <2>4, <3>3
        <4>9. Verified' = {c}
          BY <1>1, <4>3, <4>8 DEF Verified
        <4> QED
          BY <3>2, <4>7, <4>9
      (* A rejected claim was not verified.                                   *)
      <3>4. CASE q.op = "reject"
        <4>1. q.saw = "pending" /\ q.owner = <<>> /\ ~Verifies(r)
          BY <2>4, <3>4 DEF ClaimInv, Shape, WrittenOwner, Verifies, decides
        <4>2. c \notin Verified /\ status'[c] # "verified"
          BY <1>4, <1>8, <2>4, <3>1, <4>1 DEF Verified
        <4>3. Verified' = Verified
          BY <1>1, <4>2 DEF Verified
        <4> QED
          BY <1>4, <2>1, <2>4, <4>1, <4>3
      (* A revoked claim was the verified one, and its claimant the owner.    *)
      <3>5. CASE q.op = "revoke"
        <4>1. q.saw = "verified" /\ ~Verifies(r)
          BY <2>4, <3>5 DEF ClaimInv, Shape, Verifies, decides
        <4>2. Verified = {c}
          BY <1>1, <3>1, <4>1 DEF Verified, ClaimInv, UniqueClaims
        <4>3. status'[c] # "verified"
          BY <1>4, <1>8, <2>4, <4>1
        <4>4. Verified' = {}
          BY <1>1, <4>2, <4>3 DEF Verified
        <4>5. q.owner = <<Nobody>>
          BY <1>1, <2>1, <3>1, <3>5 DEF ClaimInv, WrittenOwner
        <4> QED
          BY <1>4, <2>4, <4>4, <4>5
      <3> QED
        BY <2>4, <3>3, <3>4, <3>5 DEF decides, clicks, Decision, ClaimInv, Shape, Verifies
    <2> QED
      BY <1>1, <2>2, <2>3, <2>4
  <1> QED
    BY <1>12, <1>13, <1>14, <1>19, <1>20, <1>21, <1>22, <1>23 DEF ClaimInv

LEMMA NextKeeps == ClaimInv /\ [Next]_vars => ClaimInv'
  <1> SUFFICES ASSUME ClaimInv, [Next]_vars PROVE ClaimInv'
    OBVIOUS
  <1>1. ASSUME NEW r \in Client, NEW c \in Claim, NEW u \in User, NEW email \in BOOLEAN,
               BeginCreate(r, c, u, email)
        PROVE  ClaimInv'
    BY <1>1, CreateKeeps
  <1>2. ASSUME NEW r \in Client, NEW c \in Claim,
               BeginApprove(r, c) \/ BeginReject(r, c) \/ BeginRevoke(r, c) \/ BeginClick(r, c)
        PROVE  ClaimInv'
    BY <1>2, BeginKeeps DEF BeginApprove, BeginReject, BeginRevoke, BeginClick, Decision
  <1>3. ASSUME NEW r \in Client,
               \/ Insert(r) \/ Look(r) \/ RotateToken(r) \/ WriteOwner(r) \/ WriteStatus(r)
               \/ Commit(r) \/ Abort(r)
        PROVE  ClaimInv'
    BY <1>3, InsertKeeps, LookKeeps, RotateTokenKeeps, WriteOwnerKeeps, WriteStatusKeeps,
       CommitKeeps, AbortKeeps
  <1>4. CASE UNCHANGED vars
    BY <1>4 DEF vars, ClaimInv, ClaimTypeOK, Shape, RowsKnown, Decision, Others, EntriesApart,
                Opening, Verifying, OpenOf, Verified, UniqueClaims, SeenIsSo, WrittenOwner,
                Verifies, OwnerHasClaim
  <1> QED
    BY <1>1, <1>2, <1>3, <1>4 DEF Next

THEOREM ClaimInvHolds == Spec => []ClaimInv
  BY InitEstablishes, NextKeeps, PTL DEF Spec

(* Every variable keeps its type.                                           *)
THEOREM ClaimTypeCorrect == Spec => []ClaimTypeOK
  BY ClaimInvHolds, PTL DEF ClaimInv

(* At most one verified claim of the restaurant, and at most one open claim *)
(* of a user, however many requests of whatever kind are in flight.         *)
THEOREM ClaimsAreUnique == Spec => []UniqueClaims
  BY ClaimInvHolds, PTL DEF ClaimInv

(* Unless some decision was made on what another had changed, the owner is  *)
(* the claimant of the verified claim and there is none without one.        *)
THEOREM OwnerHasTheClaim == Spec => []OwnerHasClaim
  BY ClaimInvHolds, PTL DEF ClaimInv

------------------------------------------------------------------------------
(* The locks.  Only a click holds its claim before it is ready to commit;   *)
(* and whoever holds the restaurant has only the status left to write.      *)
LocksInOrder ==
  \A r \in Client :
    /\ req[r].locks \subseteq {req[r].claim, "restaurant"}
    /\ "restaurant" \in req[r].locks => req[r].pc \in {"status", "commit"}
    /\ req[r].claim \in req[r].locks => req[r].op = "click" \/ req[r].pc = "commit"
    /\ req[r].status # <<>> => req[r].pc = "commit"

LEMMA LocksInit == Init => LocksInOrder
  BY DEF Init, Idle, LocksInOrder

(* A step of r that leaves the other requests alone.                        *)
LEMMA LocksBecome ==
  ASSUME ClaimInv, LocksInOrder, NEW r \in Client, NEW q,
         req' = [req EXCEPT ![r] = q],
         q.locks \subseteq {q.claim, "restaurant"},
         "restaurant" \in q.locks => q.pc \in {"status", "commit"},
         q.claim \in q.locks => q.op = "click" \/ q.pc = "commit",
         q.status # <<>> => q.pc = "commit"
  PROVE  LocksInOrder'
  <1>1. req'[r] = q /\ \A e \in Client : e # r => req'[e] = req[e]
    BY DEF ClaimInv, ClaimTypeOK
  <1> QED
    BY <1>1 DEF LocksInOrder

LEMMA LocksNext == ClaimInv /\ LocksInOrder /\ [Next]_vars => LocksInOrder'
  <1> SUFFICES ASSUME ClaimInv, LocksInOrder, [Next]_vars PROVE LocksInOrder'
    OBVIOUS
  <1> USE ClaimAssumption
  <1>0. /\ Shape /\ req \in [Client -> Request] /\ status \in [Claim -> Status]
        /\ owner \in User \cup {Nobody} /\ claimant \in [Claim -> User \cup {Nobody}]
    BY DEF ClaimInv, ClaimTypeOK
  <1>1. ASSUME NEW r \in Client, NEW c \in Claim, NEW u \in User, NEW email \in BOOLEAN,
               BeginCreate(r, c, u, email)
        PROVE  LocksInOrder'
    <2> DEFINE q == [Idle EXCEPT !.op = "create", !.pc = "insert", !.claim = c,
                                 !.user = u, !.email = email]
    <2>1. q.locks = {} /\ q.status = <<>>
      BY DEF Idle
    <2>2. req' = [req EXCEPT ![r] = q]
      BY <1>1 DEF BeginCreate, Becomes
    <2> HIDE DEF q
    <2> QED
      BY <2>1, <2>2, LocksBecome
  <1>2. ASSUME NEW r \in Client, NEW c \in Claim, NEW op \in Op, Begin(r, op, c)
        PROVE  LocksInOrder'
    <2> DEFINE q == [Idle EXCEPT !.op = op, !.pc = "look", !.claim = c, !.saw = status[c]]
    <2>1. q.locks = {} /\ q.status = <<>>
      BY DEF Idle
    <2>2. req' = [req EXCEPT ![r] = q]
      BY <1>2 DEF Begin, Becomes
    <2> HIDE DEF q
    <2> QED
      BY <2>1, <2>2, LocksBecome
  <1>3. ASSUME NEW r \in Client, Insert(r)
        PROVE  LocksInOrder'
    <2> DEFINE q == [req[r] EXCEPT !.pc = "commit"]
    <2>1. q.locks = req[r].locks /\ q.claim = req[r].claim /\ q.pc = "commit"
      BY <1>0 DEF Request
    <2>2. req' = [req EXCEPT ![r] = q]
      BY <1>3 DEF Insert, Becomes
    <2> HIDE DEF q
    <2> QED
      BY <2>1, <2>2, LocksBecome DEF LocksInOrder
  <1>4. ASSUME NEW r \in Client, Look(r)
        PROVE  LocksInOrder'
    <2> PICK pc \in {"token", "status", "owner"} :
          req' = [req EXCEPT ![r] = [req[r] EXCEPT !.sawOwner = owner, !.pc = pc]]
      BY <1>4 DEF Look, Becomes
    <2> DEFINE q == [req[r] EXCEPT !.sawOwner = owner, !.pc = pc]
    <2>1. /\ q.locks = req[r].locks /\ q.claim = req[r].claim
          /\ q.op = req[r].op /\ q.status = req[r].status
      BY <1>0 DEF Request
    <2>2. req' = [req EXCEPT ![r] = q]
      OBVIOUS
    <2>3. req[r].pc = "look"
      BY <1>4 DEF Look, At
    <2> HIDE DEF q
    <2> QED
      BY <2>1, <2>2, <2>3, LocksBecome DEF LocksInOrder
  <1>5. ASSUME NEW r \in Client, RotateToken(r)
        PROVE  LocksInOrder'
    <2> PICK pc \in {"commit", "owner"} :
          req' = [req EXCEPT ![r] = [req[r] EXCEPT !.locks = @ \cup {req[r].claim}, !.pc = pc]]
      BY <1>5 DEF RotateToken, Becomes
    <2>1. req[r].pc = "token"
      BY <1>5 DEF RotateToken, At
    <2>2. req[r].op = "click" /\ req[r].claim \in Claim
      BY <1>0, <2>1 DEF Shape, Decision, Request, Op
    <2> DEFINE q == [req[r] EXCEPT !.locks = @ \cup {req[r].claim}, !.pc = pc]
    <2>3. /\ q.locks = req[r].locks \cup {req[r].claim}
          /\ q.claim = req[r].claim /\ q.op = "click" /\ q.status = req[r].status
      BY <1>0, <2>2 DEF Request
    <2>4. req' = [req EXCEPT ![r] = q]
      OBVIOUS
    <2> HIDE DEF q
    <2> QED
      BY <2>1, <2>2, <2>3, <2>4, LocksBecome DEF LocksInOrder
  <1>6. ASSUME NEW r \in Client, WriteOwner(r)
        PROVE  LocksInOrder'
    <2> PICK new \in {<<>>, <<Nobody>>, <<claimant[req[r].claim]>>} :
          req' = [req EXCEPT ![r] = [req[r] EXCEPT !.locks = @ \cup {"restaurant"},
                                                   !.owner = new, !.pc = "status"]]
      BY <1>6 DEF WriteOwner, Becomes
    <2>1. req[r].pc = "owner"
      BY <1>6 DEF WriteOwner, At
    <2>2. req[r].claim \in Claim
      BY <1>0, <2>1 DEF Shape, Decision, Request, Op
    <2> DEFINE q == [req[r] EXCEPT !.locks = @ \cup {"restaurant"}, !.owner = new,
                                   !.pc = "status"]
    <2>3. /\ q.locks = req[r].locks \cup {"restaurant"}
          /\ q.claim = req[r].claim /\ q.op = req[r].op /\ q.pc = "status"
          /\ q.status = req[r].status
      BY <1>0, <2>2 DEF Request
    <2>4. req' = [req EXCEPT ![r] = q]
      OBVIOUS
    <2> HIDE DEF q
    <2> QED
      BY <2>1, <2>2, <2>3, <2>4, LocksBecome DEF LocksInOrder
  <1>7. ASSUME NEW r \in Client, WriteStatus(r)
        PROVE  LocksInOrder'
    <2> DEFINE q == [req[r] EXCEPT !.locks = @ \cup {req[r].claim},
                                   !.status = <<Outcome(req[r].op)>>, !.pc = "commit"]
    <2>1. req[r].pc = "status"
      BY <1>7 DEF WriteStatus, At
    <2>2. req[r].claim \in Claim /\ req[r].op \in Decision
      BY <1>0, <2>1 DEF Shape, Decision, Request, Op
    <2>3. /\ q.locks = req[r].locks \cup {req[r].claim}
          /\ q.claim = req[r].claim /\ q.pc = "commit"
      BY <1>0 DEF Request
    <2>4. req' = [req EXCEPT ![r] = q]
      BY <1>7 DEF WriteStatus, Becomes
    <2> HIDE DEF q
    <2> QED
      BY <2>1, <2>2, <2>3, <2>4, LocksBecome DEF LocksInOrder
  <1>8. ASSUME NEW r \in Client, Commit(r)
        PROVE  LocksInOrder'
    <2>1. ASSUME NEW e \in Client
          PROVE  \/ req'[e] = Idle
                 \/ /\ req'[e].locks = req[e].locks /\ req'[e].claim = req[e].claim
                    /\ req'[e].op = req[e].op /\ req'[e].pc = req[e].pc
                    /\ req'[e].status = req[e].status
      <3>1. \/ req'[e] = Idle
            \/ \E b : req'[e] = [req[e] EXCEPT !.stale = b]
        BY <1>8 DEF Commit
      <3>2. req[e] \in Request
        BY <1>0
      <3>3. ASSUME NEW b, req'[e] = [req[e] EXCEPT !.stale = b]
            PROVE  /\ req'[e].locks = req[e].locks /\ req'[e].claim = req[e].claim
                   /\ req'[e].op = req[e].op /\ req'[e].pc = req[e].pc
                   /\ req'[e].status = req[e].status
        BY <3>2, <3>3 DEF Request
      <3> QED
        BY <3>1, <3>3
    <2> QED
      BY <2>1 DEF LocksInOrder, Idle
  <1>9. ASSUME NEW r \in Client, Abort(r)
        PROVE  LocksInOrder'
    <2>1. Idle.locks = {} /\ Idle.status = <<>>
      BY DEF Idle
    <2> QED
      BY <1>9, <2>1, LocksBecome DEF Abort
  <1>10. CASE UNCHANGED vars
    BY <1>10 DEF vars, LocksInOrder
  <1>11. \A r \in Client, c \in Claim :
           BeginApprove(r, c) \/ BeginReject(r, c) \/ BeginRevoke(r, c) \/ BeginClick(r, c) =>
             \E op \in Op : Begin(r, op, c)
    BY DEF BeginApprove, BeginReject, BeginRevoke, BeginClick, Op
  <1> QED
    BY <1>1, <1>2, <1>3, <1>4, <1>5, <1>6, <1>7, <1>8, <1>9, <1>10, <1>11 DEF Next

(* Whom somebody who is no click waits for, if it is no click either, is    *)
(* further on; and who is ready to commit waits for nobody.                 *)
LEMMA WaitsUpwards ==
  ASSUME ClaimInv, LocksInOrder, NEW r \in Client, NEW e \in WaitsFor(r),
         req[r].op # "click", req[e].op # "click"
  PROVE  /\ e \in Client /\ req[r].pc \in {"insert", "owner", "status"}
         /\ req[e].pc = "commit" \/ (req[r].pc = "owner" /\ req[e].pc = "status")
  <1> USE ClaimAssumption
  <1>0. /\ Shape /\ req \in [Client -> Request] /\ e \in Client
        /\ req[r].pc \in {"insert", "owner", "token", "status"}
    BY DEF ClaimInv, ClaimTypeOK, WaitsFor, Others
  <1>1. CASE req[r].pc = "insert"
    BY <1>0, <1>1 DEF WaitsFor
  <1>2. CASE req[r].pc = "owner"
    BY <1>0, <1>2 DEF WaitsFor, LocksInOrder
  <1>3. CASE req[r].pc = "status"
    <2>1. req[r].claim \in Claim
      BY <1>0, <1>3 DEF Shape, Decision, Request, Op
    <2>2. req[r].claim \in req[e].locks \/ req[e].status = <<"verified">>
      BY <1>3 DEF WaitsFor
    <2>3. req[r].claim \in req[e].locks => req[e].pc = "commit"
      BY <1>0, <2>1 DEF LocksInOrder
    <2>4. req[e].status = <<"verified">> => req[e].pc = "commit"
      BY <1>0 DEF LocksInOrder
    <2> QED
      BY <1>0, <1>3, <2>2, <2>3, <2>4
  <1>4. req[r].pc # "token"
    BY <1>0 DEF Shape, Decision, Request, Op
  <1> QED
    BY <1>0, <1>1, <1>2, <1>3, <1>4

(* A circle of requests that wait for each other contains a click: who is   *)
(* no click locks the restaurant before its claim.                          *)
THEOREM DeadlockTakesClick == Spec => []DeadlockNeedsClick
  <1>1. ASSUME ClaimInv, LocksInOrder, NEW S \in SUBSET Client, S # {},
               \A r \in S : req[r] # Idle /\ WaitsFor(r) \cap S # {},
               \A r \in S : req[r].op # "click"
        PROVE  FALSE
    <2>1. ASSUME NEW r \in S
          PROVE  req[r].pc = "owner" /\ \E e \in S : req[e].pc = "status"
      <3>1. PICK e \in S : e \in WaitsFor(r)
        BY <1>1
      <3>2. req[e].pc # "commit"
        <4>1. PICK f \in S : f \in WaitsFor(e)
          BY <1>1
        <4> QED
          BY <1>1, <4>1, WaitsUpwards
      <3> QED
        BY <1>1, <3>1, <3>2, WaitsUpwards
    <2> QED
      BY <1>1, <2>1
  <1>2. ClaimInv /\ LocksInOrder => DeadlockNeedsClick
    BY <1>1 DEF DeadlockNeedsClick
  <1> QED
    BY <1>2, ClaimInvHolds, LocksInit, LocksNext, PTL DEF Spec

================================================================================
