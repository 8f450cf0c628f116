---------------------------- MODULE CommunityProofs ----------------------------
(***************************************************************************)
(* Proofs about what the diners do: credentials, follows, blocks and mutes, *)
(* marks, settings, comments, pages; and that every part of the instance    *)
(* that TLC explores keeps its types.  One section per part.  A request     *)
(* that no other has crossed knows more than it has looked up: the          *)
(* invariant of each part says what, and every action keeps it.             *)
(***************************************************************************)
EXTENDS MCCommunity, FiniteSetTheorems, TLAPS

------------------------------------------------------------------------------
(* Credentials: sessions and links.  What makes these hold is a lock: a     *)
(* request that has updated a row is the only one that may, until it ends.  *)
(* So a sweep that nobody crossed has the whole of what it is about in its  *)
(* hands when it commits.                                                   *)

(* What a request has at each of its stages.                                *)
Stage(q) ==
  /\ q.found \subseteq (IF q.pc = "strike" THEN Swept(q.op) ELSE {})
  /\ q.op = "none" => q = Idle
  /\ q.op = "register" =>
       /\ q.pc \in {"insert", "commit"} /\ q.token = NoRow /\ q.held = {}
       /\ q.new \in IF q.pc = "commit" THEN VerifyLink ELSE {NoRow}
  /\ q.op \in {"login", "forgot", "resend"} =>
       /\ q.pc \in {"scan", "strike", "commit"} /\ q.token = NoRow
       /\ q.held \subseteq IF q.pc = "commit" THEN Swept(q.op) ELSE {}
       /\ q.new \in IF q.pc = "commit" THEN Swept(q.op) ELSE {NoRow}
  /\ q.op = "refresh" =>
       /\ q.pc \in {"take", "read", "scan", "strike", "raise", "commit"} /\ q.token \in Session
       /\ q.held \subseteq IF q.pc \in {"raise", "commit"} THEN Session ELSE {}
       /\ q.pc = "commit" => q.held = {q.token}
       /\ q.new \in IF q.pc = "commit" THEN Session ELSE {NoRow}
  /\ q.op = "logout" =>
       /\ q.pc \in {"take", "commit"} /\ q.token \in Session
       /\ q.held \subseteq {q.token} /\ q.new = NoRow
  /\ q.op = "reset" =>
       /\ q.pc \in {"write", "scan", "strike", "commit"} /\ q.token \in PasswordLink
       /\ q.held \subseteq Session \cup {q.token, "user"} /\ q.new = NoRow
  /\ q.op = "verify" =>
       /\ q.pc \in {"write", "commit"} /\ q.token \in VerifyLink
       /\ q.held \subseteq {q.token, "user"} /\ q.new = NoRow

(* The matter in which an operation that sweeps must not be crossed.        *)
Concern(op) ==
  CASE op = "login" -> "session" [] op = "reset" -> "password" [] OTHER -> "link"

(* How a request stands to the tables: what it is about to insert is not    *)
(* there, what it refers to is, and, unless it was crossed, a link is good  *)
(* until its click commits and a sweep has all that is open.                *)
Stands(q) ==
  /\ q.op = "register" /\ q.pc = "commit" => ~account
  /\ q.op \notin {"none", "register"} => account
  /\ q.new # NoRow => row[q.new] = "absent"
  /\ q.token # NoRow => row[q.token] # "absent"
  /\ \A x \in q.held : x # "user" => row[x] # "absent"
  /\ q.op = "refresh" /\ q.pc = "commit" => row[q.token] = "live"
  /\ q.op \in {"reset", "verify"} /\ "link" \notin q.crossed => row[q.token] = "live"
  /\ q.op \in {"login", "reset", "forgot", "resend"} /\ Concern(q.op) \notin q.crossed =>
       /\ q.pc = "strike" => Open(Swept(q.op)) \subseteq q.found
       /\ q.pc = "commit" => Open(Swept(q.op)) \subseteq q.held

(* Two requests: neither has what the other has updated or will insert.     *)
Apart(q, r) ==
  /\ q.held \cap r.held = {}
  /\ q.new = r.new => q.new = NoRow
  /\ ~ (q.op = "register" /\ q.pc = "commit" /\ r.op = "register" /\ r.pc = "commit")

SessionsInv ==
  /\ SessionsTypeOK
  /\ \A c \in Client : Stage(request[c]) /\ Stands(request[c])
  /\ \A c \in Client : \A e \in Others(c) : Apart(request[c], request[e])
  /\ former \subseteq Open(Session)
  /\ IsFiniteSet(Open(Session))
  /\ ~account => \A x \in Secret : row[x] = "absent"

USE SessionsAssumption

------------------------------------------------------------------------------
(* A step that only moves one request.                                      *)
LEMMA RequestMoves ==
  ASSUME SessionsInv, NEW c \in Client, NEW q \in Request,
         Stage(q), Stands(q), \A e \in Others(c) : Apart(q, request[e]),
         RequestGoes(c, q)
  PROVE  SessionsInv'
<1>1. /\ request' = [request EXCEPT ![c] = q]
      /\ account' = account /\ verified' = verified /\ row' = row /\ former' = former
  BY DEF RequestGoes, tables
<1>2. /\ request \in [Client -> Request]
      /\ \A e \in Client : request'[e] = IF e = c THEN q ELSE request[e]
  BY <1>1 DEF SessionsInv, SessionsTypeOK
<1>3. SessionsTypeOK'
  BY <1>1, <1>2 DEF SessionsInv, SessionsTypeOK
<1>4. ASSUME NEW e \in Client PROVE Stage(request[e])' /\ Stands(request[e])'
  <2>1. CASE e = c
    BY <1>1, <1>2, <2>1 DEF Stands, Open, Stage, Swept
  <2>2. CASE e # c
    BY <1>1, <1>2, <2>2 DEF SessionsInv, Stands, Open, Stage, Swept
  <2> QED BY <2>1, <2>2
<1>5. ASSUME NEW e \in Client, NEW f \in Others(e) PROVE Apart(request[e], request[f])'
  <2>1. e # f /\ f \in Client
    BY DEF Others
  <2>2. CASE e = c
    BY <1>2, <1>5, <2>1, <2>2 DEF Apart
  <2>3. CASE f = c
    <3>1. e \in Others(c)
      BY <2>1, <2>3 DEF Others
    <3>2. Apart(q, request[e]) /\ request'[e] = request[e] /\ request'[f] = q
      BY <1>2, <2>1, <2>3, <3>1
    <3> QED BY <3>2 DEF Apart
  <2>4. CASE e # c /\ f # c
    BY <1>2, <1>5, <2>1, <2>4 DEF SessionsInv, Apart
  <2> QED BY <2>2, <2>3, <2>4
<1> QED BY <1>1, <1>3, <1>4, <1>5 DEF SessionsInv, Open, Stage, Swept, Apart, Others

(* A request begins with nothing but the token it was sent.                 *)
LEMMA BeginKeeps ==
  ASSUME SessionsInv, NEW c \in Client, NEW op, NEW pc, NEW x, BeginRequest(c, op, pc, x),
         \/ op = "register" /\ pc = "insert" /\ x = NoRow
         \/ account /\ op \in {"login", "forgot", "resend"} /\ pc = "scan" /\ x = NoRow
         \/ op \in {"refresh", "logout"} /\ pc = "take" /\ x \in Session /\ row[x] # "absent"
         \/ op = "reset" /\ pc = "write" /\ x \in PasswordLink /\ row[x] = "live"
         \/ op = "verify" /\ pc = "write" /\ x \in VerifyLink /\ row[x] = "live"
  PROVE  SessionsInv'
<1> DEFINE q == [Idle EXCEPT !.op = op, !.pc = pc, !.token = x,
                             !.seen = IF op = "refresh" THEN row[x] ELSE @]
<1>1. /\ q.op = op /\ q.pc = pc /\ q.token = x /\ q.found = {} /\ q.held = {}
      /\ q.new = NoRow /\ q.crossed = {}
  BY DEF Idle
<1>2. RequestGoes(c, q)
  BY DEF BeginRequest
<1>3. q \in Request
  <2>1. row \in [Secret -> RowState]
    BY DEF SessionsInv, SessionsTypeOK
  <2>2. (IF op = "refresh" THEN row[x] ELSE "absent") \in RowState
    BY <2>1 DEF RowState, Secret
  <2>3. op \in RequestOp /\ pc \in PC /\ x \in Secret \cup {NoRow}
    BY DEF RequestOp, PC, Secret, Link
  <2> QED BY <2>2, <2>3 DEF Request, Idle
<1> HIDE DEF q
<1>4. Stage(q)
  BY <1>1 DEF Stage
<1>5. Stands(q)
  <2>1. op # "register" => account
    BY DEF SessionsInv, Secret, Link
  <2> QED BY <1>1, <2>1 DEF Stands, Secret, Link
<1>6. \A e \in Others(c) : Apart(q, request[e])
  BY <1>1 DEF Apart
<1> QED BY <1>2, <1>3, <1>4, <1>5, <1>6, RequestMoves

(* A request that ends without a commit leaves nothing behind.              *)
LEMMA EndKeeps ==
  ASSUME SessionsInv, NEW c \in Client, RequestGoes(c, Idle)
  PROVE  SessionsInv'
<1>1. Idle \in Request
  BY DEF Idle, Request, RequestOp, PC, RowState
<1>2. Stage(Idle) /\ Stands(Idle) /\ \A e \in Others(c) : Apart(Idle, request[e])
  BY DEF Idle, Stage, Stands, Apart
<1> QED BY <1>1, <1>2, RequestMoves

(* A token id that is drawn is nobody else's.                               *)
LEMMA DrawnIsNew ==
  ASSUME NEW rows, NEW x \in Drawn(rows)
  PROVE  x \in rows /\ row[x] = "absent" /\ \A e \in Client : request[e].new # x
BY DEF Drawn

(* What the request of c is, field by field.                                *)
LEMMA InRequest ==
  ASSUME SessionsInv, NEW c \in Client
  PROVE  /\ request[c] \in Request
         /\ Stage(request[c]) /\ Stands(request[c])
         /\ \A e \in Others(c) : Apart(request[c], request[e])
         /\ row \in [Secret -> RowState]
BY DEF SessionsInv, SessionsTypeOK

------------------------------------------------------------------------------
(* register.                                                                *)
LEMMA InsertAccountKeeps ==
  ASSUME SessionsInv, NEW c \in Client, InsertAccount(c)
  PROVE  SessionsInv'
<1>1. CASE account
  BY <1>1, EndKeeps DEF InsertAccount
<1>2. CASE ~account
  <2>1. PICK l \in Drawn(VerifyLink) :
          RequestGoes(c, [request[c] EXCEPT !.pc = "commit", !.new = l])
    BY <1>2 DEF InsertAccount
  <2> DEFINE q == [request[c] EXCEPT !.pc = "commit", !.new = l]
  <2>2. request[c].pc = "insert" /\ WaitsFor(c) = {}
    BY DEF InsertAccount, At
  <2>3. request[c].op = "register"
    BY <2>2, InRequest DEF Stage, Request, RequestOp, Idle
  <2>4. /\ q.op = "register" /\ q.pc = "commit" /\ q.token = NoRow /\ q.found = {}
        /\ q.held = {} /\ q.new = l /\ q \in Request
    <3>1. request[c] \in Request /\ l \in Secret /\ "commit" \in PC
      BY InRequest, DrawnIsNew DEF PC, Secret, Link
    <3>2. request[c].token = NoRow /\ request[c].held = {} /\ request[c].found = {}
      BY <2>2, <2>3, InRequest DEF Stage
    <3> QED BY <2>3, <3>1, <3>2 DEF Request
  <2> HIDE DEF q
  <2>5. Stage(q) /\ Stands(q)
    BY <1>2, <2>4, DrawnIsNew DEF Stage, Stands
  <2>6. ASSUME NEW e \in Others(c) PROVE Apart(q, request[e])
    <3>1. e \notin WaitsFor(c)
      BY <2>2
    <3>2. ~ (request[e].op = "register" /\ request[e].pc = "commit")
      BY <2>2, <3>1 DEF WaitsFor
    <3>3. request[e].new # l
      BY DrawnIsNew DEF Others
    <3> QED BY <2>4, <3>2, <3>3 DEF Apart
  <2> QED BY <2>1, <2>4, <2>5, <2>6, RequestMoves DEF q
<1> QED BY <1>1, <1>2

------------------------------------------------------------------------------
(* The UPDATEs.  Who may go on waits for nobody: no other request has a row *)
(* that it needs.                                                           *)
LEMMA NeedsAreFree ==
  ASSUME NEW c \in Client, NEW e \in Others(c), WaitsFor(c) = {}
  PROVE  request[e].held \cap Needs(c) = {}
<1>1. e \notin WaitsFor(c)
  OBVIOUS
<1> QED BY <1>1 DEF WaitsFor

LEMMA TakeRefreshKeeps ==
  ASSUME SessionsInv, NEW c \in Client, TakeRefresh(c)
  PROVE  SessionsInv'
<1> DEFINE r == request[c]
<1>1. r.pc = "take" /\ r.op = "refresh" /\ WaitsFor(c) = {}
  BY DEF TakeRefresh, At
<1>2. r.token \in Session /\ r.held = {} /\ r.new = NoRow /\ r.found = {}
  BY <1>1, InRequest DEF Stage
<1>3. CASE \E s \in Drawn(Session) :
             /\ row[r.token] = "live"
             /\ RequestGoes(c, [r EXCEPT !.pc = "commit", !.held = {r.token}, !.new = s])
  <2>1. PICK s \in Drawn(Session) :
          /\ row[r.token] = "live"
          /\ RequestGoes(c, [r EXCEPT !.pc = "commit", !.held = {r.token}, !.new = s])
    BY <1>3
  <2> DEFINE q == [r EXCEPT !.pc = "commit", !.held = {r.token}, !.new = s]
  <2>2. /\ q.op = "refresh" /\ q.pc = "commit" /\ q.token = r.token /\ q.found = {}
        /\ q.held = {r.token} /\ q.new = s /\ q \in Request
    <3>1. r \in Request /\ s \in Secret /\ r.token \in Secret /\ "commit" \in PC
      BY <1>2, InRequest, DrawnIsNew DEF PC, Secret, Link
    <3> QED BY <1>1, <1>2, <3>1 DEF Request
  <2> HIDE DEF q
  <2>3. Stage(q)
    BY <1>2, <2>2, DrawnIsNew DEF Stage
  <2>4. Stands(q)
    <3>1. account
      BY <1>1, InRequest DEF Stands
    <3> QED BY <1>2, <2>1, <2>2, <3>1, DrawnIsNew DEF Stands
  <2>5. ASSUME NEW e \in Others(c) PROVE Apart(q, request[e])
    <3>1. r.token \notin request[e].held
      BY <1>1, NeedsAreFree DEF Needs
    <3>2. request[e].new # s
      BY DrawnIsNew DEF Others
    <3> QED BY <2>2, <3>1, <3>2 DEF Apart
  <2> QED BY <2>1, <2>2, <2>3, <2>4, <2>5, RequestMoves DEF q
<1>4. CASE RequestGoes(c, [r EXCEPT !.pc = "read"])
  <2> DEFINE q == [r EXCEPT !.pc = "read"]
  <2>1. /\ q.op = "refresh" /\ q.pc = "read" /\ q.token = r.token /\ q.found = {}
        /\ q.held = {} /\ q.new = NoRow /\ q \in Request
    BY <1>1, <1>2, InRequest DEF Request, PC
  <2> HIDE DEF q
  <2>2. Stage(q)
    BY <1>2, <2>1 DEF Stage
  <2>3. Stands(q)
    BY <1>1, <2>1, InRequest DEF Stands
  <2>4. \A e \in Others(c) : Apart(q, request[e])
    BY <2>1 DEF Apart
  <2> QED BY <1>4, <2>1, <2>2, <2>3, <2>4, RequestMoves DEF q
<1> QED BY <1>3, <1>4 DEF TakeRefresh

LEMMA ReadLostKeeps ==
  ASSUME SessionsInv, NEW c \in Client, ReadLost(c)
  PROVE  SessionsInv'
<1> DEFINE r == request[c]
<1>1. r.pc = "read" /\ r.op = "refresh"
  BY InRequest DEF ReadLost, At, Stage, Request, RequestOp, Idle
<1>2. r.token \in Session /\ r.held = {} /\ r.new = NoRow /\ r.found = {}
  BY <1>1, InRequest DEF Stage
<1>3. CASE RequestGoes(c, [r EXCEPT !.pc = "scan"])
  <2> DEFINE q == [r EXCEPT !.pc = "scan"]
  <2>1. /\ q.op = "refresh" /\ q.pc = "scan" /\ q.token = r.token /\ q.found = {}
        /\ q.held = {} /\ q.new = NoRow /\ q \in Request
    BY <1>1, <1>2, InRequest DEF Request, PC
  <2> HIDE DEF q
  <2>2. Stage(q)
    BY <1>2, <2>1 DEF Stage
  <2>3. Stands(q)
    BY <1>1, <2>1, InRequest DEF Stands
  <2>4. \A e \in Others(c) : Apart(q, request[e])
    BY <2>1 DEF Apart
  <2> QED BY <1>3, <2>1, <2>2, <2>3, <2>4, RequestMoves DEF q
<1> QED BY <1>3, EndKeeps DEF ReadLost

LEMMA TakeLogoutKeeps ==
  ASSUME SessionsInv, NEW c \in Client, TakeLogout(c)
  PROVE  SessionsInv'
<1> DEFINE r == request[c]
           q == [r EXCEPT !.pc = "commit", !.held = {s \in {r.token} : row[s] = "live"}]
<1>1. r.pc = "take" /\ r.op = "logout" /\ WaitsFor(c) = {} /\ RequestGoes(c, q)
  BY DEF TakeLogout, At
<1>2. r.token \in Session /\ r.new = NoRow /\ r.found = {}
  BY <1>1, InRequest DEF Stage
<1>3. /\ q.op = "logout" /\ q.pc = "commit" /\ q.token = r.token /\ q.found = {}
      /\ q.held = {s \in {r.token} : row[s] = "live"} /\ q.new = NoRow
  BY <1>1, <1>2, InRequest DEF Request
<1>4. q \in Request
  <2>1. {s \in {r.token} : row[s] = "live"} \in SUBSET (Secret \cup {"user"})
    BY <1>2 DEF Secret
  <2> QED BY <1>1, <2>1, InRequest DEF Request, PC
<1> HIDE DEF q
<1>5. Stage(q)
  <2>1. q.held \subseteq {q.token} /\ q.token \in Session
    BY <1>2, <1>3
  <2>2. q.op \notin {"none", "register", "login", "forgot", "resend", "refresh", "reset", "verify"}
    BY <1>3
  <2> QED BY <1>3, <2>1, <2>2 DEF Stage
<1>6. Stands(q)
  BY <1>1, <1>3, InRequest DEF Stands
<1>7. ASSUME NEW e \in Others(c) PROVE Apart(q, request[e])
  <2>1. r.token \notin request[e].held
    BY <1>1, NeedsAreFree DEF Needs
  <2> QED BY <1>3, <2>1 DEF Apart
<1> QED BY <1>1, <1>4, <1>5, <1>6, <1>7, RequestMoves

LEMMA WriteKeeps ==
  ASSUME SessionsInv, NEW c \in Client, Write(c)
  PROVE  SessionsInv'
<1> DEFINE r == request[c]
           mine == {r.token} \cup (IF r.op = "verify" /\ verified THEN {} ELSE {"user"})
           q == [r EXCEPT !.pc = IF r.op = "reset" THEN "scan" ELSE "commit", !.held = mine]
<1>1. r.pc = "write" /\ WaitsFor(c) = {} /\ RequestGoes(c, q)
  BY DEF Write, At
<1>2. r.op \in {"reset", "verify"}
  BY <1>1, InRequest DEF Stage, Request, RequestOp, Idle
<1>3. /\ r.token \in Link /\ r.token # NoRow /\ r.new = NoRow /\ r.found = {} /\ account
      /\ r.op = "reset" => r.token \in PasswordLink
      /\ r.op = "verify" => r.token \in VerifyLink
  BY <1>1, <1>2, InRequest DEF Stage, Stands, Link, Secret
<1>4. /\ q.op = r.op /\ q.pc = (IF r.op = "reset" THEN "scan" ELSE "commit")
      /\ q.token = r.token /\ q.found = {} /\ q.held = mine /\ q.new = NoRow
      /\ q.crossed = r.crossed
  BY <1>1, <1>3, InRequest DEF Request
<1>5. mine \subseteq {r.token, "user"}
  OBVIOUS
<1>6. q \in Request
  <2>1. mine \in SUBSET (Secret \cup {"user"}) /\ {"scan", "commit"} \subseteq PC
    BY <1>3, <1>5 DEF Secret, PC
  <2> HIDE DEF mine
  <2> QED BY <1>1, <2>1, InRequest DEF Request
<1> HIDE DEF q, mine
<1>7. Stage(q)
  BY <1>2, <1>3, <1>4, <1>5 DEF Stage
<1>8. Stands(q)
  <2>1. row[r.token] # "absent" /\ ("link" \notin r.crossed => row[r.token] = "live")
    BY <1>2, <1>3, InRequest DEF Stands
  <2> QED BY <1>2, <1>3, <1>4, <1>5, <2>1 DEF Stands
<1>9. ASSUME NEW e \in Others(c) PROVE Apart(q, request[e])
  <2>1. request[e].held \cap {r.token, "user"} = {}
    BY <1>1, NeedsAreFree DEF Needs
  <2> QED BY <1>2, <1>4, <1>5, <2>1 DEF Apart
<1> QED BY <1>1, <1>6, <1>7, <1>8, <1>9, RequestMoves

(* Whoever sweeps has nothing of what it sweeps before the sweep.           *)
LEMMA InSweep ==
  ASSUME SessionsInv, NEW c \in Client, request[c].pc \in {"scan", "strike"}
  PROVE  /\ request[c].op \in {"login", "forgot", "resend", "refresh", "reset"}
         /\ request[c].new = NoRow /\ account
         /\ request[c].op # "reset" => request[c].held = {}
         /\ Swept(request[c].op) \subseteq Secret
         /\ request[c].op \in {"refresh", "reset", "login"} => Swept(request[c].op) = Session
<1>1. request[c].op \in {"login", "forgot", "resend", "refresh", "reset"}
  BY InRequest DEF Stage, Request, RequestOp, Idle
<1>2. request[c].new = NoRow /\ (request[c].op # "reset" => request[c].held = {})
  <2>1. CASE request[c].op = "reset"
    BY <2>1, InRequest DEF Stage
  <2>2. CASE request[c].op = "refresh"
    BY <2>2, InRequest DEF Stage
  <2>3. CASE request[c].op \in {"login", "forgot", "resend"}
    BY <2>3, InRequest DEF Stage
  <2> QED BY <1>1, <2>1, <2>2, <2>3
<1>3. account
  BY <1>1, InRequest DEF Stands
<1> QED BY <1>1, <1>2, <1>3 DEF Swept, Secret, Link

LEMMA ScanKeeps ==
  ASSUME SessionsInv, NEW c \in Client, Scan(c)
  PROVE  SessionsInv'
<1> DEFINE r == request[c]
           seen == {x \in Swept(r.op) : row[x] = "live"}
           q == [r EXCEPT !.pc = "strike", !.found = seen]
<1>1. r.pc = "scan" /\ RequestGoes(c, q)
  BY DEF Scan, At
<1>2. /\ r.op \in {"login", "forgot", "resend", "refresh", "reset"} /\ r.new = NoRow
      /\ r.op # "reset" => r.held = {}
      /\ seen \in SUBSET Secret
  BY <1>1, InSweep
<1>3. /\ q.op = r.op /\ q.pc = "strike" /\ q.token = r.token /\ q.found = seen
      /\ q.held = r.held /\ q.new = NoRow /\ q.crossed = r.crossed
  BY <1>2, InRequest DEF Request
<1>4. q \in Request
  <2> HIDE DEF seen
  <2> QED BY <1>2, InRequest DEF Request, PC
<1> HIDE DEF q
<1>5. Stage(q)
  <2>1. seen \subseteq Swept(r.op)
    OBVIOUS
  <2>2. Stage(r)
    BY InRequest
  <2> HIDE DEF seen
  <2>3. CASE r.op \in {"login", "forgot", "resend"}
    BY <1>1, <1>2, <1>3, <2>1, <2>2, <2>3 DEF Stage
  <2>4. CASE r.op = "refresh"
    BY <1>1, <1>2, <1>3, <2>1, <2>2, <2>4 DEF Stage
  <2>5. CASE r.op = "reset"
    BY <1>1, <1>2, <1>3, <2>1, <2>2, <2>5 DEF Stage
  <2> QED BY <1>2, <2>3, <2>4, <2>5
<1>6. Stands(q)
  <2>1. Open(Swept(r.op)) \subseteq seen
    BY DEF Open
  <2>2. Stands(r)
    BY InRequest
  <2> HIDE DEF seen
  <2> QED BY <1>1, <1>2, <1>3, <2>1, <2>2 DEF Stands
<1>7. \A e \in Others(c) : Apart(q, request[e])
  BY <1>2, <1>3, InRequest DEF Apart
<1> QED BY <1>1, <1>4, <1>5, <1>6, <1>7, RequestMoves

LEMMA StrikeKeeps ==
  ASSUME SessionsInv, NEW c \in Client, Strike(c)
  PROVE  SessionsInv'
<1> DEFINE r == request[c]
           struck == {y \in r.found : row[y] = "live"}
           pc == IF r.op = "refresh" THEN "raise" ELSE "commit"
<1>1. r.pc = "strike" /\ WaitsFor(c) = {}
  BY DEF Strike, At
<1>2. PICK x \in Inserts(r.op) :
        RequestGoes(c, [r EXCEPT !.pc = pc, !.held = @ \cup struck, !.found = {}, !.new = x])
  BY DEF Strike
<1> DEFINE q == [r EXCEPT !.pc = pc, !.held = r.held \cup struck, !.found = {}, !.new = x]
<1>3. /\ r.op \in {"login", "forgot", "resend", "refresh", "reset"} /\ r.new = NoRow /\ account
      /\ r.op # "reset" => r.held = {}
      /\ Swept(r.op) \subseteq Secret
      /\ r.op \in {"refresh", "reset", "login"} => Swept(r.op) = Session
  BY <1>1, InSweep
<1>4. r.found \subseteq Swept(r.op) /\ struck \subseteq r.found
  BY <1>1, InRequest DEF Stage
<1>5. CASE r.op \in {"login", "forgot", "resend"}
  <2>1. x \in Drawn(Swept(r.op))
    BY <1>5 DEF Inserts, Swept
  <2>2. x \in Swept(r.op) /\ row[x] = "absent" /\ \A e \in Client : request[e].new # x
    BY <2>1, DrawnIsNew
  <2>3. /\ q.op = r.op /\ q.pc = "commit" /\ q.token = NoRow /\ q.found = {}
        /\ q.held = struck /\ q.new = x /\ q.crossed = r.crossed
    <3>1. r.token = NoRow
      BY <1>5, InRequest DEF Stage
    <3> HIDE DEF struck
    <3> QED BY <1>3, <1>5, <3>1, InRequest DEF Request
  <2>4. q \in Request
    <3>1. struck \in SUBSET Secret /\ x \in Secret /\ pc \in PC
      BY <1>3, <1>4, <2>2 DEF PC
    <3> HIDE DEF struck, pc
    <3> QED BY <1>3, <1>5, <3>1, InRequest DEF Request
  <2> HIDE DEF q
  <2>5. Stage(q)
    BY <1>4, <1>5, <2>2, <2>3 DEF Stage
  <2>6. Stands(q)
    <3>1. Concern(r.op) \notin r.crossed => Open(Swept(r.op)) \subseteq struck
      BY <1>1, <1>5, InRequest DEF Stands, Open
    <3> QED BY <1>3, <1>5, <2>2, <2>3, <3>1 DEF Stands
  <2>7. ASSUME NEW e \in Others(c) PROVE Apart(q, request[e])
    <3>1. request[e].held \cap r.found = {}
      BY <1>1, NeedsAreFree DEF Needs
    <3>2. request[e].new # x
      BY <2>2 DEF Others
    <3> QED BY <1>4, <1>5, <2>3, <3>1, <3>2 DEF Apart
  <2> QED BY <1>2, <2>4, <2>5, <2>6, <2>7, RequestMoves DEF q
<1>6. CASE r.op \in {"refresh", "reset"}
  <2>1. x = NoRow
    BY <1>2, <1>6 DEF Inserts
  <2>2. /\ q.op = r.op /\ q.pc = pc /\ q.token = r.token /\ q.found = {}
        /\ q.held = r.held \cup struck /\ q.new = NoRow /\ q.crossed = r.crossed
    <3> HIDE DEF struck, pc
    <3> QED BY <2>1, InRequest DEF Request
  <2>3. q \in Request
    <3>1. struck \in SUBSET Secret /\ pc \in PC
      BY <1>3, <1>4 DEF PC
    <3> HIDE DEF struck, pc
    <3> QED BY <2>1, <3>1, InRequest DEF Request
  <2> HIDE DEF q
  <2>4. struck \subseteq Session
    BY <1>3, <1>4, <1>6
  <2>5. Stage(q)
    <3>1. /\ r.held \subseteq Session \cup {r.token, "user"}
          /\ r.op = "refresh" => r.held = {}
      BY <1>3, <1>6, InRequest DEF Stage
    <3>2. /\ r.op = "refresh" => r.token \in Session
          /\ r.op = "reset" => r.token \in PasswordLink
      BY <1>6, InRequest DEF Stage
    <3> QED BY <1>3, <1>6, <2>2, <2>4, <3>1, <3>2 DEF Stage
  <2>6. Stands(q)
    <3>1. Concern(r.op) \notin r.crossed /\ r.op = "reset" => Open(Swept(r.op)) \subseteq struck
      BY <1>1, <1>6, InRequest DEF Stands, Open
    <3>2. Stands(r)
      BY InRequest
    <3>3. \A y \in struck : row[y] = "live"
      OBVIOUS
    <3> HIDE DEF struck
    <3> QED BY <1>3, <1>6, <2>2, <3>1, <3>2, <3>3 DEF Stands
  <2>7. ASSUME NEW e \in Others(c) PROVE Apart(q, request[e])
    <3>1. request[e].held \cap r.found = {}
      BY <1>1, NeedsAreFree DEF Needs
    <3>2. request[e].held \cap r.held = {}
      BY InRequest DEF Apart
    <3> QED BY <1>4, <1>6, <2>2, <3>1, <3>2 DEF Apart
  <2> QED BY <1>2, <2>3, <2>5, <2>6, <2>7, RequestMoves DEF q
<1> QED BY <1>3, <1>5, <1>6

------------------------------------------------------------------------------
(* A commit, and the grace that passes.                                     *)

(* What the commit of c leaves: of the tokens, of the others.               *)
LEMMA CommitLeaves ==
  ASSUME SessionsInv, NEW c \in Client, Commit(c)
  PROVE  /\ request[c].pc = "commit"
         /\ request[c].op \in {"register", "login", "refresh", "logout", "forgot", "reset",
                               "resend", "verify"}
         /\ account' = (account \/ request[c].op = "register")
         /\ verified' = (verified \/ request[c].op = "verify")
         /\ \A x \in Secret :
              row'[x] = IF x \in request[c].held THEN "spent"
                        ELSE IF x = request[c].new THEN "live" ELSE row[x]
         /\ row' \in [Secret -> RowState]
         /\ request'[c] = Idle
         /\ \A e \in Others(c) : request'[e] = CrossedBy(e, request[c].op)
         /\ request' \in [Client -> Request]
<1> DEFINE q == request[c]
<1>1. /\ q.pc = "commit"
      /\ account' = (account \/ q.op = "register")
      /\ verified' = (verified \/ q.op = "verify")
      /\ row' = [x \in Secret |-> CASE x \in q.held -> "spent" [] x = q.new -> "live"
                                    [] OTHER -> row[x]]
      /\ request' = [e \in Client |-> IF e = c THEN Idle ELSE CrossedBy(e, q.op)]
  BY DEF Commit, At
<1>2. q.op \in {"register", "login", "refresh", "logout", "forgot", "reset", "resend", "verify"}
  BY <1>1, InRequest DEF Stage, Request, RequestOp, Idle
<1>3. \A x \in Secret :
        row'[x] = IF x \in q.held THEN "spent" ELSE IF x = q.new THEN "live" ELSE row[x]
  <2> TAKE x \in Secret
  <2>1. ~ (x \in q.held /\ x = q.new)
    BY InRequest DEF Stands
  <2>2. row'[x] = CASE x \in q.held -> "spent" [] x = q.new -> "live" [] OTHER -> row[x]
    BY <1>1
  <2>3. CASE x \in q.held
    BY <2>1, <2>2, <2>3
  <2>4. CASE x \notin q.held /\ x = q.new
    BY <2>2, <2>4
  <2>5. CASE x \notin q.held /\ x # q.new
    BY <2>2, <2>5
  <2> QED BY <2>3, <2>4, <2>5
<1>4. row' \in [Secret -> RowState]
  <2>1. row' = [x \in Secret |-> row'[x]]
    BY <1>1
  <2>2. \A x \in Secret : row'[x] \in RowState
    BY <1>3, InRequest DEF RowState
  <2> QED BY <2>1, <2>2
<1>5. request' \in [Client -> Request]
  <2>1. Idle \in Request
    BY DEF Idle, Request, RequestOp, PC, RowState
  <2>2. \A e \in Client : CrossedBy(e, q.op) \in Request
    BY InRequest DEF CrossedBy, Request
  <2> QED BY <1>1, <2>1, <2>2
<1> QED BY <1>1, <1>2, <1>3, <1>4, <1>5 DEF Others

(* Only what a commit has crossed it in changes for another request.        *)
LEMMA CrossedFields ==
  ASSUME SessionsInv, NEW e \in Client, NEW op
  PROVE  LET r == request[e] s == CrossedBy(e, op) IN
         /\ s.op = r.op /\ s.pc = r.pc /\ s.token = r.token /\ s.found = r.found
         /\ s.held = r.held /\ s.new = r.new
         /\ s.crossed = r.crossed \cup {m \in Matter : {op, r.op} \in SameUse[m]}
         /\ r.op = "none" => r = Idle
BY InRequest DEF CrossedBy, Request, Stage

(* The operations that cross one another.                                   *)
LEMMA CrossingTable ==
  /\ {"login", "login"} \in SameUse["session"]
  /\ {"refresh", "login"} \in SameUse["session"]
  /\ {"login", "reset"} \in SameUse["password"]
  /\ {"refresh", "reset"} \in SameUse["password"]
  /\ {"reset", "reset"} \in SameUse["link"]
  /\ {"forgot", "forgot"} \in SameUse["link"]
  /\ {"forgot", "reset"} \in SameUse["link"]
  /\ {"reset", "forgot"} \in SameUse["link"]
  /\ {"verify", "verify"} \in SameUse["link"]
  /\ {"resend", "resend"} \in SameUse["link"]
  /\ {"resend", "verify"} \in SameUse["link"]
  /\ {"verify", "resend"} \in SameUse["link"]
BY DEF SameUse

(* Nothing crosses a request that is not there.                             *)
LEMMA IdleStays ==
  ASSUME SessionsInv, NEW e \in Client, request[e].op = "none", NEW op
  PROVE  CrossedBy(e, op) = Idle
<1>1. request[e] = Idle
  BY InRequest DEF Stage
<1>2. \A m \in Matter : {op, "none"} \notin SameUse[m]
  BY DEF Matter, SameUse
<1>3. {m \in Matter : {op, Idle.op} \in SameUse[m]} = {}
  BY <1>2 DEF Idle
<1>4. CrossedBy(e, op) = [Idle EXCEPT !.crossed = {}]
  BY <1>1, <1>3 DEF CrossedBy, Idle
<1> QED BY <1>4 DEF Idle

(* Which operations insert a token of a kind, and which spend one.          *)
LEMMA WhoWrites ==
  ASSUME SessionsInv, NEW c \in Client, request[c].pc = "commit", NEW x \in Secret
  PROVE  /\ x = request[c].new /\ x \in Session => request[c].op \in {"login", "refresh"}
         /\ x = request[c].new /\ x \in PasswordLink => request[c].op = "forgot"
         /\ x = request[c].new /\ x \in VerifyLink => request[c].op \in {"resend", "register"}
         /\ x \in request[c].held /\ x \in PasswordLink => request[c].op \in {"forgot", "reset"}
         /\ x \in request[c].held /\ x \in VerifyLink => request[c].op \in {"resend", "verify"}
<1> DEFINE q == request[c]
<1>1. q.op \in {"register", "login", "refresh", "logout", "forgot", "reset", "resend", "verify"}
  BY InRequest DEF Stage, Request, RequestOp, Idle
<1>2. /\ Session \cap PasswordLink = {} /\ Session \cap VerifyLink = {}
      /\ PasswordLink \cap VerifyLink = {} /\ NoRow \notin Secret /\ "user" \notin Secret
  BY DEF Link
<1>3. Stage(q)
  BY InRequest
<1>4. CASE q.op = "register"
  BY <1>2, <1>3, <1>4 DEF Stage
<1>5. CASE q.op = "login"
  BY <1>2, <1>3, <1>5 DEF Stage, Swept
<1>6. CASE q.op = "refresh"
  BY <1>2, <1>3, <1>6 DEF Stage
<1>7. CASE q.op = "logout"
  BY <1>2, <1>3, <1>7 DEF Stage
<1>8. CASE q.op = "forgot"
  BY <1>2, <1>3, <1>8 DEF Stage, Swept
<1>9. CASE q.op = "resend"
  BY <1>2, <1>3, <1>9 DEF Stage, Swept
<1>10. CASE q.op \in {"reset", "verify"}
  BY <1>2, <1>3, <1>10 DEF Stage
<1> QED BY <1>1, <1>4, <1>5, <1>6, <1>7, <1>8, <1>9, <1>10

(* What is open after a commit was open before, or is what it inserted.     *)
LEMMA OpenAfter ==
  ASSUME SessionsInv, NEW c \in Client, Commit(c), NEW rows \in SUBSET Secret
  PROVE  Open(rows)' = (Open(rows) \cup (rows \cap {request[c].new})) \ request[c].held
<1>1. \A x \in rows :
        row'[x] = IF x \in request[c].held THEN "spent"
                  ELSE IF x = request[c].new THEN "live" ELSE row[x]
  BY CommitLeaves
<1>2. Open(rows)' = {x \in rows : row'[x] = "live"}
  BY DEF Open
<1> QED BY <1>1, <1>2 DEF Open

(* What another request is after the commit of c.                           *)
LEMMA OthersAfter ==
  ASSUME SessionsInv, NEW c \in Client, Commit(c), NEW e \in Others(c)
  PROVE  /\ e \in Client /\ e # c
         /\ request'[e].op = request[e].op /\ request'[e].pc = request[e].pc
         /\ request'[e].token = request[e].token /\ request'[e].found = request[e].found
         /\ request'[e].held = request[e].held /\ request'[e].new = request[e].new
         /\ request'[e].crossed = request[e].crossed
              \cup {m \in Matter : {request[c].op, request[e].op} \in SameUse[m]}
<1>1. e \in Client /\ e # c
  BY DEF Others
<1>2. request'[e] = CrossedBy(e, request[c].op)
  BY CommitLeaves
<1> QED BY <1>1, <1>2, CrossedFields

(* Another request still stands after the commit of c.                      *)
LEMMA OthersStand ==
  ASSUME SessionsInv, NEW c \in Client, Commit(c), NEW e \in Others(c)
  PROVE  Stands(request[e])'
<1> DEFINE q == request[c]
           r == request[e]
           s == request'[e]
<1>1. /\ e \in Client /\ e # c
      /\ q.pc = "commit" /\ account' = (account \/ q.op = "register")
      /\ \A x \in Secret :
           row'[x] = IF x \in q.held THEN "spent" ELSE IF x = q.new THEN "live" ELSE row[x]
  BY CommitLeaves DEF Others
<1>2. /\ s.op = r.op /\ s.pc = r.pc /\ s.token = r.token /\ s.found = r.found
      /\ s.held = r.held /\ s.new = r.new
      /\ s.crossed = r.crossed \cup {m \in Matter : {q.op, r.op} \in SameUse[m]}
  BY OthersAfter
<1>3. Stage(q) /\ Stands(q) /\ Stage(r) /\ Stands(r) /\ Apart(q, r) /\ r \in Request
  BY <1>1, InRequest
<1>4. s.op = "register" /\ s.pc = "commit" => ~account'
  BY <1>1, <1>2, <1>3 DEF Stands, Apart
<1>5. s.op \notin {"none", "register"} => account'
  BY <1>1, <1>2, <1>3 DEF Stands
<1>6. \A x \in Secret : row[x] # "absent" => row'[x] # "absent"
  BY <1>1
<1>7. s.new # NoRow => row'[s.new] = "absent"
  <2>1. SUFFICES ASSUME r.new # NoRow PROVE row'[r.new] = "absent"
    BY <1>2
  <2>2. r.new \in Secret /\ row[r.new] = "absent"
    BY <1>3, <2>1 DEF Request, Stands
  <2>3. r.new \notin q.held /\ r.new # q.new
    BY <1>3, <2>1, <2>2 DEF Stands, Apart
  <2> QED BY <1>1, <2>2, <2>3
<1>8. s.token # NoRow => row'[s.token] # "absent"
  BY <1>2, <1>3, <1>6 DEF Request, Stands
<1>9. \A x \in s.held : x # "user" => row'[x] # "absent"
  BY <1>2, <1>3, <1>6 DEF Request, Stands
<1>10. s.op = "refresh" /\ s.pc = "commit" => row'[s.token] = "live"
  <2>1. SUFFICES ASSUME r.op = "refresh", r.pc = "commit" PROVE row'[r.token] = "live"
    BY <1>2
  <2>2. r.token \in Session /\ r.token \in r.held /\ row[r.token] = "live"
    BY <1>3, <2>1 DEF Stage, Stands
  <2>3. r.token \in Secret /\ r.token \notin q.held /\ r.token # q.new
    BY <1>3, <2>2 DEF Apart, Stands, Secret
  <2> QED BY <1>1, <2>2, <2>3
<1>11. s.op \in {"reset", "verify"} /\ "link" \notin s.crossed => row'[s.token] = "live"
  <2>1. SUFFICES ASSUME r.op \in {"reset", "verify"}, "link" \notin s.crossed
                 PROVE  row'[r.token] = "live"
    BY <1>2
  <2>2. row[r.token] = "live" /\ {q.op, r.op} \notin SameUse["link"]
    BY <1>2, <1>3, <2>1 DEF Stands, Matter
  <2>3. /\ r.token \in Secret
        /\ r.op = "reset" => r.token \in PasswordLink
        /\ r.op = "verify" => r.token \in VerifyLink
    BY <1>3, <2>1 DEF Stage, Secret, Link
  <2>4. r.token \notin q.held
    BY <1>1, <2>1, <2>2, <2>3, WhoWrites, CrossingTable
  <2>5. r.token # q.new
    BY <1>3, <2>2, <2>3 DEF Stands
  <2> QED BY <1>1, <2>2, <2>3, <2>4, <2>5
<1>12. PICK rows \in SUBSET Secret : rows = Swept(r.op)
  BY DEF Swept, Secret, Link
<1>13. ASSUME s.op \in {"login", "reset", "forgot", "resend"}, Concern(s.op) \notin s.crossed
       PROVE  /\ s.pc = "strike" => Open(rows)' \subseteq s.found
              /\ s.pc = "commit" => Open(rows)' \subseteq s.held
  <2>1. /\ Concern(r.op) \notin r.crossed
        /\ {q.op, r.op} \notin SameUse[Concern(r.op)]
    BY <1>2, <1>13 DEF Concern, Matter
  <2>3. q.new \notin rows
    <3>1. CASE r.op = "login"
      BY <1>1, <1>12, <2>1, <3>1, WhoWrites, CrossingTable DEF Swept, Concern
    <3>2. CASE r.op = "reset"
      BY <1>1, <1>12, <2>1, <3>2, WhoWrites, CrossingTable DEF Swept, Concern
    <3>3. CASE r.op = "forgot"
      BY <1>1, <1>12, <2>1, <3>3, WhoWrites, CrossingTable DEF Swept, Concern
    <3>4. CASE r.op = "resend"
      <4>1. q.op # "register"
        BY <1>1, <1>3, <3>4 DEF Stands
      <4> QED BY <1>1, <1>12, <2>1, <3>4, <4>1, WhoWrites, CrossingTable DEF Swept, Concern
    <3> QED BY <1>2, <1>13, <3>1, <3>2, <3>3, <3>4
  <2>4. Open(rows)' \subseteq Open(rows)
    BY <2>3, OpenAfter
  <2>5. /\ r.pc = "strike" => Open(rows) \subseteq r.found
        /\ r.pc = "commit" => Open(rows) \subseteq r.held
    BY <1>2, <1>3, <1>12, <1>13, <2>1 DEF Stands
  <2> QED BY <1>2, <2>4, <2>5
<1>14. /\ rows = Swept(s.op) /\ Open(rows)' = {x \in Swept(s.op) : row'[x] = "live"}
       /\ (Open(Swept(request[e].op)))' = {x \in Swept(s.op) : row'[x] = "live"}
  BY <1>2, <1>12 DEF Open, Swept
<1>15. s.op \in {"login", "reset", "forgot", "resend"} /\ Concern(s.op) \notin s.crossed =>
         /\ s.pc = "strike" => (Open(Swept(request[e].op)))' \subseteq s.found
         /\ s.pc = "commit" => (Open(Swept(request[e].op)))' \subseteq s.held
  BY <1>13, <1>14
<1> QED BY <1>4, <1>5, <1>7, <1>8, <1>9, <1>10, <1>11, <1>15 DEF Stands, Concern

LEMMA CommitKeeps ==
  ASSUME SessionsInv, NEW c \in Client, Commit(c)
  PROVE  SessionsInv'
<1>1. /\ request[c].pc = "commit" /\ request'[c] = Idle
      /\ account' = (account \/ request[c].op = "register")
      /\ \A e \in Others(c) : request'[e] = CrossedBy(e, request[c].op)
  BY CommitLeaves
<1>2. former' \in SUBSET Session /\ former' \subseteq Open(Session)'
  BY DEF Commit, Open
<1>3. SessionsTypeOK'
  <2>1. account' \in BOOLEAN /\ verified' \in BOOLEAN
    BY CommitLeaves DEF SessionsInv, SessionsTypeOK
  <2> QED BY <1>2, <2>1, CommitLeaves DEF SessionsTypeOK
<1>4. ASSUME NEW e \in Client PROVE Stage(request[e])' /\ Stands(request[e])'
  <2>1. CASE e = c
    BY <1>1, <2>1 DEF Stage, Stands, Idle
  <2>2. CASE e # c
    <3>1. e \in Others(c)
      BY <2>2 DEF Others
    <3>2. Stage(request[e])'
      <4> DEFINE r == request[e]
                 s == request'[e]
      <4>1. /\ s.op = r.op /\ s.pc = r.pc /\ s.token = r.token /\ s.found = r.found
            /\ s.held = r.held /\ s.new = r.new
        BY <3>1, OthersAfter
      <4>2. Stage(r)
        BY InRequest
      <4>3. s.op = "none" => s = Idle
        BY <1>1, <3>1, <4>1, IdleStays
      <4> QED BY <4>1, <4>2, <4>3 DEF Stage, Swept
    <3> QED BY <3>1, <3>2, OthersStand
  <2> QED BY <2>1, <2>2
<1>5. ASSUME NEW e \in Client, NEW f \in Others(e) PROVE Apart(request[e], request[f])'
  <2>1. e # f /\ f \in Client
    BY DEF Others
  <2>2. CASE e = c \/ f = c
    BY <1>1, <2>2 DEF Apart, Idle
  <2>3. CASE e # c /\ f # c
    <3>1. e \in Others(c) /\ f \in Others(c)
      BY <2>1, <2>3 DEF Others
    <3>2. /\ request'[e].op = request[e].op /\ request'[e].pc = request[e].pc
          /\ request'[e].held = request[e].held /\ request'[e].new = request[e].new
      BY <3>1, OthersAfter
    <3>3. /\ request'[f].op = request[f].op /\ request'[f].pc = request[f].pc
          /\ request'[f].held = request[f].held /\ request'[f].new = request[f].new
      BY <3>1, OthersAfter
    <3>4. Apart(request[e], request[f])
      BY InRequest
    <3> QED BY <3>2, <3>3, <3>4 DEF Apart
  <2> QED BY <2>2, <2>3
<1>6. IsFiniteSet(Open(Session)')
  <2>1. Open(Session)' \subseteq Open(Session) \cup {request[c].new}
    BY OpenAfter DEF Secret
  <2>2. IsFiniteSet(Open(Session) \cup {request[c].new})
    BY FS_AddElement DEF SessionsInv
  <2> QED BY <2>1, <2>2, FS_Subset
<1>7. account'
  BY <1>1, InRequest, CommitLeaves DEF Stands
<1> QED BY <1>2, <1>3, <1>4, <1>5, <1>6, <1>7 DEF SessionsInv, Open, Others

LEMMA AgeKeeps ==
  ASSUME SessionsInv, NEW s \in Session, Age(s)
  PROVE  SessionsInv'
<1>1. /\ row[s] = "spent" /\ row' = [row EXCEPT ![s] = "aged"] /\ s \in Secret
      /\ account' = account /\ verified' = verified /\ request' = request /\ former' = former
  BY DEF Age, Secret
<1>2. /\ row' \in [Secret -> RowState]
      /\ \A x \in Secret : row'[x] = IF x = s THEN "aged" ELSE row[x]
  BY <1>1 DEF SessionsInv, SessionsTypeOK, RowState
<1>3. SessionsTypeOK'
  BY <1>1, <1>2 DEF SessionsInv, SessionsTypeOK
<1>4. \A rows \in SUBSET Secret : Open(rows)' = Open(rows)
  BY <1>1, <1>2 DEF Open
<1>5. ASSUME NEW c \in Client PROVE Stands(request[c])'
  <2> DEFINE q == request[c]
  <2>1. Stands(q) /\ Stage(q) /\ q \in Request
    BY InRequest
  <2>2. PICK rows \in SUBSET Secret : rows = Swept(q.op)
    BY DEF Swept, Secret, Link
  <2>3. Open(rows)' = Open(rows) /\ Open(Swept(request[c].op))' = Open(rows)'
    BY <1>1, <1>4, <2>2 DEF Open, Swept
  <2>4. q.new # NoRow => row'[q.new] = "absent"
    BY <1>1, <1>2, <2>1 DEF Stands, Request
  <2>5. q.token # NoRow => row'[q.token] # "absent"
    BY <1>1, <1>2, <2>1 DEF Stands, Request
  <2>6. \A x \in q.held : x # "user" => row'[x] # "absent"
    BY <1>1, <1>2, <2>1 DEF Stands, Request
  <2>7. q.op = "refresh" /\ q.pc = "commit" => row'[q.token] = "live"
    BY <1>1, <1>2, <2>1 DEF Stands, Stage, Secret
  <2>8. q.op \in {"reset", "verify"} /\ "link" \notin q.crossed => row'[q.token] = "live"
    BY <1>1, <1>2, <2>1 DEF Stands, Stage, Secret, Link
  <2>9. q.op \in {"login", "reset", "forgot", "resend"} /\ Concern(q.op) \notin q.crossed =>
          /\ q.pc = "strike" => (Open(Swept(request[c].op)))' \subseteq q.found
          /\ q.pc = "commit" => (Open(Swept(request[c].op)))' \subseteq q.held
    BY <2>1, <2>2, <2>3 DEF Stands
  <2>10. /\ q.op = "register" /\ q.pc = "commit" => ~account'
         /\ q.op \notin {"none", "register"} => account'
    BY <1>1, <2>1 DEF Stands
  <2> QED BY <1>1, <2>4, <2>5, <2>6, <2>7, <2>8, <2>9, <2>10 DEF Stands, Concern
<1>6. Open(Session)' = Open(Session)
  BY <1>4 DEF Secret
<1>7. account
  BY <1>1 DEF SessionsInv
<1> QED BY <1>1, <1>3, <1>5, <1>6, <1>7 DEF SessionsInv, Stage, Apart, Others, Swept

------------------------------------------------------------------------------
LEMMA SessionsStart == SessionsInit => SessionsInv
<1> SUFFICES ASSUME SessionsInit PROVE SessionsInv
  OBVIOUS
<1>1. /\ account = FALSE /\ verified = FALSE /\ former = {}
      /\ row = [x \in Secret |-> "absent"] /\ request = [c \in Client |-> Idle]
  BY DEF SessionsInit
<1>2. Idle \in Request
  BY DEF Idle, Request, RequestOp, PC, RowState
<1>3. SessionsTypeOK
  BY <1>1, <1>2 DEF SessionsTypeOK, RowState
<1>4. \A c \in Client : Stage(request[c]) /\ Stands(request[c])
  BY <1>1 DEF Idle, Stage, Stands
<1>5. \A c \in Client : \A e \in Others(c) : Apart(request[c], request[e])
  BY <1>1 DEF Idle, Apart, Others
<1>6. Open(Session) = {}
  BY <1>1 DEF Open, Secret
<1> QED BY <1>1, <1>3, <1>4, <1>5, <1>6, FS_EmptySet DEF SessionsInv

LEMMA SessionsStep == SessionsInv /\ [SessionsNext]_sessionVars => SessionsInv'
<1> SUFFICES ASSUME SessionsInv, [SessionsNext]_sessionVars PROVE SessionsInv'
  OBVIOUS
<1>1. CASE UNCHANGED sessionVars
  BY <1>1 DEF sessionVars, SessionsInv, SessionsTypeOK, Stage, Stands, Apart, Open, Others,
              Swept, Concern
<1>2. ASSUME NEW c \in Client,
             \/ BeginRegister(c) \/ BeginLogin(c) \/ BeginForgot(c) \/ BeginResend(c)
      PROVE  SessionsInv'
  BY <1>2, BeginKeeps DEF BeginRegister, BeginLogin, BeginForgot, BeginResend
<1>3. ASSUME NEW c \in Client, NEW s \in Session, BeginRefresh(c, s) \/ BeginLogout(c, s)
      PROVE  SessionsInv'
  BY <1>3, BeginKeeps DEF BeginRefresh, BeginLogout
<1>4. ASSUME NEW c \in Client, NEW l \in PasswordLink, BeginReset(c, l)
      PROVE  SessionsInv'
  BY <1>4, BeginKeeps DEF BeginReset
<1>5. ASSUME NEW c \in Client, NEW l \in VerifyLink, BeginVerify(c, l)
      PROVE  SessionsInv'
  BY <1>5, BeginKeeps DEF BeginVerify
<1>6. ASSUME NEW c \in Client, Raise(c) \/ Abort(c)
      PROVE  SessionsInv'
  BY <1>6, EndKeeps DEF Raise, Abort
<1> QED
  BY <1>1, <1>2, <1>3, <1>4, <1>5, <1>6, InsertAccountKeeps, TakeRefreshKeeps, ReadLostKeeps,
     TakeLogoutKeeps, WriteKeeps, ScanKeeps, StrikeKeeps, CommitKeeps, AgeKeeps
     DEF SessionsNext

LEMMA SessionsInvariant == SessionsSpec => []SessionsInv
BY SessionsStart, SessionsStep, PTL DEF SessionsSpec

(* Every variable stays of its type: a request refers to tokens, and holds  *)
(* rows, that there are (auth.py, password_reset_service.py).               *)
THEOREM SessionsTypeCorrect == SessionsSpec => []SessionsTypeOK
<1>1. SessionsInv => SessionsTypeOK
  BY DEF SessionsInv
<1> QED BY <1>1, SessionsInvariant, PTL

------------------------------------------------------------------------------
(* What commits is a commit.                                                *)
LEMMA CommitsIsCommit ==
  ASSUME SessionsInv, SessionsNext, NEW c \in Client, Commits(c)
  PROVE  Commit(c)
<1>1. request[c].pc = "commit" /\ request'[c] = Idle /\ row' # row
  BY DEF Commits
<1>2. Idle.pc = "idle"
  BY DEF Idle
<1>3. PICK e \in Client : Commit(e)
  <2>1. \A s \in Session : ~Age(s)
    BY <1>1, <1>2 DEF Age
  <2> QED BY <1>1, <2>1
       DEF SessionsNext, BeginRegister, InsertAccount, BeginLogin, BeginForgot, BeginResend,
           BeginRefresh, BeginLogout, BeginReset, BeginVerify, BeginRequest, TakeRefresh,
           ReadLost, TakeLogout, Write, Scan, Strike, Raise, Abort, RequestGoes, tables
<1>4. CASE e # c
  <2>1. c \in Others(e)
    BY <1>4 DEF Others
  <2>2. request'[c].pc = request[c].pc
    BY <1>3, <2>1, OthersAfter
  <2> QED BY <1>1, <1>2, <2>2
<1> QED BY <1>3, <1>4

LEMMA ExchangeStep ==
  ASSUME SessionsInv, SessionsNext, NEW c \in Client, Commits(c), request[c].op = "refresh"
  PROVE  row[request[c].token] = "live"
BY InRequest DEF Commits, Stands

(* Of sets of open tokens: a token for a token.                             *)
LEMMA OneForOne ==
  ASSUME NEW S, IsFiniteSet(S), NEW t \in S, NEW n, NEW T \in SUBSET ((S \ {t}) \cup {n})
  PROVE  Cardinality(T) <= Cardinality(S)
<1> DEFINE left == S \ {t}
<1>1. IsFiniteSet(left) /\ Cardinality(left) = Cardinality(S) - 1 /\ Cardinality(S) \in Nat
  BY FS_RemoveElement, FS_CardinalityType
<1>2. /\ IsFiniteSet(left \cup {n})
      /\ Cardinality(left \cup {n}) = Cardinality(left)
           \/ Cardinality(left \cup {n}) = Cardinality(left) + 1
  BY <1>1, FS_AddElement
<1>3. Cardinality(T) \in Nat /\ Cardinality(T) <= Cardinality(left \cup {n})
  BY <1>2, FS_Subset, FS_CardinalityType
<1>4. Cardinality(left \cup {n}) \in Nat /\ Cardinality(left) \in Nat
  BY <1>1, <1>2, FS_CardinalityType
<1> QED BY <1>1, <1>2, <1>3, <1>4

LEMMA SessionStep ==
  ASSUME SessionsInv, SessionsNext, NEW c \in Client, Alone(c, "session")
  PROVE  \/ Cardinality(Open(Session)') <= 1
         \/ Cardinality(Open(Session)') <= Cardinality(Open(Session))
<1> DEFINE q == request[c]
<1>1. Commit(c) /\ q.pc = "commit" /\ "session" \notin q.crossed
  BY CommitsIsCommit DEF Alone, Commits
<1>2. /\ Open(Session)' = (Open(Session) \cup (Session \cap {q.new})) \ q.held
      /\ IsFiniteSet(Open(Session))
  BY <1>1, OpenAfter DEF Secret, SessionsInv
<1>3. CASE q.op = "login"
  <2>1. Open(Session) \subseteq q.held
    BY <1>1, <1>3, InRequest DEF Stands, Concern, Swept
  <2>2. Open(Session)' \subseteq {q.new}
    BY <1>2, <2>1
  <2>3. IsFiniteSet({q.new}) /\ Cardinality({q.new}) = 1
    BY FS_Singleton
  <2> QED BY <2>2, <2>3, FS_Subset
<1>4. CASE q.op = "refresh"
  <2>1. q.token \in Open(Session) /\ q.held = {q.token}
    BY <1>1, <1>4, InRequest DEF Stage, Stands, Open
  <2>2. Open(Session)' \in SUBSET ((Open(Session) \ {q.token}) \cup {q.new})
    BY <1>2, <2>1
  <2> QED BY <1>2, <2>1, <2>2, OneForOne
<1>5. CASE q.op \notin {"login", "refresh"}
  <2>1. q.new \notin Session
    BY <1>1, <1>5, WhoWrites DEF Secret
  <2>2. Open(Session)' \subseteq Open(Session)
    BY <1>2, <2>1
  <2> QED BY <1>2, <2>2, FS_Subset
<1> QED BY <1>3, <1>4, <1>5

LEMMA FormerStep ==
  ASSUME SessionsInv, SessionsNext, NEW c \in Client, Alone(c, "password")
  PROVE  IF request[c].op = "reset" THEN former' = {}
         ELSE Cardinality(former') <= Cardinality(former)
<1> DEFINE q == request[c]
           born == IF \/ q.op = "login" /\ "password" \in q.crossed
                      \/ q.op = "refresh" /\ q.token \in former
                   THEN {q.new} ELSE {}
<1>1. Commit(c) /\ q.pc = "commit" /\ "password" \notin q.crossed
  BY CommitsIsCommit DEF Alone, Commits
<1>2. Open(Session)' = (Open(Session) \cup (Session \cap {q.new})) \ q.held
  BY <1>1, OpenAfter DEF Secret
<1>3. former' = Open(Session)' \cap (IF q.op = "reset" THEN Session ELSE former \cup born)
  BY <1>1 DEF Commit, Open
<1>4. CASE q.op = "reset"
  <2>1. Open(Session) \subseteq q.held
    BY <1>1, <1>4, InRequest DEF Stands, Concern, Swept
  <2>2. q.new \notin Session
    BY <1>1, <1>4, WhoWrites DEF Secret
  <2> QED BY <1>2, <1>3, <1>4, <2>1, <2>2
<1>5. CASE q.op # "reset"
  <2>1. IsFiniteSet(former)
    BY FS_Subset DEF SessionsInv
  <2>2. CASE q.op = "refresh" /\ q.token \in former
    <3>1. q.held = {q.token}
      BY <1>1, <2>2, InRequest DEF Stage
    <3>2. former' \in SUBSET ((former \ {q.token}) \cup {q.new})
      BY <1>2, <1>3, <1>5, <3>1
    <3>3. \A t \in former : \A n : \A T \in SUBSET ((former \ {t}) \cup {n}) :
            Cardinality(T) <= Cardinality(former)
      BY ONLY <2>1, OneForOne
    <3>4. Cardinality(former') <= Cardinality(former)
      BY <2>2, <3>2, <3>3
    <3> QED BY <1>5, <3>4
  <2>3. CASE ~ (q.op = "refresh" /\ q.token \in former)
    <3>1. former' \subseteq former
      BY <1>1, <1>3, <1>5, <2>3
    <3>2. Cardinality(former') <= Cardinality(former)
      BY <2>1, <3>1, FS_Subset
    <3> QED BY <1>5, <3>2
  <2> QED BY <2>2, <2>3
<1> QED BY <1>4, <1>5

LEMMA LinkStep ==
  ASSUME SessionsInv, SessionsNext, NEW c \in Client, Alone(c, "link")
  PROVE  /\ request[c].token \in Link => row[request[c].token] = "live"
         /\ \A links \in {PasswordLink, VerifyLink} :
              Open(links)' \subseteq Open(links) \/ Cardinality(Open(links)') = 1
<1> DEFINE q == request[c]
<1>1. Commit(c) /\ q.pc = "commit" /\ "link" \notin q.crossed
  BY CommitsIsCommit DEF Alone, Commits
<1>2. Stage(q) /\ Stands(q)
  BY InRequest
<1>3. q.token \in Link => row[q.token] = "live"
  <2>1. SUFFICES ASSUME q.token \in Link PROVE q.op \in {"reset", "verify"}
    BY <1>1, <1>2 DEF Stands
  <2>2. q.token \notin Session /\ q.token # NoRow
    BY <2>1 DEF Secret
  <2> QED BY <1>1, <1>2, <2>2, CommitLeaves DEF Stage
<1>4. ASSUME NEW links \in {PasswordLink, VerifyLink}, q.new \in links
      PROVE  Cardinality(Open(links)') = 1
  <2>1. /\ links \in SUBSET Secret
        /\ Open(links)' = (Open(links) \cup (links \cap {q.new})) \ q.held
    BY <1>1, OpenAfter DEF Secret, Link
  <2>2. q.new \notin q.held
    BY <1>2, <1>4, <2>1 DEF Stands
  <2>3. Open(links) \subseteq q.held
    <3>1. CASE q.op = "register"
      BY <1>1, <1>2, <2>1, <3>1 DEF Stands, SessionsInv, Open
    <3>2. CASE q.op # "register"
      <4>1. q.op \in {"forgot", "resend"} /\ links = Swept(q.op)
        BY <1>1, <1>4, <2>1, <3>2, WhoWrites DEF Swept, Link
      <4> QED BY <1>1, <1>2, <4>1 DEF Stands, Concern
    <3> QED BY <3>1, <3>2
  <2>4. Open(links)' = {q.new}
    BY <1>4, <2>1, <2>2, <2>3
  <2> QED BY <2>4, FS_Singleton
<1>5. ASSUME NEW links \in {PasswordLink, VerifyLink}, q.new \notin links
      PROVE  Open(links)' \subseteq Open(links)
  BY <1>1, <1>5, OpenAfter DEF Secret, Link
<1> QED BY <1>3, <1>4, <1>5

(* What a credential is good for: a refresh token is exchanged at most      *)
(* once, a login ends the sessions before it, no session outlives the       *)
(* password it goes back to, a link works once and not after a newer one;   *)
(* but for requests that crossed each other as the four properties say      *)
(* (auth.py, password_reset_service.py, email_verification_service.py).     *)
THEOREM CredentialsAreGoodOnce == SessionsSpec => CredentialsHold
<1>1. SessionsInv /\ [SessionsNext]_sessionVars =>
        [\A c \in Client : Commits(c) /\ request[c].op = "refresh" =>
           row[request[c].token] = "live"]_sessionVars
  BY ExchangeStep
<1>2. SessionsInv /\ [SessionsNext]_sessionVars =>
        [\A c \in Client : Alone(c, "session") =>
           \/ Cardinality(Open(Session)') <= 1
           \/ Cardinality(Open(Session)') <= Cardinality(Open(Session))]_sessionVars
  BY SessionStep
<1>3. SessionsInv /\ [SessionsNext]_sessionVars =>
        [\A c \in Client : Alone(c, "password") =>
           IF request[c].op = "reset" THEN former' = {}
           ELSE Cardinality(former') <= Cardinality(former)]_sessionVars
  BY FormerStep
<1>4. SessionsInv /\ [SessionsNext]_sessionVars =>
        [\A c \in Client : Alone(c, "link") =>
           /\ request[c].token \in Link => row[request[c].token] = "live"
           /\ \A links \in {PasswordLink, VerifyLink} :
                Open(links)' \subseteq Open(links) \/ Cardinality(Open(links)') = 1
        ]_sessionVars
  BY LinkStep
<1> QED BY <1>1, <1>2, <1>3, <1>4, SessionsInvariant, PTL
     DEF SessionsSpec, CredentialsHold, OneExchange, OneSession, NoFormerSession, OneLink

HIDE SessionsAssumption

------------------------------------------------------------------------------
(* Follows, blocks and mutes.                                               *)

(* What a request has at each of its stages.                                *)
ErrandStage(q) ==
  /\ q.pc \in {"look", "sweep", "tell", "commit"} =>
       q.does \in {"add", "drop"} /\ q.in \in Tie /\ q.edge \in Edge
  /\ q.pc \in {"rest", "look", "fill"} => q.adds = {} /\ q.drops = {}
  /\ q.pc = "fill" => q.edge \in Viewer \X {Nobody}
  /\ q.pc \in {"sweep", "tell"} => q.does = "add" /\ q.adds = {<<q.in, q.edge>>} /\ q.drops = {}
  /\ q.pc = "sweep" => q.in = "blocks"
  /\ q.pc = "tell" => q.in = "follows"
  /\ q.pc = "commit" => (q.does = "drop" => q.adds = {})
  /\ q.adds \subseteq {<<q.in, q.edge>>}
  /\ q.tells => q.pc = "commit" /\ q.does = "add" /\ q.in = "follows"

(* The follows between two people.                                          *)
FollowsAt(e) == tie \cap ({"follows"} \X {e, Back(e)})

(* What holds of the tables for a request that none about its people has    *)
(* passed.                                                                  *)
ErrandKnows(q) ==
  /\ q.does = "add" /\ q.in = "follows" /\ q.pc \in {"look", "tell", "commit"} =>
       ~BlockedEitherWay(q.edge)
  /\ q.does = "add" /\ q.in = "blocks" /\ q.pc = "commit" /\ q.adds # {} =>
       FollowsAt(q.edge) \subseteq q.drops
  /\ q.does = "add" /\ q.in = "follows" /\ q.pc = "commit" =>
       rail[q.edge[1]] = {}
  /\ q.tells => Delivers(q.edge)

SocialInv ==
  /\ SocialTypeOK
  /\ \A c \in Caller :
       /\ ErrandStage(errand[c])
       /\ ~errand[c].passed => ErrandKnows(errand[c])

USE SocialAssumption

LEMMA InErrand ==
  ASSUME SocialInv, NEW c \in Caller
  PROVE  /\ errand[c] \in Errand /\ ErrandStage(errand[c])
         /\ ~errand[c].passed => ErrandKnows(errand[c])
         /\ errand = [d \in Caller |-> errand[d]]
BY DEF SocialInv, SocialTypeOK

(* A step that moves one request, and may drop cached pages.                *)
LEMMA ErrandMoves ==
  ASSUME SocialInv, NEW c \in Caller, NEW q \in Errand, ErrandIs(c, q), UNCHANGED tie,
         ErrandStage(q), ~q.passed => ErrandKnows(q)',
         rail' \in [Person -> SUBSET (SUBSET Person)],
         \A p \in Person : rail'[p] \subseteq rail[p]
  PROVE  SocialInv'
<1>1. errand' \in [Caller -> Errand] /\ \A d \in Caller : errand'[d] = IF d = c THEN q ELSE errand[d]
  BY DEF ErrandIs, SocialInv, SocialTypeOK
<1>2. SocialTypeOK'
  BY <1>1 DEF SocialInv, SocialTypeOK
<1>3. ASSUME NEW d \in Caller PROVE ErrandStage(errand[d])' /\ (~errand'[d].passed => ErrandKnows(errand[d])')
  <2>1. CASE d = c
    BY <1>1, <2>1 DEF ErrandStage, ErrandKnows, FollowsAt, BlockedEitherWay, MutedBy, Delivers
  <2>2. CASE d # c
    <3>1. errand'[d] = errand[d] /\ errand[d] \in Errand
      BY <1>1, <2>2, InErrand
    <3>2. ErrandStage(errand[d]) /\ (~errand[d].passed => ErrandKnows(errand[d]))
      BY InErrand
    <3>3. errand[d].pc = "commit" /\ rail[errand[d].edge[1]] = {} => rail'[errand[d].edge[1]] = {}
      BY <3>2 DEF ErrandStage, Edge
    <3> QED BY <3>1, <3>2, <3>3
         DEF ErrandStage, ErrandKnows, FollowsAt, BlockedEitherWay, MutedBy, Delivers
  <2> QED BY <2>1, <2>2
<1> QED BY <1>2, <1>3 DEF SocialInv

LEMMA RestKnows ==
  Rest \in Errand /\ ErrandStage(Rest) /\ ErrandKnows(Rest)
BY DEF Rest, Errand, ErrandStage, ErrandKnows, Tie

(* The request is over without a commit.                                    *)
LEMMA ErrandEnds ==
  ASSUME SocialInv, NEW c \in Caller, ErrandIs(c, Rest), UNCHANGED <<tie, rail>>
  PROVE  SocialInv'
<1>1. ErrandKnows(Rest)'
  BY DEF Rest, ErrandKnows
<1> QED BY <1>1, RestKnows, ErrandMoves DEF SocialInv, SocialTypeOK

LEMMA ErrandBegins ==
  ASSUME SocialInv, NEW c \in Caller, NEW e \in Edge, NEW does \in {"add", "drop"}, NEW t \in Tie,
         does = "add" /\ t = "follows" => ~BlockedEitherWay(e),
         BeginErrand(c, does, t, e)
  PROVE  SocialInv'
<1> DEFINE q == [Rest EXCEPT !.pc = "look", !.does = does, !.in = t, !.edge = e]
<1>1. /\ q.pc = "look" /\ q.does = does /\ q.in = t /\ q.edge = e /\ q.adds = {} /\ q.drops = {}
      /\ q.tells = FALSE /\ q.page = {} /\ q.passed = FALSE
  BY DEF Rest
<1>2. q \in Errand
  BY DEF Rest, Errand
<1>3. ErrandIs(c, q) /\ UNCHANGED <<tie, rail>>
  BY DEF BeginErrand
<1> HIDE DEF q
<1>4. ErrandStage(q) /\ ErrandKnows(q)'
  BY <1>1, <1>3 DEF ErrandStage, ErrandKnows, BlockedEitherWay
<1> QED BY <1>2, <1>3, <1>4, ErrandMoves DEF SocialInv, SocialTypeOK

LEMMA BeginSuggestKeeps ==
  ASSUME SocialInv, NEW c \in Caller, NEW p \in Viewer, NEW signal \in SUBSET Person,
         BeginSuggest(c, p, signal)
  PROVE  SocialInv'
<1> DEFINE q == [Rest EXCEPT !.pc = "fill", !.does = "suggest", !.edge = <<p, Nobody>>,
                             !.page = signal]
<1>1. /\ q.pc = "fill" /\ q.does = "suggest" /\ q.edge = <<p, Nobody>> /\ q.adds = {}
      /\ q.drops = {} /\ q.tells = FALSE /\ q.in = "none"
  BY DEF Rest
<1>2. q \in Errand
  BY DEF Rest, Errand
<1>3. ErrandIs(c, q) /\ UNCHANGED <<tie, rail>>
  BY DEF BeginSuggest
<1> HIDE DEF q
<1>4. ErrandStage(q) /\ ErrandKnows(q)'
  BY <1>1 DEF ErrandStage, ErrandKnows
<1> QED BY <1>2, <1>3, <1>4, ErrandMoves DEF SocialInv, SocialTypeOK

(* What the cache is after follow and unfollow have dropped a page.         *)
LEMMA InvalidatedKeeps ==
  ASSUME SocialInv, NEW c \in Caller, NEW t \in Tie, errand[c].edge \in Edge
  PROVE  /\ Invalidated(c, t) \in [Person -> SUBSET (SUBSET Person)]
         /\ \A p \in Person : Invalidated(c, t)[p] \subseteq rail[p]
         /\ t = "follows" => Invalidated(c, t)[errand[c].edge[1]] = {}
BY DEF Invalidated, SocialInv, SocialTypeOK, Edge

(* The records of requests that go on with rows to insert or to delete.     *)
LEMMA ErrandWithRows ==
  ASSUME NEW r \in Errand, NEW pc \in {"tell", "sweep", "commit"},
         NEW new \in SUBSET (Tie \X Edge)
  PROVE  /\ [r EXCEPT !.adds = new, !.pc = pc] \in Errand
         /\ [r EXCEPT !.pc = pc, !.drops = new] \in Errand
BY DEF Errand

LEMMA LookFoundKeeps ==
  ASSUME SocialInv, NEW c \in Caller, LookFound(c)
  PROVE  SocialInv'
<1> DEFINE r == errand[c]
<1>0. PICK q : q = [r EXCEPT !.pc = "commit"]
  OBVIOUS
<1>1. /\ r.pc = "look" /\ r.does = "add" /\ ErrandIs(c, q) /\ rail' = Invalidated(c, r.in)
      /\ tie' = tie
  BY <1>0 DEF LookFound, ErrandAt
<1>2. /\ r.in \in Tie /\ r.edge \in Edge /\ r.adds = {} /\ r.drops = {} /\ ~r.tells
      /\ ~r.passed /\ r.in = "follows" => ~BlockedEitherWay(r.edge)
  BY <1>1, InErrand DEF ErrandStage, ErrandKnows
<1>3. /\ q.pc = "commit" /\ q.does = "add" /\ q.in = r.in /\ q.edge = r.edge /\ q.adds = {}
      /\ q.drops = {} /\ ~q.tells /\ q.passed = r.passed /\ q \in Errand
  BY <1>0, <1>1, <1>2, InErrand DEF Errand
<1>4. ErrandStage(q)
  BY <1>2, <1>3 DEF ErrandStage
<1>5. ~q.passed => ErrandKnows(q)'
  BY <1>1, <1>2, <1>3, InvalidatedKeeps DEF ErrandKnows, BlockedEitherWay
<1> QED BY <1>1, <1>2, <1>3, <1>4, <1>5, InvalidatedKeeps, ErrandMoves

LEMMA LookInsertKeeps ==
  ASSUME SocialInv, NEW c \in Caller, LookInsert(c)
  PROVE  SocialInv'
<1> DEFINE r == errand[c]
           pc == CASE r.in = "follows" -> "tell" [] r.in = "blocks" -> "sweep" [] OTHER -> "commit"
<1>0. PICK q : q = [r EXCEPT !.adds = {EdgeOf(c)}, !.pc = pc]
  OBVIOUS
<1>1. /\ r.pc = "look" /\ r.does = "add" /\ ErrandIs(c, q) /\ rail' = rail /\ tie' = tie
  BY <1>0 DEF LookInsert, ErrandAt
<1>2. /\ r.in \in Tie /\ r.edge \in Edge /\ r.drops = {} /\ ~r.tells
      /\ ~r.passed /\ r.in = "follows" => ~BlockedEitherWay(r.edge)
  BY <1>1, InErrand DEF ErrandStage, ErrandKnows
<1>3. /\ r.in = "follows" => pc = "tell"
      /\ r.in = "blocks" => pc = "sweep"
      /\ r.in = "mutes" => pc = "commit"
  OBVIOUS
<1>4. q \in Errand
  <2>1. {EdgeOf(c)} \in SUBSET (Tie \X Edge)
    BY <1>2 DEF EdgeOf
  <2>2. pc \in {"tell", "sweep", "commit"}
    BY <1>2, <1>3 DEF Tie
  <2> HIDE DEF pc
  <2> QED BY <1>0, <2>1, <2>2, InErrand, ErrandWithRows
<1>5. /\ q.pc = pc /\ q.does = "add" /\ q.in = r.in /\ q.edge = r.edge
      /\ q.adds = {<<r.in, r.edge>>} /\ q.drops = {} /\ ~q.tells /\ q.passed = r.passed
  <2> HIDE DEF pc
  <2> QED BY <1>0, <1>1, <1>2, InErrand DEF Errand, EdgeOf
<1> HIDE DEF pc
<1>6. ErrandStage(q)
  BY <1>2, <1>3, <1>5 DEF ErrandStage, Tie
<1>7. ~q.passed => ErrandKnows(q)'
  BY <1>1, <1>2, <1>3, <1>5 DEF ErrandKnows, BlockedEitherWay, Tie
<1> QED BY <1>1, <1>4, <1>6, <1>7, ErrandMoves DEF SocialInv, SocialTypeOK

LEMMA SweepKeeps ==
  ASSUME SocialInv, NEW c \in Caller, Sweep(c)
  PROVE  SocialInv'
<1> DEFINE r == errand[c]
           gone == FollowsAt(r.edge)
<1>0. PICK q : q = [r EXCEPT !.pc = "commit", !.drops = gone]
  OBVIOUS
<1>1. r.pc = "sweep" /\ ErrandIs(c, q) /\ rail' = rail /\ tie' = tie
  BY <1>0 DEF Sweep, ErrandAt, FollowsAt
<1>2. /\ r.in = "blocks" /\ r.does = "add" /\ r.edge \in Edge /\ ~r.tells
      /\ r.adds = {<<r.in, r.edge>>}
  BY <1>1, InErrand DEF ErrandStage
<1>3. gone \in SUBSET (Tie \X Edge)
  BY DEF FollowsAt, SocialInv, SocialTypeOK
<1>4. /\ q.pc = "commit" /\ q.does = "add" /\ q.in = "blocks" /\ q.edge = r.edge
      /\ q.adds = {<<r.in, r.edge>>} /\ q.drops = gone /\ ~q.tells /\ q \in Errand
  <2> HIDE DEF gone
  <2>1. q \in Errand
    BY <1>0, <1>3, InErrand, ErrandWithRows
  <2> QED BY <1>0, <1>1, <1>2, <2>1, InErrand DEF Errand
<1>5. ErrandStage(q)
  BY <1>2, <1>4 DEF ErrandStage, Tie
<1>6. ErrandKnows(q)'
  BY <1>1, <1>4 DEF ErrandKnows, FollowsAt
<1> QED BY <1>1, <1>4, <1>5, <1>6, ErrandMoves DEF SocialInv, SocialTypeOK

LEMMA TellKeeps ==
  ASSUME SocialInv, NEW c \in Caller, Tell(c)
  PROVE  SocialInv'
<1> DEFINE r == errand[c]
<1>a. PICK told \in BOOLEAN : told = Delivers(r.edge)
  BY DEF Delivers
<1>0. PICK q : q = [r EXCEPT !.pc = "commit", !.tells = told]
  OBVIOUS
<1>1. r.pc = "tell" /\ ErrandIs(c, q) /\ rail' = Invalidated(c, "follows") /\ tie' = tie
  BY <1>a, <1>0 DEF Tell, ErrandAt
<1>2. /\ r.in = "follows" /\ r.does = "add" /\ r.edge \in Edge
      /\ r.adds = {<<r.in, r.edge>>} /\ r.drops = {}
      /\ ~r.passed => ~BlockedEitherWay(r.edge)
  BY <1>1, InErrand DEF ErrandStage, ErrandKnows
<1>3. /\ q.pc = "commit" /\ q.does = "add" /\ q.in = "follows" /\ q.edge = r.edge
      /\ q.adds = {<<r.in, r.edge>>} /\ q.drops = {} /\ q.tells = Delivers(r.edge)
      /\ q.passed = r.passed /\ q \in Errand
  <2>1. r \in Errand
    BY InErrand
  <2> QED BY <1>a, <1>0, <1>1, <1>2, <2>1 DEF Errand
<1>4. ErrandStage(q)
  BY <1>2, <1>3 DEF ErrandStage, Tie
<1>5. rail'[r.edge[1]] = {} /\ "follows" \in Tie
  BY <1>1, <1>2, InvalidatedKeeps DEF Tie
<1>6. ~q.passed => ErrandKnows(q)'
  BY <1>1, <1>2, <1>3, <1>5 DEF ErrandKnows, BlockedEitherWay, Delivers, MutedBy
<1> QED BY <1>1, <1>2, <1>3, <1>4, <1>5, <1>6, InvalidatedKeeps, ErrandMoves

LEMMA LookDeleteKeeps ==
  ASSUME SocialInv, NEW c \in Caller, LookDelete(c)
  PROVE  SocialInv'
<1> DEFINE r == errand[c]
           gone == tie \cap {EdgeOf(c)}
<1>0. PICK q : q = [r EXCEPT !.pc = "commit", !.drops = gone]
  OBVIOUS
<1>1. /\ r.pc = "look" /\ r.does = "drop" /\ ErrandIs(c, q) /\ rail' = Invalidated(c, r.in)
      /\ tie' = tie
  BY <1>0 DEF LookDelete, ErrandAt
<1>2. r.in \in Tie /\ r.edge \in Edge /\ r.adds = {} /\ ~r.tells
  BY <1>1, InErrand DEF ErrandStage
<1>3. gone \in SUBSET (Tie \X Edge)
  BY DEF SocialInv, SocialTypeOK
<1>4. /\ q.pc = "commit" /\ q.does = "drop" /\ q.in = r.in /\ q.edge = r.edge
      /\ q.adds = {} /\ ~q.tells /\ q \in Errand
  <2> HIDE DEF gone
  <2>1. q \in Errand
    BY <1>0, <1>3, InErrand, ErrandWithRows
  <2> QED BY <1>0, <1>1, <1>2, <2>1, InErrand DEF Errand
<1>5. ErrandStage(q)
  BY <1>2, <1>4 DEF ErrandStage
<1>6. ErrandKnows(q)'
  BY <1>4 DEF ErrandKnows
<1> QED BY <1>1, <1>2, <1>4, <1>5, <1>6, InvalidatedKeeps, ErrandMoves

(* What is over has passed whoever is about the same people: the others     *)
(* know what they knew, as it is not about theirs.                          *)
LEMMA FinishLeaves ==
  ASSUME SocialInv, NEW c \in Caller, Finish(c), NEW d \in Caller, d # c
  PROVE  /\ errand'[c] = Rest
         /\ errand'[d].pc = errand[d].pc /\ errand'[d].does = errand[d].does
         /\ errand'[d].in = errand[d].in /\ errand'[d].edge = errand[d].edge
         /\ errand'[d].adds = errand[d].adds /\ errand'[d].drops = errand[d].drops
         /\ errand'[d].tells = errand[d].tells
         /\ errand'[d].passed = (errand[d].passed \/ Touch(c, d))
         /\ errand'[d] \in Errand
<1>1. /\ errand'[c] = Rest
      /\ errand'[d] = [errand[d] EXCEPT !.passed = @ \/ Touch(c, d)]
  BY DEF Finish
<1>2. Touch(c, d) \in BOOLEAN
  BY DEF Touch
<1> HIDE DEF Touch
<1> QED BY <1>1, <1>2, InErrand DEF Errand

LEMMA FinishTypes ==
  ASSUME SocialInv, NEW c \in Caller, Finish(c)
  PROVE  errand' \in [Caller -> Errand]
<1>1. \A d \in Caller : errand'[d] \in Errand
  BY FinishLeaves, RestKnows DEF Finish
<1>2. errand' = [d \in Caller |-> errand'[d]]
  BY DEF Finish
<1> QED BY <1>1, <1>2

LEMMA CommitErrandKeeps ==
  ASSUME SocialInv, NEW c \in Caller, CommitErrand(c)
  PROVE  SocialInv'
<1> DEFINE q == errand[c]
<1>1. /\ q.pc = "commit" /\ tie' = (tie \cup q.adds) \ q.drops /\ Finish(c) /\ rail' = rail
      /\ q.adds \subseteq {<<q.in, q.edge>>} /\ q.edge \in Edge /\ q \in Errand
  BY InErrand DEF CommitErrand, ErrandAt, ErrandStage
<1>2. SocialTypeOK'
  BY <1>1, FinishTypes DEF SocialInv, SocialTypeOK, Errand
<1>3. ASSUME NEW d \in Caller
      PROVE  ErrandStage(errand[d])' /\ (~errand'[d].passed => ErrandKnows(errand[d])')
  <2>1. CASE d = c
    <3>1. errand'[d] = Rest
      BY <1>1, <2>1 DEF Finish
    <3> QED BY <3>1 DEF Rest, ErrandStage, ErrandKnows
  <2>2. CASE d # c
    <3> DEFINE r == errand[d]
    <3>1. /\ errand'[d].pc = r.pc /\ errand'[d].does = r.does
          /\ errand'[d].in = r.in /\ errand'[d].edge = r.edge
          /\ errand'[d].adds = r.adds /\ errand'[d].drops = r.drops
          /\ errand'[d].tells = r.tells
          /\ errand'[d].passed = (r.passed \/ Touch(c, d))
      BY <1>1, <2>2, FinishLeaves
    <3>2. ErrandStage(r) /\ (~r.passed => ErrandKnows(r))
      BY InErrand
    <3>3. ErrandStage(errand[d])'
      BY <3>1, <3>2 DEF ErrandStage
    <3>4. ASSUME ~r.passed, ~Touch(c, d), r.pc \in {"look", "tell", "commit"},
                 NEW t \in Tie, NEW e \in {r.edge, Back(r.edge)}, <<t, e>> \in tie'
          PROVE  <<t, e>> \in tie
      <4>1. r.edge \in Edge
        BY <3>2, <3>4 DEF ErrandStage
      <4>2. q.edge # e
        BY <1>1, <3>4, <4>1 DEF Touch, Among, Back, ErrandAt, Edge
      <4> QED BY <1>1, <3>4, <4>2
    <3>5. ASSUME ~r.passed, ~Touch(c, d) PROVE ErrandKnows(errand[d])'
      <4>1. ErrandKnows(r)
        BY <3>2, <3>5
      <4>2. ASSUME r.does = "add", r.in = "follows", r.pc \in {"look", "tell", "commit"}
            PROVE  ~BlockedEitherWay(errand[d].edge)'
        BY <3>1, <3>4, <3>5, <4>1, <4>2 DEF ErrandKnows, BlockedEitherWay, Tie
      <4>3. ASSUME r.does = "add", r.in = "blocks", r.pc = "commit", r.adds # {}
            PROVE  FollowsAt(errand[d].edge)' \subseteq r.drops
        BY <3>1, <3>4, <3>5, <4>1, <4>3 DEF ErrandKnows, FollowsAt, Tie
      <4>4. ASSUME r.tells PROVE Delivers(errand[d].edge)'
        <5>1. r.pc = "commit"
          BY <3>2, <4>4 DEF ErrandStage
        <5> QED BY <3>1, <3>4, <3>5, <4>1, <4>4, <5>1
             DEF ErrandKnows, Delivers, BlockedEitherWay, MutedBy, Tie
      <4> QED BY <1>1, <3>1, <4>1, <4>2, <4>3, <4>4 DEF ErrandKnows
    <3> QED BY <3>1, <3>3, <3>5
  <2> QED BY <2>1, <2>2
<1> QED BY <1>2, <1>3 DEF SocialInv

LEMMA FillSuggestKeeps ==
  ASSUME SocialInv, NEW c \in Caller, FillSuggest(c)
  PROVE  SocialInv'
<1> DEFINE p == errand[c].edge[1]
           page == errand[c].page \cup (Person \ Excluded(p))
<1>1. /\ errand[c].pc = "fill" /\ rail' = [rail EXCEPT ![p] = {page}] /\ Finish(c) /\ tie' = tie
  BY DEF FillSuggest, ErrandAt
<1>2. p \in Person /\ errand[c].edge = <<p, Nobody>>
  BY <1>1, InErrand DEF ErrandStage
<1>3. page \in SUBSET Person
  BY InErrand DEF Errand
<1> HIDE DEF page
<1>4. SocialTypeOK'
  BY <1>1, <1>2, <1>3, FinishTypes DEF SocialInv, SocialTypeOK
<1>5. ASSUME NEW d \in Caller
      PROVE  ErrandStage(errand[d])' /\ (~errand'[d].passed => ErrandKnows(errand[d])')
  <2>1. CASE d = c
    <3>1. errand'[d] = Rest
      BY <1>1, <2>1 DEF Finish
    <3> QED BY <3>1 DEF Rest, ErrandStage, ErrandKnows
  <2>2. CASE d # c
    <3> DEFINE r == errand[d]
    <3>1. /\ errand'[d].pc = r.pc /\ errand'[d].does = r.does
          /\ errand'[d].in = r.in /\ errand'[d].edge = r.edge
          /\ errand'[d].adds = r.adds /\ errand'[d].drops = r.drops
          /\ errand'[d].tells = r.tells
          /\ errand'[d].passed = (r.passed \/ Touch(c, d))
      BY <1>1, <2>2, FinishLeaves
    <3>2. ErrandStage(r) /\ (~r.passed => ErrandKnows(r))
      BY InErrand
    <3>3. ErrandStage(errand[d])'
      BY <3>1, <3>2 DEF ErrandStage
    <3>4. ASSUME ~r.passed, ~Touch(c, d) PROVE ErrandKnows(errand[d])'
      <4>1. ASSUME r.pc = "commit" PROVE r.edge[1] # p
        <5>1. r.edge \in Edge
          BY <3>2, <4>1 DEF ErrandStage
        <5> QED BY <1>2, <3>4, <4>1, <5>1 DEF Touch, Among, ErrandAt, Edge
      <4>2. ASSUME r.pc = "commit" PROVE rail'[r.edge[1]] = rail[r.edge[1]]
        <5>1. r.edge[1] \in Person
          BY <3>2, <4>2 DEF ErrandStage, Edge
        <5> QED BY <1>1, <4>1, <4>2, <5>1 DEF SocialInv, SocialTypeOK
      <4> QED BY <1>1, <3>1, <3>2, <3>4, <4>2
           DEF ErrandKnows, FollowsAt, BlockedEitherWay, Delivers, MutedBy
    <3> QED BY <3>1, <3>3, <3>4
  <2> QED BY <2>1, <2>2
<1> QED BY <1>4, <1>5 DEF SocialInv

LEMMA LapsePageKeeps ==
  ASSUME SocialInv, NEW p \in Person, LapsePage(p)
  PROVE  SocialInv'
<1>1. tie' = tie /\ errand' = errand /\ rail' = [rail EXCEPT ![p] = {}]
  BY DEF LapsePage
<1>2. SocialTypeOK'
  BY <1>1 DEF SocialInv, SocialTypeOK
<1>3. ASSUME NEW d \in Caller, errand[d].pc = "commit", rail[errand[d].edge[1]] = {}
      PROVE  rail'[errand[d].edge[1]] = {}
  BY <1>1, <1>3, InErrand DEF ErrandStage, Edge, SocialInv, SocialTypeOK
<1>4. ASSUME NEW d \in Caller
      PROVE  ErrandStage(errand[d])' /\ (~errand'[d].passed => ErrandKnows(errand[d])')
  <2>1. ErrandStage(errand[d]) /\ (~errand[d].passed => ErrandKnows(errand[d]))
    BY InErrand
  <2>2. ErrandStage(errand[d])'
    BY <1>1, <2>1 DEF ErrandStage
  <2>3. ASSUME ErrandKnows(errand[d]) PROVE ErrandKnows(errand[d])'
    BY <1>1, <1>3, <2>3 DEF ErrandKnows, FollowsAt, BlockedEitherWay, Delivers, MutedBy
  <2> QED BY <1>1, <2>1, <2>2, <2>3
<1> QED BY <1>2, <1>4 DEF SocialInv

LEMMA SocialStart == SocialInit => SocialInv
BY RestKnows DEF SocialInit, SocialInv, SocialTypeOK, Rest, ErrandStage, ErrandKnows

LEMMA SocialStep == SocialInv /\ [SocialNext]_socialVars => SocialInv'
<1> SUFFICES ASSUME SocialInv, [SocialNext]_socialVars PROVE SocialInv'
  OBVIOUS
<1>1. CASE UNCHANGED socialVars
  BY <1>1 DEF socialVars, SocialInv, SocialTypeOK, ErrandStage, ErrandKnows, FollowsAt,
              BlockedEitherWay, MutedBy, Delivers
<1>2. ASSUME NEW c \in Caller, NEW e \in Edge,
             \/ FollowUser(c, e) \/ UnfollowUser(c, e) \/ BlockUser(c, e)
             \/ UnblockUser(c, e) \/ MuteUser(c, e) \/ UnmuteUser(c, e)
      PROVE  SocialInv'
  BY <1>2, ErrandBegins
     DEF FollowUser, UnfollowUser, BlockUser, UnblockUser, MuteUser, UnmuteUser, Tie
<1>3. ASSUME NEW c \in Caller, InsertLost(c) \/ AbortErrand(c) PROVE SocialInv'
  BY <1>3, ErrandEnds DEF InsertLost, AbortErrand
<1> QED
  BY <1>1, <1>2, <1>3, LookFoundKeeps, LookInsertKeeps, LookDeleteKeeps, SweepKeeps, TellKeeps,
     BeginSuggestKeeps, FillSuggestKeeps, CommitErrandKeeps, LapsePageKeeps DEF SocialNext

LEMMA SocialInvariant == SocialSpec => []SocialInv
BY SocialStart, SocialStep, PTL DEF SocialSpec

(* A commit that nobody has passed makes no follow beside a block.          *)
LEMMA BlockStep ==
  ASSUME SocialInv, SocialNext, NEW c \in Caller, Unpassed(c), tie' # tie,
         NEW e \in Edge, <<"follows", e>> \in tie', BlockedEitherWay(e)'
  PROVE  <<"follows", e>> \in tie /\ BlockedEitherWay(e)
<1> DEFINE q == errand[c]
<1>1. q.pc = "commit" /\ errand'[c].pc = "rest" /\ ~q.passed
  BY DEF Unpassed, Settles, ErrandAt
<1>2. PICK d \in Caller : CommitErrand(d)
  BY DEF SocialNext, FollowUser, UnfollowUser, BlockUser, UnblockUser, MuteUser, UnmuteUser,
         BeginErrand, LookFound, LookInsert, InsertLost, LookDelete, Sweep, Tell, BeginSuggest,
         FillSuggest, AbortErrand, LapsePage
<1>3. d = c
  BY <1>1, <1>2, FinishLeaves DEF CommitErrand
<1>4. /\ tie' = (tie \cup q.adds) \ q.drops
      /\ q.adds \subseteq {<<q.in, q.edge>>} /\ q.edge \in Edge
      /\ q.does = "drop" => q.adds = {}
      /\ q.does \in {"add", "drop"} /\ ErrandKnows(q)
  BY <1>1, <1>2, <1>3, InErrand DEF CommitErrand, ErrandStage
<1>5. <<"follows", e>> \in tie
  <2>1. SUFFICES ASSUME <<"follows", e>> \in q.adds PROVE FALSE
    BY <1>4
  <2>2. q.adds = {<<"follows", e>>} /\ q.in = "follows" /\ q.edge = e /\ q.does = "add"
    BY <1>4, <2>1
  <2>3. ~BlockedEitherWay(e)
    BY <1>1, <1>4, <2>2 DEF ErrandKnows
  <2> QED BY <1>4, <2>2, <2>3 DEF BlockedEitherWay
<1>6. BlockedEitherWay(e)
  <2>1. SUFFICES ASSUME ~BlockedEitherWay(e) PROVE FALSE
    OBVIOUS
  <2>2. PICK x \in {e, Back(e)} : <<"blocks", x>> \in q.adds
    BY <1>4, <2>1 DEF BlockedEitherWay
  <2>3. q.in = "blocks" /\ q.edge = x /\ q.does = "add" /\ q.adds # {}
    BY <1>4, <2>2
  <2>4. FollowsAt(x) \subseteq q.drops
    BY <1>1, <1>4, <2>3 DEF ErrandKnows
  <2>5. e \in {x, Back(x)}
    BY <2>2 DEF Back, Edge
  <2> QED BY <1>4, <1>5, <2>4, <2>5 DEF FollowsAt
<1> QED BY <1>5, <1>6

(* What two people see of each other after a follow, a block or a mute: no  *)
(* follow beside a block, nobody hears of a follow from somebody they       *)
(* block, are blocked by or mute, and whom one follows is not suggested any *)
(* more; unless another request about the two passed (follows.py,           *)
(* safety.py, safety_service.py).                                           *)
THEOREM GraphIsKept == SocialSpec => GraphHolds
<1>1. SocialInv /\ [SocialNext]_socialVars =>
        [\A c \in Caller : Unpassed(c) /\ tie' # tie =>
           \A e \in Edge :
             <<"follows", e>> \in tie' /\ BlockedEitherWay(e)' =>
               <<"follows", e>> \in tie /\ BlockedEitherWay(e)]_socialVars
  BY BlockStep
<1>2. SocialInv /\ [SocialNext]_socialVars =>
        [\A c \in Caller : Unpassed(c) /\ errand[c].tells =>
           LET e == errand[c].edge IN
           ~BlockedEitherWay(e) /\ ~MutedBy(Back(e))]_socialVars
  BY InErrand DEF Unpassed, ErrandKnows, Delivers
<1>3. SocialInv /\ [SocialNext]_socialVars =>
        [\A c \in Caller :
           Unpassed(c) /\ errand[c].does = "add" /\ errand[c].in = "follows" /\ tie' # tie =>
             \A page \in rail[errand[c].edge[1]] : errand[c].edge[2] \notin page]_socialVars
  BY InErrand DEF Unpassed, Settles, ErrandAt, ErrandKnows
<1> QED BY <1>1, <1>2, <1>3, SocialInvariant, PTL
     DEF SocialSpec, GraphHolds, BlocksHold, FollowLeavesRail

------------------------------------------------------------------------------
(* Marks.                                                                   *)

(* What a request has at each of its stages.                                *)
PressStage(q) ==
  /\ q.op = "none" <=> q.pc = "loose"
  /\ q.pc = "loose" => q = Loose
  /\ q.op = "set" => q.pc \in {"row", "insert", "tell", "commit"}
  /\ q.op = "tool" => q.pc \in {"insert", "commit"}
  /\ q.op = "tool" => kind = "wish"
  /\ q.op = "unset" => q.pc \in {"row", "delete", "commit"}
  /\ q.op \in {"erase", "remove"} => q.pc \in {"target", "commit"}
  /\ q.writes => q.pc \in {"tell", "commit"} /\ q.op \in {"set", "tool", "unset"}
  /\ q.pc = "tell" => q.writes /\ Told(q)
  /\ q.tells => q.writes /\ q.op = "set" /\ Told(q)

WritesTarget(q) == q.op \in {"erase", "remove"} /\ q.pc = "commit"

(* How it stands to the tables.                                             *)
PressKnows(q) ==
  /\ q.op \in {"set", "tool", "unset"} /\ ~q.crossed => target = "live"
  /\ q.writes /\ q.op \in {"set", "tool"} => q.who \notin mark /\ target # "gone"
  /\ WritesTarget(q) => target # "gone"
  /\ q.pc = "commit" /\ ~q.writes /\ ~q.crossed =>
       /\ q.op \in {"set", "tool"} => q.who \in mark
       /\ q.op = "unset" => q.who \notin mark

(* Two requests do not write one row, nor both the target, and the target   *)
(* is not deleted under one that has inserted.                              *)
PressApart(q, r) ==
  /\ ~ (WritesTarget(q) /\ WritesTarget(r))
  /\ ~ (q.writes /\ r.writes /\ q.who = r.who)
  /\ ~ (q.op = "erase" /\ q.pc = "commit" /\ r.writes /\ r.op \in {"set", "tool"})
  /\ ~ (r.op = "erase" /\ r.pc = "commit" /\ q.writes /\ q.op \in {"set", "tool"})

MarksInv ==
  /\ MarksTypeOK
  /\ \A h \in Press : PressStage(press[h]) /\ PressKnows(press[h])
  /\ \A g \in Press : \A h \in Press \ {g} : PressApart(press[g], press[h])
  /\ target = "gone" => mark = {}

USE MarksAssumption

LEMMA InPress ==
  ASSUME MarksInv, NEW h \in Press
  PROVE  /\ press[h] \in PressRecord /\ PressStage(press[h]) /\ PressKnows(press[h])
         /\ \A g \in Press \ {h} : PressApart(press[h], press[g])
         /\ press[h].op \in {"none", "set", "tool", "unset", "erase", "remove"}
         /\ press[h].pc \in {"loose", "row", "insert", "tell", "delete", "target", "commit"}
         /\ target \in {"live", "removed", "gone"}
BY DEF MarksInv, MarksTypeOK, PressRecord

LEMMA PressMoves ==
  ASSUME MarksInv, NEW h \in Press, NEW q \in PressRecord, PressIs(h, q),
         PressStage(q), PressKnows(q), \A g \in Press \ {h} : PressApart(q, press[g])
  PROVE  MarksInv'
<1>1. /\ kind' = kind /\ target' = target /\ mark' = mark
      /\ \A g \in Press : press'[g] = IF g = h THEN q ELSE press[g]
      /\ press' \in [Press -> PressRecord]
  BY DEF PressIs, MarksInv, MarksTypeOK
<1>2. ASSUME NEW g \in Press PROVE PressStage(press[g])' /\ PressKnows(press[g])'
  BY <1>1, InPress DEF PressStage, WritesTarget, PressKnows, Told
<1>3. ASSUME NEW g \in Press, NEW f \in Press \ {g} PROVE PressApart(press[g], press[f])'
  BY <1>1, InPress DEF PressApart, WritesTarget
<1> QED BY <1>1, <1>2, <1>3 DEF MarksInv, MarksTypeOK

LEMMA PressEnds ==
  ASSUME MarksInv, NEW h \in Press, PressIs(h, Loose)
  PROVE  MarksInv'
<1>1. Loose \in PressRecord
  BY DEF Loose, PressRecord
<1>2. PressStage(Loose) /\ PressKnows(Loose) /\ \A g \in Press \ {h} : PressApart(Loose, press[g])
  BY DEF Loose, PressStage, PressKnows, WritesTarget, PressApart
<1> QED BY <1>1, <1>2, PressMoves

LEMMA AskKeeps ==
  ASSUME MarksInv, NEW h \in Press, NEW op, NEW pc, NEW p \in Fan, Ask(h, op, pc, p),
         \/ op \in {"set", "unset"} /\ pc = "row" /\ target = "live"
         \/ op = "tool" /\ pc = "insert" /\ target = "live" /\ kind = "wish"
         \/ op \in {"erase", "remove"} /\ pc = "target"
  PROVE  MarksInv'
<1> DEFINE q == [Loose EXCEPT !.op = op, !.pc = pc, !.who = p]
<1>1. /\ q.op = op /\ q.pc = pc /\ q.who = p /\ ~q.writes /\ ~q.tells /\ ~q.crossed
      /\ q \in PressRecord
  BY DEF Loose, PressRecord
<1>2. PressIs(h, q)
  BY DEF Ask
<1> HIDE DEF q
<1>3. PressStage(q) /\ PressKnows(q) /\ \A g \in Press \ {h} : PressApart(q, press[g])
  BY <1>1 DEF PressStage, WritesTarget, PressKnows, PressApart
<1> QED BY <1>1, <1>2, <1>3, PressMoves

(* A request that goes on without having written.                           *)
LEMMA PressGoesOn ==
  ASSUME MarksInv, NEW h \in Press, NEW pc \in {"insert", "delete", "commit"}, ~press[h].writes,
         PressIs(h, [press[h] EXCEPT !.pc = pc]),
         \/ press[h].op = "set" /\ pc \in {"insert", "commit"}
         \/ press[h].op = "tool" /\ pc = "commit"
         \/ press[h].op = "unset" /\ pc \in {"delete", "commit"},
         pc = "commit" /\ ~press[h].crossed => (press[h].who \in mark <=> press[h].op # "unset")
  PROVE  MarksInv'
<1> DEFINE r == press[h]
           q == [r EXCEPT !.pc = pc]
<1>1. /\ q.op = r.op /\ q.pc = pc /\ q.who = r.who /\ ~q.writes /\ q.tells = r.tells
      /\ q.crossed = r.crossed /\ q \in PressRecord
  BY InPress DEF PressRecord
<1>2. PressIs(h, q) /\ PressStage(r) /\ PressKnows(r)
  BY InPress
<1> HIDE DEF q
<1>3. PressStage(q) /\ PressKnows(q) /\ \A g \in Press \ {h} : PressApart(q, press[g])
  BY <1>1, <1>2 DEF PressStage, WritesTarget, PressKnows, PressApart
<1> QED BY <1>1, <1>2, <1>3, PressMoves

LEMMA LookForRowKeeps ==
  ASSUME MarksInv, NEW h \in Press, LookForRow(h)
  PROVE  MarksInv'
<1>1. press[h].pc = "row" /\ press[h].op \in {"set", "unset"} /\ ~press[h].writes
  BY InPress DEF LookForRow, PressAt, PressStage
<1>2. CASE press[h].op = "set"
  BY <1>1, <1>2, PressGoesOn DEF LookForRow
<1>3. CASE press[h].op = "unset"
  BY <1>1, <1>3, PressGoesOn DEF LookForRow
<1> QED BY <1>1, <1>2, <1>3

LEMMA WriteTargetKeeps ==
  ASSUME MarksInv, NEW h \in Press, WriteTarget(h)
  PROVE  MarksInv'
<1> DEFINE r == press[h]
           q == [r EXCEPT !.pc = "commit"]
<1>1. r.pc = "target" /\ r.op \in {"erase", "remove"} /\ ~r.writes /\ ~r.tells /\ ~TargetBusy(h)
  BY InPress DEF WriteTarget, PressAt, PressStage
<1>2. CASE target = "gone"
  BY <1>2, PressEnds DEF WriteTarget
<1>3. CASE target # "gone"
  <2>1. PressIs(h, q)
    BY <1>3 DEF WriteTarget
  <2>2. /\ q.op = r.op /\ q.pc = "commit" /\ ~q.writes /\ ~q.tells /\ q \in PressRecord
    BY <1>1, InPress DEF PressRecord
  <2> HIDE DEF q
  <2>3. PressStage(q) /\ PressKnows(q)
    BY <1>1, <1>3, <2>2 DEF PressStage, WritesTarget, PressKnows
  <2>4. ASSUME NEW g \in Press \ {h} PROVE PressApart(q, press[g])
    <3>1. CASE q.op = "erase" /\ press[g].writes /\ press[g].op \in {"set", "tool"}
      <4>1. g \in OtherPress(h)
        BY <3>1, InPress DEF OtherPress, PressStage, PressAt
      <4> QED BY <1>1, <2>2, <3>1, <4>1 DEF TargetBusy
    <3>2. ~ WritesTarget(press[g])
      BY <1>1 DEF TargetBusy, OtherPress, PressAt, WritesTarget
    <3>3. CASE ~ (q.op = "erase" /\ press[g].writes /\ press[g].op \in {"set", "tool"})
      BY <2>2, <3>2, <3>3 DEF PressApart, WritesTarget
    <3> QED BY <3>1, <3>3
  <2> QED BY <2>1, <2>2, <2>3, <2>4, PressMoves
<1> QED BY <1>2, <1>3

(* Whoever writes the row is alone with it.                                 *)
LEMMA RowIsHis ==
  ASSUME MarksInv, NEW h \in Press, ~RowBusy(h), ~TargetBusy(h),
         press[h].op \in {"set", "tool", "unset"}, NEW g \in Press \ {h}
  PROVE  /\ ~ (press[g].writes /\ press[g].who = press[h].who)
         /\ ~ (press[g].op = "erase" /\ press[g].pc = "commit")
<1>1. press[g].writes => g \in OtherPress(h) /\ press[g].op \in {"set", "tool", "unset"}
  BY InPress DEF OtherPress, PressStage, PressAt
<1>2. press[g].pc = "commit" => g \in OtherPress(h)
  BY DEF OtherPress, PressAt
<1> QED BY <1>1, <1>2 DEF RowBusy, TargetBusy

LEMMA InsertRowKeeps ==
  ASSUME MarksInv, NEW h \in Press, InsertRow(h)
  PROVE  MarksInv'
<1> DEFINE r == press[h]
           pc == IF Told(r) THEN "tell" ELSE "commit"
           q == [r EXCEPT !.pc = pc, !.writes = TRUE]
<1>1. /\ r.pc = "insert" /\ r.op \in {"set", "tool"} /\ ~r.writes /\ ~r.tells
      /\ ~RowBusy(h) /\ ~TargetBusy(h)
  BY InPress DEF InsertRow, PressAt, PressStage
<1>2. CASE r.who \notin mark /\ target # "gone"
  <2>1. PressIs(h, q)
    BY <1>2 DEF InsertRow
  <2>2. /\ q.op = r.op /\ q.pc = pc /\ q.who = r.who /\ q.writes /\ ~q.tells
        /\ q.crossed = r.crossed /\ q \in PressRecord
    <3>1. pc \in {"tell", "commit"}
      OBVIOUS
    <3> HIDE DEF pc
    <3> QED BY <1>1, <3>1, InPress DEF PressRecord
  <2> HIDE DEF q
  <2>3. PressStage(q)
    <3>1. r.op = "tool" => ~Told(r)
      BY InPress DEF PressStage, Told
    <3> QED BY <1>1, <2>2, <3>1, InPress DEF PressStage, Told
  <2>4. PressKnows(q)
    BY <1>1, <1>2, <2>2, InPress DEF PressKnows, WritesTarget
  <2>5. \A g \in Press \ {h} : PressApart(q, press[g])
    BY <1>1, <2>2, RowIsHis DEF PressApart, WritesTarget
  <2> QED BY <2>1, <2>2, <2>3, <2>4, <2>5, PressMoves
<1>3. CASE ~ (r.who \notin mark /\ target # "gone")
  <2>1. PressIs(h, Loose) \/ PressIs(h, [r EXCEPT !.pc = "commit"])
    BY <1>3 DEF InsertRow
  <2>2. ~r.crossed => r.who \in mark
    BY <1>1, <1>3, InPress DEF PressKnows
  <2> QED BY <1>1, <2>1, <2>2, PressEnds, PressGoesOn
<1> QED BY <1>2, <1>3

LEMMA TellOwnerKeeps ==
  ASSUME MarksInv, NEW h \in Press, NEW delivered \in BOOLEAN, TellOwner(h, delivered)
  PROVE  MarksInv'
<1> DEFINE r == press[h]
           q == [r EXCEPT !.pc = "commit", !.tells = delivered]
<1>1. r.pc = "tell" /\ r.op = "set" /\ r.writes /\ Told(r) /\ r \in PressRecord
  BY InPress DEF TellOwner, PressAt, PressStage
<1>2. /\ q.op = r.op /\ q.pc = "commit" /\ q.who = r.who /\ q.writes = r.writes
      /\ q.crossed = r.crossed /\ q \in PressRecord
  BY <1>1 DEF PressRecord
<1>3. PressIs(h, q)
  BY DEF TellOwner
<1> HIDE DEF q
<1>4. PressStage(q)
  BY <1>1, <1>2 DEF PressStage, Told
<1>5. PressKnows(q)
  BY <1>1, <1>2, InPress DEF PressKnows, WritesTarget
<1>6. \A g \in Press \ {h} : PressApart(q, press[g])
  BY <1>1, <1>2, InPress DEF PressApart, WritesTarget
<1> QED BY <1>2, <1>3, <1>4, <1>5, <1>6, PressMoves

LEMMA DeleteRowKeeps ==
  ASSUME MarksInv, NEW h \in Press, DeleteRow(h)
  PROVE  MarksInv'
<1> DEFINE r == press[h]
           w == r.who \in mark
           q == [r EXCEPT !.pc = "commit", !.writes = w]
<1>1. /\ r.pc = "delete" /\ r.op = "unset" /\ ~r.writes /\ ~r.tells /\ r \in PressRecord
      /\ ~RowBusy(h) /\ ~TargetBusy(h)
  BY InPress DEF DeleteRow, PressAt, PressStage
<1>3. PressIs(h, q)
  BY DEF DeleteRow
<1>2. /\ q.op = r.op /\ q.pc = "commit" /\ q.who = r.who /\ ~q.tells
      /\ q.crossed = r.crossed /\ q.writes = w /\ q \in PressRecord
  <2>1. w \in BOOLEAN
    OBVIOUS
  <2> HIDE DEF w
  <2> QED BY <1>1, <2>1 DEF PressRecord
<1> HIDE DEF q
<1>4. PressStage(q)
  BY <1>1, <1>2, InPress DEF PressStage
<1>6. PressKnows(q)
  <2>1. q.op = "unset" /\ q.crossed = r.crossed
    BY <1>1, <1>2
  <2>2. ~r.crossed => target = "live"
    BY <1>1, InPress DEF PressKnows
  <2>3. ~q.writes => q.who \notin mark
    BY <1>2
  <2> QED BY <2>1, <2>2, <2>3 DEF PressKnows, WritesTarget
<1>5. \A g \in Press \ {h} : PressApart(q, press[g])
  BY <1>1, <1>2, RowIsHis DEF PressApart, WritesTarget
<1> QED BY <1>2, <1>3, <1>4, <1>5, <1>6, PressMoves

(* A commit: the others are crossed, and nothing they have written is       *)
(* undone.                                                                  *)
LEMMA CommitMarkKeeps ==
  ASSUME MarksInv, NEW h \in Press, CommitMark(h)
  PROVE  MarksInv'
<1> DEFINE r == press[h]
<1>1. /\ r.pc = "commit" /\ r \in PressRecord /\ PressStage(r) /\ PressKnows(r)
      /\ r.op \in {"set", "tool", "unset", "erase", "remove"}
  BY InPress DEF CommitMark, PressAt, PressStage
<1>2. /\ r.op = "erase" => target' = "gone" /\ mark' = {}
      /\ r.op = "remove" => target' = "removed" /\ mark' = mark
      /\ r.op \notin {"erase", "remove"} => target' = target
      /\ r.op \in {"set", "tool"} => mark' = IF r.writes THEN mark \cup {r.who} ELSE mark
      /\ r.op = "unset" => mark' = IF r.writes THEN mark \ {r.who} ELSE mark
  BY <1>1 DEF CommitMark
<1>3. kind' = kind
  BY DEF CommitMark
<1>4. ASSUME NEW g \in Press PROVE
        IF g = h THEN press'[g] = Loose
        ELSE press'[g] = [press[g] EXCEPT !.crossed = ~PressAt(g, "loose")]
  BY DEF CommitMark
<1>5. ASSUME NEW g \in Press \ {h} PROVE
        LET p == press[g]
            q == press'[g] IN
        /\ q.op = p.op /\ q.pc = p.pc /\ q.who = p.who /\ q.writes = p.writes
        /\ q.tells = p.tells /\ q.crossed = (p.pc # "loose") /\ q \in PressRecord
        /\ p.pc = "loose" => q = Loose
  <2>1. press[g] \in PressRecord /\ (press[g].pc = "loose" => press[g] = Loose)
    BY InPress DEF PressStage
  <2>2. press'[g] = [press[g] EXCEPT !.crossed = press[g].pc # "loose"]
    BY <1>4 DEF PressAt
  <2>3. press[g].pc = "loose" => press'[g] = Loose
    <3>1. CASE press[g].pc = "loose"
      <4>1. press'[g] = [Loose EXCEPT !.crossed = FALSE]
        BY <2>1, <2>2, <3>1
      <4> QED BY <4>1 DEF Loose
    <3> QED BY <3>1
  <2> DEFINE c == press[g].pc # "loose"
  <2>4. c \in BOOLEAN
    OBVIOUS
  <2>5. press'[g] = [press[g] EXCEPT !.crossed = c]
    BY <2>2
  <2>6. c = (press[g].pc # "loose")
    OBVIOUS
  <2> HIDE DEF c
  <2> QED BY <2>1, <2>3, <2>4, <2>5, <2>6 DEF PressRecord
<1>6. press'[h] = Loose /\ Loose \in PressRecord
  BY <1>4 DEF Loose, PressRecord
<1>7. MarksTypeOK'
  <2>1. press' \in [Press -> PressRecord]
    BY <1>5, <1>6 DEF CommitMark
  <2>2. target' \in {"live", "removed", "gone"} /\ mark' \subseteq Fan
    BY <1>1, <1>2, InPress DEF MarksInv, MarksTypeOK, PressRecord
  <2> QED BY <1>3, <2>1, <2>2 DEF MarksInv, MarksTypeOK
<1>8. ASSUME NEW g \in Press PROVE PressStage(press[g])'
  <2>1. CASE g = h
    BY <1>6, <2>1 DEF PressStage, Loose
  <2>2. CASE g # h
    BY <1>3, <1>5, <2>2, InPress DEF PressStage, Told
  <2> QED BY <2>1, <2>2
<1>9. ASSUME NEW g \in Press PROVE PressKnows(press[g])'
  <2>1. CASE g = h
    BY <1>6, <2>1 DEF PressKnows, Loose, WritesTarget
  <2>2. CASE g # h
    <3>1. PressStage(press[g]) /\ PressKnows(press[g]) /\ PressApart(r, press[g])
      BY <2>2, InPress
    <3>2. press[g].op \in {"set", "tool", "unset"} => press[g].pc # "loose"
      BY <3>1 DEF PressStage
    <3>3. press[g].writes /\ press[g].op \in {"set", "tool"} => press[g].who \notin mark' /\ target' # "gone"
      BY <1>1, <1>2, <3>1 DEF PressKnows, PressApart
    <3>4. WritesTarget(press[g]) => target' # "gone"
      BY <1>1, <1>2, <3>1 DEF PressKnows, PressApart, WritesTarget
    <3> QED BY <1>5, <2>2, <3>2, <3>3, <3>4 DEF PressKnows, WritesTarget
  <2> QED BY <2>1, <2>2
<1>10. ASSUME NEW g \in Press, NEW f \in Press \ {g} PROVE PressApart(press[g], press[f])'
  <2>1. CASE g = h \/ f = h
    BY <1>6, <2>1 DEF PressApart, Loose, WritesTarget
  <2>2. CASE g # h /\ f # h
    BY <1>5, <2>2, InPress DEF PressApart, WritesTarget
  <2> QED BY <2>1, <2>2
<1>11. (target = "gone" => mark = {})'
  BY <1>1, <1>2 DEF MarksInv, PressKnows
<1> QED BY <1>7, <1>8, <1>9, <1>10, <1>11 DEF MarksInv

LEMMA MarksStepKeeps ==
  ASSUME MarksInv, [MarksNext]_marksVars
  PROVE  MarksInv'
<1>1. CASE UNCHANGED marksVars
  BY <1>1 DEF marksVars, MarksInv, MarksTypeOK, PressStage, PressKnows, PressApart, Told,
              WritesTarget
<1>2. CASE MarksNext
  <2>1. PICK h \in Press :
          \/ \E p \in Fan :
               \/ LikeReview(h, p) \/ UnlikeReview(h, p)
               \/ LikeComment(h, p) \/ UnlikeComment(h, p)
               \/ SaveReview(h, p) \/ UnsaveReview(h, p)
               \/ AddWantToTry(h, p) \/ RemoveWantToTry(h, p) \/ AddToWishlist(h, p)
          \/ EraseTarget(h) \/ RemoveTarget(h)
          \/ LookForRow(h) \/ InsertRow(h) \/ DeleteRow(h) \/ WriteTarget(h)
          \/ \E delivered \in BOOLEAN : TellOwner(h, delivered)
          \/ CommitMark(h) \/ AbortMark(h)
    BY <1>2 DEF MarksNext
  <2>2. ASSUME NEW p \in Fan,
               \/ LikeReview(h, p) \/ LikeComment(h, p) \/ SaveReview(h, p) \/ AddWantToTry(h, p)
        PROVE  MarksInv'
    <3>1. target = "live" /\ Ask(h, "set", "row", p)
      BY <2>2 DEF LikeReview, LikeComment, SaveReview, AddWantToTry
    <3> QED BY <3>1, AskKeeps
  <2>3. ASSUME NEW p \in Fan,
               \/ UnlikeReview(h, p) \/ UnlikeComment(h, p) \/ UnsaveReview(h, p)
               \/ RemoveWantToTry(h, p)
        PROVE  MarksInv'
    <3>1. target = "live" /\ Ask(h, "unset", "row", p)
      BY <2>3 DEF UnlikeReview, UnlikeComment, UnsaveReview, RemoveWantToTry
    <3> QED BY <3>1, AskKeeps
  <2>4. ASSUME NEW p \in Fan, AddToWishlist(h, p) PROVE MarksInv'
    BY <2>4, AskKeeps DEF AddToWishlist
  <2>5. CASE EraseTarget(h)
    BY <2>5, AskKeeps DEF EraseTarget
  <2>6. CASE RemoveTarget(h)
    BY <2>6, AskKeeps DEF RemoveTarget
  <2>7. CASE AbortMark(h)
    BY <2>7, PressEnds DEF AbortMark
  <2>8. CASE \E delivered \in BOOLEAN : TellOwner(h, delivered)
    BY <2>8, TellOwnerKeeps
  <2> QED BY <2>1, <2>2, <2>3, <2>4, <2>5, <2>6, <2>7, <2>8, LookForRowKeeps,
             InsertRowKeeps, DeleteRowKeeps, WriteTargetKeeps, CommitMarkKeeps
<1> QED BY <1>1, <1>2

THEOREM MarksInvariant == MarksSpec => []MarksInv
<1>1. MarksInit => MarksInv
  BY DEF MarksInit, MarksInv, MarksTypeOK, PressRecord, PressStage, PressKnows, PressApart,
         Loose, WritesTarget
<1>2. MarksInv /\ [MarksNext]_marksVars => MarksInv'
  BY MarksStepKeeps
<1> QED BY <1>1, <1>2, PTL DEF MarksSpec

(* Only a commit changes the tables, and only its own request ends with it. *)
LEMMA OnlyCommitsWrite ==
  ASSUME MarksInv, [MarksNext]_marksVars
  PROVE  \/ target' = target /\ mark' = mark
         \/ \E h \in Press : CommitMark(h)
<1> DEFINE Kept == target' = target /\ mark' = mark
<1>1. \A h, q : PressIs(h, q) => Kept
  BY DEF PressIs
<1> HIDE DEF Kept
<1>2. CASE UNCHANGED marksVars
  BY <1>2 DEF marksVars, Kept
<1>3. CASE MarksNext
  <2>1. PICK h \in Press :
          \/ \E p \in Fan :
               \/ LikeReview(h, p) \/ UnlikeReview(h, p)
               \/ LikeComment(h, p) \/ UnlikeComment(h, p)
               \/ SaveReview(h, p) \/ UnsaveReview(h, p)
               \/ AddWantToTry(h, p) \/ RemoveWantToTry(h, p) \/ AddToWishlist(h, p)
          \/ EraseTarget(h) \/ RemoveTarget(h)
          \/ LookForRow(h) \/ InsertRow(h) \/ DeleteRow(h) \/ WriteTarget(h)
          \/ \E delivered \in BOOLEAN : TellOwner(h, delivered)
          \/ CommitMark(h) \/ AbortMark(h)
    BY <1>3 DEF MarksNext
  <2>2. (\E op, pc, p : Ask(h, op, pc, p)) => Kept
    BY <1>1 DEF Ask
  <2>3. ASSUME NEW p \in Fan,
               \/ LikeReview(h, p) \/ UnlikeReview(h, p)
               \/ LikeComment(h, p) \/ UnlikeComment(h, p)
               \/ SaveReview(h, p) \/ UnsaveReview(h, p)
               \/ AddWantToTry(h, p) \/ RemoveWantToTry(h, p) \/ AddToWishlist(h, p)
        PROVE  Kept
    BY <2>2, <2>3 DEF LikeReview, UnlikeReview, LikeComment, UnlikeComment, SaveReview,
         UnsaveReview, AddWantToTry, RemoveWantToTry, AddToWishlist
  <2>4. EraseTarget(h) \/ RemoveTarget(h) => Kept
    BY <2>2 DEF EraseTarget, RemoveTarget
  <2>5. LookForRow(h) \/ InsertRow(h) \/ DeleteRow(h) \/ WriteTarget(h) \/ AbortMark(h) => Kept
    BY <1>1 DEF LookForRow, InsertRow, DeleteRow, WriteTarget, AbortMark
  <2>6. (\E delivered \in BOOLEAN : TellOwner(h, delivered)) => Kept
    BY <1>1 DEF TellOwner
  <2>7. Kept \/ CommitMark(h)
    BY <2>1, <2>3, <2>4, <2>5, <2>6
  <2> QED BY <2>7 DEF Kept
<1> QED BY <1>2, <1>3 DEF Kept

LEMMA WhatACommitWrites ==
  ASSUME MarksInv, NEW h \in Press, CommitMark(h)
  PROVE  LET r == press[h] IN
         /\ r.pc = "commit" /\ r.op \in {"set", "tool", "unset", "erase", "remove"}
         /\ target = "gone" => target' = "gone"
         /\ r.op \in {"set", "tool"} => target' = target /\ mark' = IF r.writes THEN mark \cup {r.who} ELSE mark
         /\ r.op = "unset" => target' = target /\ mark' = IF r.writes THEN mark \ {r.who} ELSE mark
         /\ r.op = "remove" => mark' = mark
         /\ r.op = "erase" => mark' = {}
         /\ \A g \in Press \ {h} : press'[g].pc = press[g].pc
<1>1. /\ press[h].pc = "commit" /\ PressStage(press[h]) /\ PressKnows(press[h])
      /\ press[h].op \in {"set", "tool", "unset", "erase", "remove"}
  BY InPress DEF CommitMark, PressAt, PressStage
<1>2. \A g \in Press \ {h} : press'[g].pc = press[g].pc
  BY InPress DEF CommitMark, PressRecord
<1> QED BY <1>1, <1>2 DEF CommitMark, PressKnows, WritesTarget

LEMMA MarksStepHolds ==
  ASSUME MarksInv, MarksInv', [MarksNext]_marksVars
  PROVE  /\ target' = "gone" => mark' = {}
         /\ target = "gone" => target' = "gone"
         /\ \A h \in Press : Presses(h) /\ press'[h] # press[h] =>
              LET q == press[h]
                  AsAnswered == q.who \in mark' <=> q.op # "unset" IN
              /\ q.tells /\ mark' # mark => q.who \in mark' \ mark /\ q.who # Owner
              /\ q.tells => q.writes
              /\ mark' \ mark # {} /\ target = "removed" => q.crossed
              /\ mark' # mark /\ q.writes => AsAnswered
              /\ q.op \in {"set", "tool", "unset"} /\ ~q.writes => AsAnswered \/ q.crossed
<1>1. target' = "gone" => mark' = {}
  BY DEF MarksInv
<1>2. target = "gone" => target' = "gone"
  BY OnlyCommitsWrite, WhatACommitWrites
<1>3. ASSUME NEW h \in Press, Presses(h), mark' # mark
      PROVE  CommitMark(h)
  <2>1. PICK g \in Press : CommitMark(g)
    BY <1>3, OnlyCommitsWrite
  <2>2. \A f \in Press \ {g} : press'[f].pc = press[f].pc
    BY <2>1, WhatACommitWrites
  <2>3. press[h].pc = "commit" /\ press'[h].pc = "loose"
    BY <1>3 DEF Presses, PressAt
  <2> QED BY <2>1, <2>2, <2>3
<1>4. ASSUME NEW h \in Press, Presses(h)
      PROVE  LET q == press[h]
                 AsAnswered == q.who \in mark' <=> q.op # "unset" IN
             /\ q.tells /\ mark' # mark => q.who \in mark' \ mark /\ q.who # Owner
             /\ q.tells => q.writes
             /\ mark' \ mark # {} /\ target = "removed" => q.crossed
             /\ mark' # mark /\ q.writes => AsAnswered
             /\ q.op \in {"set", "tool", "unset"} /\ ~q.writes => AsAnswered \/ q.crossed
  <2>1. PressStage(press[h]) /\ PressKnows(press[h]) /\ press[h].pc = "commit"
    BY <1>4, InPress DEF Presses, PressAt
  <2>2. press[h].tells /\ mark' # mark => press[h].who \in mark' \ mark /\ press[h].who # Owner
    BY <1>3, <1>4, <2>1, WhatACommitWrites DEF PressStage, PressKnows, Told
  <2>3. mark' \ mark # {} /\ target = "removed" => press[h].crossed
    BY <1>3, <1>4, <2>1, WhatACommitWrites DEF PressKnows
  <2>4. mark' # mark /\ press[h].writes => (press[h].who \in mark' <=> press[h].op # "unset")
    BY <1>3, <1>4, <2>1, WhatACommitWrites DEF PressStage
  <2>5. /\ press[h].op \in {"set", "tool", "unset"} /\ ~press[h].writes
        /\ ~press[h].crossed
        => (press[h].who \in mark' <=> press[h].op # "unset")
    <3>1. CASE mark' = mark
      BY <2>1, <3>1 DEF PressKnows
    <3>2. CASE mark' # mark
      BY <1>3, <1>4, <2>1, <3>2, WhatACommitWrites
    <3> QED BY <3>1, <3>2
  <2> QED BY <2>1, <2>2, <2>3, <2>4, <2>5 DEF PressStage
<1> QED BY <1>1, <1>2, <1>4

(* No mark outlives its target, a deleted target stays deleted, the owner   *)
(* is told only of a row that is new with the commit, and what a request    *)
(* answers is so, but for one that wrote nothing and was crossed (likes.py, *)
(* comment_likes.py, bookmarks.py, want_to_try.py, wishlist.py), for any    *)
(* people and any requests.                                                 *)
THEOREM MarksAreKept == MarksSpec => MarksHold
<1>1. MarksInv /\ MarksInv' /\ [MarksNext]_marksVars =>
        [/\ target' = "gone" => mark' = {}
         /\ target = "gone" => target' = "gone"
         /\ \A h \in Press : Presses(h) /\ press'[h] # press[h] =>
              LET q == press[h]
                  AsAnswered == q.who \in mark' <=> q.op # "unset" IN
              /\ q.tells /\ mark' # mark => q.who \in mark' \ mark /\ q.who # Owner
              /\ q.tells => q.writes
              /\ mark' \ mark # {} /\ target = "removed" => q.crossed
              /\ mark' # mark /\ q.writes => AsAnswered
              /\ q.op \in {"set", "tool", "unset"} /\ ~q.writes => AsAnswered \/ q.crossed]_marksVars
  BY MarksStepHolds
<1> QED BY <1>1, MarksInvariant, PTL DEF MarksSpec, MarksHold

------------------------------------------------------------------------------
(* Pages.                                                                   *)

Present == {i \in Item : item[i].state # "absent"}

(* Where a row lies to the cursor.                                          *)
IsBeyond(i) ==
  \/ reader.cursor = 0
  \/ IF reader.way = "oldest" THEN item[i].stamp + 1 > reader.cursor
     ELSE item[i].stamp + 1 < reader.cursor

(* Once the list is open, what has been seen lies before the cursor, and    *)
(* what is owed and not seen lies beyond, or has a twin on the cursor.      *)
PagingInv ==
  /\ PagingTypeOK
  /\ IsFiniteSet(Present)
  /\ reader.seen \subseteq Present
  /\ \A i \in reader.owed : item[i].state = "shown"
  /\ reader.pc = "away" =>
       reader.cursor = 0 /\ reader.seen = {} /\ reader.again = {} /\ reader.owed = {}
  /\ reader.way \in Keyset =>
       /\ reader.again = {}
       /\ reader.pc = "reading" =>
            /\ \A i \in reader.seen : ~IsBeyond(i)
            /\ \A i \in reader.owed : i \in reader.seen \/ IsBeyond(i) \/ Tied(i)
       /\ reader.pc = "done" =>
            \A i \in reader.owed : i \in reader.seen \/ Tied(i)

LEMMA InPaging ==
  ASSUME PagingInv
  PROVE  /\ reader \in Reader /\ clock \in 0..MaxTime /\ item \in [Item -> ItemRow]
         /\ reader.seen \subseteq Item /\ reader.again \subseteq Item /\ reader.owed \subseteq Item
         /\ reader.way \in Way /\ reader.pc \in {"away", "reading", "done"}
         /\ reader.cursor \in Nat
         /\ \A i \in Item : /\ item[i] \in ItemRow /\ item[i].stamp \in Nat
                            /\ item[i].stamp \in 0..MaxTime
                            /\ item[i].state \in {"absent", "flushed", "shown", "hidden"}
         /\ MaxTime \in Nat /\ Limit \in Nat \ {0}
<1> USE PagingAssumption
<1> QED BY DEF PagingInv, PagingTypeOK, Reader, ItemRow

(* A change of rows that leaves the stamps of those that are there, takes   *)
(* none away, and leaves what is owed on show.                              *)
LEMMA RowsMove ==
  ASSUME PagingInv, NEW i \in Item,
         item' \in [Item -> ItemRow],
         \A j \in Item \ {i} : item'[j] = item[j],
         item'[i].state # "absent",
         item[i].state # "absent" => item'[i].stamp = item[i].stamp,
         clock' = clock,
         NEW owed \in SUBSET reader.owed,
         reader' = [reader EXCEPT !.owed = owed],
         \A j \in owed : item'[j].state = "shown"
  PROVE  PagingInv'
<1>1. /\ reader'.way = reader.way /\ reader'.pc = reader.pc /\ reader'.cursor = reader.cursor
      /\ reader'.seen = reader.seen /\ reader'.again = reader.again /\ reader'.owed = owed
      /\ reader' \in Reader
  BY InPaging DEF Reader
<1>2. PagingTypeOK'
  BY <1>1, InPaging DEF PagingTypeOK
<1>3. Present' = Present \cup {i}
  BY InPaging DEF Present
<1>4. IsFiniteSet(Present')
  BY <1>3, FS_AddElement DEF PagingInv
<1>5. \A j \in Present : item'[j].state # "absent" /\ item'[j].stamp = item[j].stamp
  BY DEF Present
<1>6. \A j \in Present : IsBeyond(j)' <=> IsBeyond(j)
  BY <1>1, <1>5 DEF IsBeyond
<1>7. \A j \in Present : Tied(j) => Tied(j)'
  BY <1>5 DEF Tied, Present
<1>8. reader.seen \subseteq Present /\ reader.owed \subseteq Present
  BY InPaging DEF PagingInv, Present
<1> QED BY <1>1, <1>2, <1>3, <1>4, <1>6, <1>7, <1>8 DEF PagingInv

LEMMA FlushItemKeeps ==
  ASSUME PagingInv, NEW i \in Item, FlushItem(i)
  PROVE  PagingInv'
<1>1. /\ item' = [item EXCEPT ![i] = [state |-> "flushed", stamp |-> clock]]
      /\ item[i].state = "absent" /\ clock' = clock /\ reader' = reader
  BY DEF FlushItem
<1>2. item' \in [Item -> ItemRow] /\ item'[i].state = "flushed" /\ \A j \in Item \ {i} : item'[j] = item[j]
  BY <1>1, InPaging DEF ItemRow
<1>3. \A j \in reader.owed : item'[j].state = "shown"
  BY <1>1, <1>2, InPaging DEF PagingInv
<1>4. reader' = [reader EXCEPT !.owed = reader.owed]
  BY <1>1, InPaging DEF Reader
<1> QED BY <1>1, <1>2, <1>3, <1>4, RowsMove

LEMMA TurnKeeps ==
  ASSUME PagingInv, NEW i \in Item, CommitItem(i) \/ HideItem(i) \/ ShowItem(i)
  PROVE  PagingInv'
<1>1. PICK to \in {"shown", "hidden"} :
        /\ item[i].state # "absent" /\ clock' = clock
        /\ item' = [item EXCEPT ![i].state = to]
        /\ \/ to = "shown" /\ reader' = reader
           \/ reader' = [reader EXCEPT !.owed = @ \ {i}]
  BY DEF CommitItem, HideItem, ShowItem, Turns
<1>2. /\ item' \in [Item -> ItemRow] /\ item'[i].state = to /\ item'[i].stamp = item[i].stamp
      /\ \A j \in Item \ {i} : item'[j] = item[j]
  BY <1>1, InPaging DEF ItemRow
<1>3. PICK owed \in SUBSET reader.owed :
        /\ reader' = [reader EXCEPT !.owed = owed]
        /\ \A j \in owed : item'[j].state = "shown"
  <2>1. CASE to = "shown" /\ reader' = reader
    <3>1. reader' = [reader EXCEPT !.owed = reader.owed]
      BY <2>1, InPaging DEF Reader
    <3>2. \A j \in reader.owed : item'[j].state = "shown"
      BY <1>2, <2>1, InPaging DEF PagingInv
    <3> QED BY <3>1, <3>2
  <2>2. CASE reader' = [reader EXCEPT !.owed = @ \ {i}]
    <3>1. \A j \in reader.owed \ {i} : item'[j].state = "shown"
      BY <1>2, InPaging DEF PagingInv
    <3>2. reader' = [reader EXCEPT !.owed = reader.owed \ {i}]
      BY <2>2
    <3> QED BY <3>1, <3>2
  <2> QED BY <1>1, <2>1, <2>2
<1> QED BY <1>1, <1>2, <1>3, RowsMove

LEMMA OpenListKeeps ==
  ASSUME PagingInv, OpenList
  PROVE  PagingInv'
<1> DEFINE shown == {i \in Item : item[i].state = "shown"}
<1>1. /\ reader.pc = "away" /\ clock' = clock /\ item' = item
      /\ reader' = [reader EXCEPT !.pc = "reading", !.owed = shown]
  BY DEF OpenList
<1>2. /\ reader'.way = reader.way /\ reader'.pc = "reading" /\ reader'.cursor = 0
      /\ reader'.seen = {} /\ reader'.again = {} /\ reader'.owed = shown
      /\ reader' \in Reader
  <2>1. shown \subseteq Item
    OBVIOUS
  <2> HIDE DEF shown
  <2> QED BY <1>1, <2>1, InPaging DEF PagingInv, Reader
<1>3. \A i \in Item : IsBeyond(i)'
  BY <1>2 DEF IsBeyond
<1> QED BY <1>1, <1>2, <1>3, InPaging DEF PagingInv, PagingTypeOK, Present


LEMMA BeyondIsFinite ==
  ASSUME PagingInv
  PROVE  /\ Beyond \subseteq Present /\ IsFiniteSet(Beyond) /\ Cardinality(Beyond) \in Nat
         /\ \A i \in Beyond : i \in Item /\ (reader.way # "stuck" => IsBeyond(i))
         /\ \A i \in Item : item[i].state = "shown" /\ IsBeyond(i) => i \in Beyond
<1>1. Beyond \subseteq Present
  BY DEF Beyond, InList, Present
<1>2. IsFiniteSet(Present)
  BY DEF PagingInv
<1>3. IsFiniteSet(Beyond)
  BY ONLY <1>1, <1>2, FS_Subset
<1>4. Cardinality(Beyond) \in Nat
  BY <1>3, FS_CardinalityType
<1> QED BY <1>1, <1>3, <1>4 DEF Beyond, InList, IsBeyond

(* The last page is all that lies beyond the cursor.                        *)
LEMMA LastPage ==
  ASSUME PagingInv, NEW p \in Firsts(Limit, Beyond), reader.way \in Keyset,
         p = {} \/ ~(Cardinality(Beyond) >= Probe)
  PROVE  p = Beyond
<1>1. /\ p \subseteq Beyond
      /\ Cardinality(p) = IF Cardinality(Beyond) < Limit THEN Cardinality(Beyond) ELSE Limit
  BY DEF Firsts
<1>2. IsFiniteSet(Beyond) /\ Cardinality(Beyond) \in Nat /\ Limit \in Nat \ {0}
  BY BeyondIsFinite, InPaging
<1>3. p = {} => Cardinality(p) = 0
  BY FS_EmptySet
<1>4. Probe = Limit + 1
  BY DEF Probe, Keyset
<1>5. Cardinality(p) = Cardinality(Beyond)
  BY <1>1, <1>2, <1>3, <1>4
<1> QED BY <1>1, <1>2, <1>5, FS_Subset

LEMMA ReadPageKeeps ==
  ASSUME PagingInv, NEW way, ReadPage(way)
  PROVE  PagingInv'
<1>1. PICK p \in Firsts(Limit, Beyond) :
        LET shown == {i \in p : item[i].state = "shown"}
            more == p # {} /\ Cardinality(Beyond) >= Probe IN
        \E cursor \in IF more THEN Resume(p) ELSE {reader.cursor} :
          reader' = [reader EXCEPT !.seen = @ \cup shown, !.again = @ \cup (shown \cap reader.seen),
                                   !.cursor = cursor, !.pc = IF more THEN @ ELSE "done"]
  BY DEF ReadPage
<1> DEFINE shown == {i \in p : item[i].state = "shown"}
           more == p # {} /\ Cardinality(Beyond) >= Probe
<1>2. PICK cursor \in IF more THEN Resume(p) ELSE {reader.cursor} :
        reader' = [reader EXCEPT !.seen = @ \cup shown, !.again = @ \cup (shown \cap reader.seen),
                                 !.cursor = cursor, !.pc = IF more THEN @ ELSE "done"]
  BY <1>1
<1>3. reader.pc = "reading" /\ clock' = clock /\ item' = item
  BY DEF ReadPage
<1>4. p \subseteq Beyond /\ shown \subseteq p /\ shown \subseteq Item /\ shown \subseteq Present
  BY BeyondIsFinite DEF Firsts
<1>5. \A i \in p, j \in Beyond \ p : Precedes(i, j)
  BY DEF Firsts
<1>6. more => \E l \in p : cursor = item[l].stamp + 1 /\ \A j \in p : Precedes(j, l)
  BY <1>2 DEF Resume, Lasts
<1>7. ~more => cursor = reader.cursor
  BY <1>2
<1>8. cursor \in 0..(MaxTime + 1)
  <2>1. CASE more
    BY <1>4, <1>6, <2>1, BeyondIsFinite, InPaging
  <2>2. CASE ~more
    BY <1>7, <2>2, InPaging DEF Reader
  <2> QED BY <2>1, <2>2
<1>9. PICK pc : pc = IF more THEN "reading" ELSE "done"
  OBVIOUS
<1>10. reader' = [reader EXCEPT !.seen = reader.seen \cup shown,
                    !.again = reader.again \cup (shown \cap reader.seen),
                    !.cursor = cursor, !.pc = pc]
  BY <1>2, <1>3, <1>9
<1>11. ~more /\ reader.way \in Keyset => p = Beyond
  BY LastPage
<1>12. more => pc = "reading"
  BY <1>9
<1>13. ~more => pc = "done"
  BY <1>9
<1>14. \A i \in shown : item[i].state = "shown"
  OBVIOUS
<1>15. \A i \in p : item[i].state = "shown" => i \in shown
  OBVIOUS
<1>16. \/ more
       \/ ~more
  OBVIOUS
<1> HIDE DEF shown, more
<1>20. /\ reader'.way = reader.way /\ reader'.pc = pc /\ reader'.cursor = cursor
       /\ reader'.seen = reader.seen \cup shown /\ reader'.owed = reader.owed
       /\ reader'.again = reader.again \cup (shown \cap reader.seen)
       /\ reader' \in Reader
  BY <1>4, <1>8, <1>10, <1>12, <1>13, <1>16, InPaging DEF Reader
<1>21. \A i \in Item : Tied(i)' <=> Tied(i)
  BY <1>3 DEF Tied
<1>22. ASSUME reader.way \in Keyset
       PROVE  /\ shown \cap reader.seen = {}
              /\ \A i \in reader.owed \ reader.seen : Tied(i) \/ i \in Beyond
  <2>1. \A i \in reader.seen : i \notin Beyond
    BY <1>3, <1>22, BeyondIsFinite DEF PagingInv, Keyset
  <2>2. \A i \in reader.owed : i \in reader.seen \/ IsBeyond(i) \/ Tied(i)
    BY <1>3, <1>22 DEF PagingInv
  <2>3. \A i \in reader.owed : item[i].state = "shown"
    BY DEF PagingInv
  <2> QED BY <1>4, <2>1, <2>2, <2>3, InPaging, BeyondIsFinite
<1>23. ASSUME reader.way \in Keyset, more
       PROVE  /\ \A i \in reader.seen \cup shown : ~IsBeyond(i)'
              /\ \A i \in reader.owed : i \in reader.seen \cup shown \/ IsBeyond(i)' \/ Tied(i)
  <2>1. PICK l \in p : cursor = item[l].stamp + 1 /\ \A j \in p : Precedes(j, l)
    BY <1>6, <1>23
  <2>2. l \in Beyond /\ l \in Item /\ l \in Present /\ IsBeyond(l) /\ item[l].stamp \in Nat
    BY <1>4, <1>23, BeyondIsFinite, InPaging DEF Keyset
  <2>3. \A i \in Item : IsBeyond(i)' <=>
          IF reader.way = "oldest" THEN item[i].stamp > item[l].stamp
          ELSE item[i].stamp < item[l].stamp
    BY <1>3, <1>20, <2>1, <2>2, InPaging DEF IsBeyond
  <2>4. ASSUME NEW i \in reader.seen PROVE ~IsBeyond(i)'
    <3>1. i \in Item /\ ~IsBeyond(i) /\ item[i].stamp \in Nat
      BY <1>3, <1>23, InPaging DEF PagingInv
    <3> QED BY <2>2, <2>3, <3>1, InPaging DEF IsBeyond
  <2>5. ASSUME NEW i \in shown PROVE ~IsBeyond(i)'
    <3>1. i \in Item /\ i \in p /\ item[i].stamp \in Nat
      BY <1>4, InPaging
    <3>2. Precedes(i, l)
      BY <2>1, <3>1
    <3> QED BY <1>23, <2>2, <2>3, <3>1, <3>2 DEF Precedes, Keyset
  <2>6. ASSUME NEW i \in reader.owed, i \notin reader.seen \cup shown, ~Tied(i)
        PROVE  IsBeyond(i)'
    <3>1. i \in Beyond /\ i \in Item /\ item[i].state = "shown" /\ item[i].stamp \in Nat
      BY <1>22, <1>23, <2>6, InPaging DEF PagingInv
    <3>2. i \notin p
      BY <1>15, <2>6, <3>1
    <3>3. Precedes(l, i)
      BY <1>5, <3>1, <3>2
    <3>4. item[i].stamp # item[l].stamp
      BY <2>2, <2>6, <3>1, <3>2 DEF Tied, Present
    <3> QED BY <1>23, <2>2, <2>3, <3>1, <3>3, <3>4 DEF Precedes, Keyset
  <2> QED BY <2>4, <2>5, <2>6
<1>24. ASSUME reader.way \in Keyset, ~more
       PROVE  \A i \in reader.owed : i \in reader.seen \cup shown \/ Tied(i)
  BY <1>11, <1>15, <1>22, <1>24 DEF PagingInv
<1>25. PagingTypeOK'
  BY <1>3, <1>20, InPaging DEF PagingTypeOK
<1>26. Present' = Present
  BY <1>3 DEF Present
<1> QED BY <1>3, <1>4, <1>12, <1>13, <1>16, <1>20, <1>21, <1>22, <1>23, <1>24, <1>25, <1>26, InPaging
        DEF PagingInv

LEMMA PagingStepKeeps ==
  ASSUME PagingInv, [PagingNext]_pagingVars
  PROVE  PagingInv'
<1>1. CASE UNCHANGED pagingVars
  BY <1>1 DEF pagingVars, PagingInv, PagingTypeOK, Present, IsBeyond, Tied
<1>2. CASE Tick
  <2>1. clock' \in 0..MaxTime /\ item' = item /\ reader' = reader
    BY <1>2, InPaging DEF Tick
  <2> QED BY <2>1 DEF PagingInv, PagingTypeOK, Present, IsBeyond, Tied
<1>3. CASE \E i \in Item : FlushItem(i) \/ CommitItem(i) \/ HideItem(i) \/ ShowItem(i)
  BY <1>3, FlushItemKeeps, TurnKeeps
<1>4. CASE OpenList
  BY <1>4, OpenListKeeps
<1>5. CASE \E way \in Way : ReadPage(way)
  BY <1>5, ReadPageKeeps
<1>6. PagingNext /\ ~Tick /\ ~OpenList
        /\ ~(\E i \in Item : FlushItem(i) \/ CommitItem(i) \/ HideItem(i) \/ ShowItem(i))
      => \E way \in Way : ReadPage(way)
  BY DEF PagingNext, Way, ListComments, ListReplies, ListNotifications, ListFollowEdges,
         ListBlockedUsers, ListMutedUsers, ListMyWantToTry, ListReports, ListMyBookmarks,
         GetUserReviews, GetFeedFollowing, GetFeedTop, GetFeedForYou, GetDishReviews
<1> QED BY <1>1, <1>2, <1>3, <1>4, <1>5, <1>6

THEOREM PagingInvariant == PagingSpec => []PagingInv
<1>1. PagingInit => PagingInv
  <2>1. PagingInit => PagingTypeOK
    BY PagingAssumption DEF PagingInit, PagingTypeOK, ItemRow, Reader
  <2>2. PagingInit => Present = {}
    BY DEF PagingInit, Present
  <2>3. IsFiniteSet({})
    BY FS_EmptySet
  <2>4. PagingInit => /\ reader.pc = "away" /\ reader.cursor = 0 /\ reader.seen = {}
                      /\ reader.again = {} /\ reader.owed = {}
    BY DEF PagingInit
  <2> QED BY <2>1, <2>2, <2>3, <2>4 DEF PagingInv
<1>2. PagingInv /\ [PagingNext]_pagingVars => PagingInv'
  BY PagingStepKeeps
<1> QED BY <1>1, <1>2, PTL DEF PagingSpec

(* A list with a cursor that is read to its end has shown every row that    *)
(* was there throughout, but for rows with a twin's created_at, and none    *)
(* twice (comments.py:193 and its like), for any number of rows, pages and  *)
(* ticks.                                                                   *)
THEOREM PagesShowAll == PagingSpec => []PagesMissNothing
<1>1. PagingInv => PagesMissNothing
  BY DEF PagingInv, PagesMissNothing, SeesAll
<1> QED BY <1>1, PagingInvariant, PTL

------------------------------------------------------------------------------
(* Comments.                                                                *)

(* What a request has at each of its stages.                                *)
ToldWell(q) ==
  \A t, u \in q.tells :
    /\ t[1] # q.row.by
    /\ t[1] = u[1] /\ t # u =>
         t[1] = Author /\ {t[2], u[2]} = {"comment", "comment_reply"}

HandStage(q) ==
  /\ q.op = "none" <=> q.pc = "still"
  /\ q.pc = "still" => q = Still
  /\ q.op \in {"comment", "reply", "edit"} => q.pc \in {"count", "write", "commit"} /\ q.id \in Note
  /\ q.op \in {"remove", "erase"} => q.pc \in {"write", "commit"}
  /\ q.op = "remove" => q.id \in Note /\ q.row.state = "removed"
  /\ q.op = "erase" => q.id = Top
  /\ q.op = "reply" => q.row.parent \in Note
  /\ q.tells # {} => q.op \in {"comment", "reply"}
  /\ ToldWell(q)

(* How it stands to the rows: what it adds is not there, what it updates is *)
(* what it has read, and nobody has posted since it counted, if nobody has  *)
(* passed it.                                                               *)
HandKnows(q) ==
  /\ q.op \in {"comment", "reply"} => note[q.id].state = "absent"
  /\ q.op = "reply" /\ ~q.passed => note[q.row.parent].state = "live"
  /\ q.op = "edit" /\ ~q.passed => note[q.id].state # "absent" /\ note[q.id].by = q.row.by
  /\ q.op \in {"comment", "reply", "edit"} /\ q.pc \in {"write", "commit"} /\ ~q.passed
       /\ q.row.body = "same" => Cardinality(Repeats(q.row.by)) < Threshold
  /\ q.op \in {"edit", "remove"} /\ q.pc = "commit" => note[q.id].state # "absent"
  /\ q.op = "edit" /\ q.pc = "commit" => q.row = [note[q.id] EXCEPT !.body = q.row.body]
  /\ q.op = "remove" /\ q.pc = "commit" => q.row = [note[q.id] EXCEPT !.state = "removed"]

(* Two requests do not write one row, and a new id is nobody else's.        *)
HandsApart(q, r) ==
  /\ q.pc = "commit" /\ r.pc = "commit" => q.op # "erase" /\ r.op # "erase" /\ q.id # r.id
  /\ q.op \in {"comment", "reply"} \/ r.op \in {"comment", "reply"} => q.id # r.id

Posted == {n \in Note : note[n].state # "absent"}

CommentsInv ==
  /\ CommentsTypeOK
  /\ \A h \in Hand : HandStage(hand[h]) /\ HandKnows(hand[h])
  /\ \A g \in Hand : \A h \in Hand \ {g} : HandsApart(hand[g], hand[h])
  /\ IsFiniteSet(Posted)
  /\ SpamIsBounded

USE CommentsAssumption

LEMMA InHand ==
  ASSUME CommentsInv, NEW h \in Hand
  PROVE  /\ hand[h] \in HandRecord /\ HandStage(hand[h]) /\ HandKnows(hand[h])
         /\ \A g \in Hand \ {h} : HandsApart(hand[h], hand[g])
         /\ hand[h].op \in {"none", "comment", "reply", "edit", "remove", "erase"}
         /\ hand[h].pc \in {"still", "count", "write", "commit"}
         /\ hand[h].row \in NoteRow /\ hand[h].row.by \in Member
         /\ hand[h].row.body \in Body
         /\ \A n \in Note : /\ note[n] \in NoteRow
                            /\ note[n].state \in {"absent", "live", "removed"}
                            /\ note[n].by \in Member /\ note[n].body \in Body
                            /\ note[n].parent \in Note \cup {Top}
BY DEF CommentsInv, CommentsTypeOK, HandRecord, NoteRow

LEMMA HandMoves ==
  ASSUME CommentsInv, NEW h \in Hand, NEW q \in HandRecord, HandIs(h, q),
         HandStage(q), HandKnows(q), \A g \in Hand \ {h} : HandsApart(q, hand[g])
  PROVE  CommentsInv'
<1>1. /\ review' = review /\ note' = note /\ slipped' = slipped
      /\ \A g \in Hand : hand'[g] = IF g = h THEN q ELSE hand[g]
      /\ hand' \in [Hand -> HandRecord]
  BY DEF HandIs, CommentsInv, CommentsTypeOK
<1>2. CommentsTypeOK'
  BY <1>1 DEF CommentsInv, CommentsTypeOK
<1>3. ASSUME NEW g \in Hand PROVE HandStage(hand[g])' /\ HandKnows(hand[g])'
  <2>1. PICK r \in HandRecord : r = hand'[g]
    BY <1>1
  <2>2. HandStage(r) /\ HandKnows(r)
    BY <1>1, <2>1, InHand
  <2>3. HandStage(hand[g])'
    BY <2>1, <2>2 DEF HandStage, ToldWell
  <2>4. HandKnows(hand[g])'
    BY <1>1, <2>1, <2>2 DEF HandKnows, Repeats
  <2> QED BY <2>3, <2>4
<1>4. ASSUME NEW g \in Hand, NEW f \in Hand \ {g} PROVE HandsApart(hand[g], hand[f])'
  BY <1>1, InHand DEF HandsApart
<1>5. IsFiniteSet(Posted)' /\ SpamIsBounded'
  BY <1>1 DEF CommentsInv, Posted, SpamIsBounded, Repeats
<1> QED BY <1>2, <1>3, <1>4, <1>5 DEF CommentsInv

LEMMA HandEnds ==
  ASSUME CommentsInv, NEW h \in Hand, HandIs(h, Still)
  PROVE  CommentsInv'
<1>1. Still \in HandRecord
  BY DEF Still, Blank, HandRecord, NoteRow, Body
<1>2. HandStage(Still) /\ HandKnows(Still)
  BY DEF Still, HandStage, HandKnows, ToldWell
<1>3. \A g \in Hand \ {h} : HandsApart(Still, hand[g])
  BY InHand DEF Still, HandStage, HandsApart
<1> QED BY <1>1, <1>2, <1>3, HandMoves

LEMMA NewNoteIsFree ==
  ASSUME CommentsInv, NEW n \in NewNote
  PROVE  n \in Note /\ note[n].state = "absent" /\ \A h \in Hand : hand[h].id # n
BY DEF NewNote

(* A request that begins.                                                   *)
LEMMA HandGoesKeeps ==
  ASSUME CommentsInv, NEW h \in Hand, NEW op, NEW pc, NEW n \in Note \cup {Top},
         NEW new \in NoteRow, HandGoes(h, op, pc, n, new),
         \/ /\ op \in {"comment", "reply"} /\ pc = "count" /\ n \in NewNote
            /\ op = "reply" => new.parent \in Note /\ note[new.parent].state = "live"
         \/ /\ op = "edit" /\ pc = "count" /\ n \in Note
            /\ note[n].state # "absent" /\ note[n].by = new.by
         \/ /\ op = "remove" /\ pc = "write" /\ n \in Note /\ new.state = "removed"
            /\ note[n].state # "absent"
         \/ op = "erase" /\ pc = "write" /\ n = Top
  PROVE  CommentsInv'
<1> DEFINE q == [Still EXCEPT !.op = op, !.pc = pc, !.id = n, !.row = new]
<1>1. /\ q.op = op /\ q.pc = pc /\ q.id = n /\ q.row = new /\ q.tells = {} /\ ~q.passed
      /\ q \in HandRecord
  BY DEF Still, HandRecord
<1>2. HandIs(h, q)
  BY DEF HandGoes
<1> HIDE DEF q
<1>3. HandStage(q)
  BY <1>1, NewNoteIsFree DEF HandStage, ToldWell
<1>4. HandKnows(q)
  BY <1>1, NewNoteIsFree DEF HandKnows
<1>5. ASSUME NEW g \in Hand \ {h} PROVE HandsApart(q, hand[g])
  <2>1. HandStage(hand[g]) /\ HandKnows(hand[g])
    BY InHand
  <2>2. q.pc # "commit"
    BY <1>1
  <2>3. CASE op \in {"comment", "reply"}
    BY <1>1, <2>2, <2>3, NewNoteIsFree DEF HandsApart
  <2>4. CASE op \notin {"comment", "reply"} /\ hand[g].op \in {"comment", "reply"}
    BY <1>1, <2>1, <2>2, <2>4 DEF HandsApart, HandStage, HandKnows
  <2> QED BY <1>1, <2>2, <2>3, <2>4 DEF HandsApart
<1> QED BY <1>1, <1>2, <1>3, <1>4, <1>5, HandMoves

LEMMA AsksKeep ==
  ASSUME CommentsInv, NEW h \in Hand,
         \/ \E p \in Member, body \in Body :
              \/ CreateComment(h, p, body)
              \/ \E parent \in Note : CreateReply(h, p, body, parent)
         \/ \E n \in Note :
              \/ \E body \in Body : UpdateComment(h, n, body)
              \/ DeleteComment(h, n)
         \/ EraseReview(h)
  PROVE  CommentsInv'
<1>1. ASSUME NEW p \in Member, NEW body \in Body, NEW parent \in Note \cup {Top}
      PROVE  NoteBy(p, parent, body) \in NoteRow /\ NoteBy(p, parent, body).parent = parent
  BY DEF NoteBy, NoteRow
<1>2. ASSUME NEW p \in Member, NEW body \in Body, CreateComment(h, p, body) PROVE CommentsInv'
  <2>1. PICK n \in NewNote : HandGoes(h, "comment", "count", n, NoteBy(p, Top, body))
    BY <1>2 DEF CreateComment
  <2> QED BY <1>1, <2>1, NewNoteIsFree, HandGoesKeeps
<1>3. ASSUME NEW p \in Member, NEW body \in Body, NEW parent \in Note,
             CreateReply(h, p, body, parent)
      PROVE  CommentsInv'
  <2>1. PICK n \in NewNote : HandGoes(h, "reply", "count", n, NoteBy(p, parent, body))
    BY <1>3 DEF CreateReply
  <2>2. note[parent].state = "live"
    BY <1>3 DEF CreateReply
  <2> QED BY <1>1, <2>1, <2>2, NewNoteIsFree, HandGoesKeeps
<1>4. ASSUME NEW n \in Note, NEW body \in Body, UpdateComment(h, n, body) PROVE CommentsInv'
  <2>1. [note[n] EXCEPT !.body = body] \in NoteRow /\ [note[n] EXCEPT !.body = body].by = note[n].by
    BY InHand DEF NoteRow
  <2>2. note[n].state = "live" /\ HandGoes(h, "edit", "count", n, [note[n] EXCEPT !.body = body])
    BY <1>4 DEF UpdateComment
  <2> QED BY <2>1, <2>2, HandGoesKeeps
<1>5. ASSUME NEW n \in Note, DeleteComment(h, n) PROVE CommentsInv'
  <2>1. /\ [note[n] EXCEPT !.state = "removed"] \in NoteRow
        /\ [note[n] EXCEPT !.state = "removed"].state = "removed"
    BY InHand DEF NoteRow
  <2>2. /\ note[n].state = "live"
        /\ HandGoes(h, "remove", "write", n, [note[n] EXCEPT !.state = "removed"])
    BY <1>5 DEF DeleteComment
  <2> QED BY <2>1, <2>2, HandGoesKeeps
<1>6. CASE EraseReview(h)
  <2>1. Blank \in NoteRow
    BY DEF Blank, NoteRow, Body
  <2> QED BY <1>6, <2>1, HandGoesKeeps DEF EraseReview
<1> QED BY <1>2, <1>3, <1>4, <1>5, <1>6

LEMMA CountRepeatsKeeps ==
  ASSUME CommentsInv, NEW h \in Hand, CountRepeats(h)
  PROVE  CommentsInv'
<1> DEFINE r == hand[h]
           q == [r EXCEPT !.pc = "write"]
<1>1. /\ r.pc = "count" /\ r.op \in {"comment", "reply", "edit"} /\ r \in HandRecord
      /\ HandStage(r) /\ HandKnows(r)
  BY InHand DEF CountRepeats, HandAt, HandStage
<1>2. CASE HandIs(h, Still)
  BY <1>2, HandEnds
<1>3. CASE HandIs(h, q) /\ AntiSpamCheck(r)
  <2>1. /\ q.op = r.op /\ q.pc = "write" /\ q.id = r.id /\ q.row = r.row /\ q.tells = r.tells
        /\ q.passed = r.passed /\ q \in HandRecord
    BY <1>1 DEF HandRecord
  <2>2. HandIs(h, q)
    BY <1>3
  <2> HIDE DEF q
  <2>3. HandStage(q)
    BY <1>1, <2>1 DEF HandStage, ToldWell
  <2>4. HandKnows(q)
    BY <1>1, <1>3, <2>1 DEF HandKnows, AntiSpamCheck
  <2>5. \A g \in Hand \ {h} : HandsApart(q, hand[g])
    BY <1>1, <2>1, InHand DEF HandsApart
  <2> QED BY <2>1, <2>2, <2>3, <2>4, <2>5, HandMoves
<1> QED BY <1>2, <1>3 DEF CountRepeats

(* Nobody is told twice, nor of what they did.                              *)
LEMMA TellingsAreGood ==
  ASSUME NEW q \in HandRecord, NEW mentioned \in SUBSET Member, NEW closed \in SUBSET Member,
         note \in [Note -> NoteRow],
         q.tells = Tellings(q.row.by, q.row.parent, mentioned, closed)
  PROVE  ToldWell(q)
<1> DEFINE p == q.row.by
           replied == {note[n].by : n \in {q.row.parent} \ {Top}}
<1>1. ASSUME NEW t \in q.tells
      PROVE  /\ t[1] # p
             /\ \/ t[1] = Author /\ t[2] = "comment" /\ t = <<Author, "comment">>
                \/ t[1] \in replied /\ t[2] = "comment_reply" /\ t = <<t[1], "comment_reply">>
                \/ t[1] \notin replied /\ t[1] # Author /\ t[2] = "mention" /\ t = <<t[1], "mention">>
  BY <1>1 DEF Tellings, TellsAuthor, TellsParent, Mentioned
<1>2. ASSUME NEW t \in q.tells, NEW u \in q.tells, t[1] = u[1], t # u
      PROVE  t[1] = Author /\ {t[2], u[2]} = {"comment", "comment_reply"}
  <2>1. {"comment", "comment_reply"} = {"comment_reply", "comment"}
    OBVIOUS
  <2>2. CASE t[2] = "comment"
    <3>1. u[2] = "comment_reply"
      BY <1>1, <1>2, <2>2
    <3> QED BY <1>1, <2>2, <3>1
  <2>3. CASE t[2] = "comment_reply"
    <3>1. u[2] = "comment" /\ u[1] = Author
      BY <1>1, <1>2, <2>3
    <3> QED BY <1>2, <2>1, <2>3, <3>1
  <2>4. CASE t[2] = "mention"
    BY <1>1, <1>2, <2>4
  <2> QED BY <1>1, <2>2, <2>3, <2>4
<1> QED BY <1>1, <1>2 DEF ToldWell

LEMMA InsertNoteKeeps ==
  ASSUME CommentsInv, NEW h \in Hand, NEW mentioned \in SUBSET Member,
         NEW closed \in SUBSET Member, InsertNote(h, mentioned, closed)
  PROVE  CommentsInv'
<1> DEFINE r == hand[h]
           tells == Tellings(r.row.by, r.row.parent, mentioned, closed)
           q == [r EXCEPT !.pc = "commit", !.tells = tells]
<1>1. /\ r.pc = "write" /\ r.op \in {"comment", "reply"} /\ r \in HandRecord
      /\ HandStage(r) /\ HandKnows(r)
      /\ \A d \in Hand \ {h} : ~HoldsUp(d, h)
  BY InHand DEF InsertNote, HandAt, OtherHands
<1>2. CASE HandIs(h, Still)
  BY <1>2, HandEnds
<1>3. CASE HandIs(h, q)
  <2>1. tells \subseteq Member \X Telling
    BY <1>1, InHand DEF Tellings, TellsAuthor, TellsParent, Mentioned, Telling, HandRecord, NoteRow
  <2>2. tells = Tellings(r.row.by, r.row.parent, mentioned, closed)
    OBVIOUS
  <2> HIDE DEF tells
  <2>3. /\ q.op = r.op /\ q.pc = "commit" /\ q.id = r.id /\ q.row = r.row /\ q.tells = tells
        /\ q.passed = r.passed /\ q \in HandRecord
    BY <1>1, <2>1 DEF HandRecord
  <2>4. HandIs(h, q)
    BY <1>3
  <2> HIDE DEF q
  <2>5. ToldWell(q)
    BY <2>2, <2>3, TellingsAreGood DEF CommentsInv, CommentsTypeOK
  <2>6. HandStage(q)
    BY <1>1, <2>3, <2>5 DEF HandStage
  <2>7. HandKnows(q)
    BY <1>1, <2>3 DEF HandKnows
  <2>8. \A g \in Hand \ {h} : HandsApart(q, hand[g])
    BY <1>1, <2>3, InHand DEF HandsApart, HoldsUp
  <2> QED BY <2>3, <2>4, <2>6, <2>7, <2>8, HandMoves
<1> QED BY <1>2, <1>3 DEF InsertNote

LEMMA UpdateNoteKeeps ==
  ASSUME CommentsInv, NEW h \in Hand, UpdateNote(h)
  PROVE  CommentsInv'
<1> DEFINE r == hand[h]
           now == IF r.id = Top THEN Blank ELSE note[r.id]
           new == CASE r.op = "edit" -> [now EXCEPT !.body = r.row.body]
                    [] r.op = "remove" -> [now EXCEPT !.state = r.row.state]
                    [] OTHER -> now
           q == [r EXCEPT !.pc = "commit", !.row = new]
<1>1. /\ r.pc = "write" /\ r.op \in {"edit", "remove", "erase"} /\ r \in HandRecord
      /\ HandStage(r) /\ HandKnows(r)
      /\ \A d \in Hand \ {h} : ~HoldsUp(d, h)
  BY InHand DEF UpdateNote, HandAt, OtherHands
<1>2. CASE HandIs(h, Still)
  BY <1>2, HandEnds
<1>3. CASE HandIs(h, q) /\ (now.state # "absent" \/ r.op = "erase")
  <2>1. now \in NoteRow /\ r.row \in NoteRow /\ r.row.body \in Body
    BY <1>1, InHand DEF HandRecord, Blank, NoteRow, Body
  <2>2. r.op \in {"edit", "remove"} => now = note[r.id] /\ r.id \in Note
    BY <1>1 DEF HandStage
  <2> HIDE DEF now
  <2>3. /\ new \in NoteRow
        /\ r.op = "edit" => new = [now EXCEPT !.body = r.row.body] /\ new.by = now.by
                            /\ new.body = r.row.body
        /\ r.op = "remove" => new = [now EXCEPT !.state = "removed"] /\ new.state = "removed"
    BY <1>1, <2>1 DEF NoteRow, HandStage
  <2> HIDE DEF new
  <2>4. /\ q.op = r.op /\ q.pc = "commit" /\ q.id = r.id /\ q.row = new /\ q.tells = r.tells
        /\ q.passed = r.passed /\ q \in HandRecord
    BY <1>1, <2>3 DEF HandRecord
  <2>5. HandIs(h, q)
    BY <1>3
  <2> HIDE DEF q
  <2>6. HandStage(q)
    <3>1. r.tells = {}
      BY <1>1 DEF HandStage
    <3> QED BY <1>1, <2>3, <2>4, <3>1 DEF HandStage, ToldWell
  <2>7. HandKnows(q)
    <3>1. q.op = "edit" => q.row = [note[q.id] EXCEPT !.body = q.row.body]
      BY <2>2, <2>3, <2>4
    <3>2. q.op = "remove" => q.row = [note[q.id] EXCEPT !.state = "removed"]
      BY <2>2, <2>3, <2>4
    <3>3. q.op = "edit" /\ ~q.passed => /\ note[q.id].state # "absent" /\ note[q.id].by = q.row.by
                                        /\ r.row.by = q.row.by /\ q.row.body = r.row.body
      BY <1>1, <2>2, <2>3, <2>4 DEF HandKnows
    <3>4. q.op \in {"edit", "remove"} => note[q.id].state # "absent"
      BY <1>3, <2>2, <2>4
    <3> QED BY <1>1, <2>4, <3>1, <3>2, <3>3, <3>4 DEF HandKnows
  <2>8. \A g \in Hand \ {h} : HandsApart(q, hand[g])
    BY <1>1, <2>4, InHand DEF HandsApart, HoldsUp
  <2> QED BY <2>4, <2>5, <2>6, <2>7, <2>8, HandMoves
<1> QED BY <1>2, <1>3 DEF UpdateNote

(* What a commit does to the requests.                                      *)
LEMMA AfterFinished ==
  ASSUME CommentsInv, NEW h \in Hand, Finished(h)
  PROVE  /\ hand' \in [Hand -> HandRecord]
         /\ hand'[h] = Still
         /\ \A g \in Hand \ {h} :
              /\ hand'[g].op = hand[g].op /\ hand'[g].pc = hand[g].pc
              /\ hand'[g].id = hand[g].id /\ hand'[g].row = hand[g].row
              /\ hand'[g].tells = hand[g].tells
              /\ hand'[g].passed = (hand[g].pc # "still")
              /\ hand[g].pc = "still" => hand'[g] = Still
<1>1. Still \in HandRecord
  BY DEF Still, Blank, HandRecord, NoteRow, Body
<1>2. hand'[h] = Still
  BY DEF Finished
<1>3. ASSUME NEW g \in Hand \ {h}
      PROVE  /\ hand'[g] \in HandRecord
             /\ hand'[g].op = hand[g].op /\ hand'[g].pc = hand[g].pc
             /\ hand'[g].id = hand[g].id /\ hand'[g].row = hand[g].row
             /\ hand'[g].tells = hand[g].tells
             /\ hand'[g].passed = (hand[g].pc # "still")
             /\ hand[g].pc = "still" => hand'[g] = Still
  <2> DEFINE c == hand[g].pc # "still"
  <2>1. c \in BOOLEAN /\ c = (hand[g].pc # "still")
    OBVIOUS
  <2>2. hand'[g] = [hand[g] EXCEPT !.passed = c]
    BY DEF Finished, HandAt
  <2>3. hand[g] \in HandRecord /\ (hand[g].pc = "still" => hand[g] = Still)
    BY InHand DEF HandStage
  <2>4. hand[g].pc = "still" => hand'[g] = Still
    <3>1. CASE hand[g].pc = "still"
      <4>1. hand'[g] = [Still EXCEPT !.passed = FALSE]
        BY <2>2, <2>3, <3>1
      <4> QED BY <4>1 DEF Still
    <3> QED BY <3>1
  <2> HIDE DEF c
  <2> QED BY <2>1, <2>2, <2>3, <2>4 DEF HandRecord
<1>4. DOMAIN hand' = Hand /\ hand' = [g \in Hand |-> hand'[g]]
  BY DEF Finished
<1> QED BY <1>1, <1>2, <1>3, <1>4

(* A commit keeps what the others have, if it leaves the rows that they     *)
(* have written.                                                            *)
LEMMA OthersKeep ==
  ASSUME CommentsInv, NEW h \in Hand, Finished(h),
         \A g \in Hand \ {h} :
           /\ hand[g].op \in {"comment", "reply"} => note'[hand[g].id].state = "absent"
           /\ hand[g].op \in {"edit", "remove"} /\ hand[g].pc = "commit" =>
                note'[hand[g].id] = note[hand[g].id]
  PROVE  /\ \A g \in Hand : HandStage(hand[g])' /\ HandKnows(hand[g])'
         /\ \A g \in Hand : \A f \in Hand \ {g} : HandsApart(hand[g], hand[f])'
<1>1. HandStage(Still) /\ HandKnows(Still)'
  BY DEF Still, HandStage, HandKnows, ToldWell
<1>2. ASSUME NEW g \in Hand PROVE HandStage(hand[g])'
  <2>1. PICK r \in HandRecord : r = hand'[g]
    BY AfterFinished
  <2>2. HandStage(r)
    <3>1. CASE g = h
      BY <1>1, <2>1, <3>1, AfterFinished
    <3>2. CASE g # h
      <4>1. HandStage(hand[g])
        BY InHand
      <4>2. hand[g].pc = "still" => r = Still
        BY <2>1, <3>2, AfterFinished
      <4>3. /\ r.op = hand[g].op /\ r.pc = hand[g].pc /\ r.id = hand[g].id
            /\ r.row = hand[g].row /\ r.tells = hand[g].tells
        BY <2>1, <3>2, AfterFinished
      <4> QED BY <4>1, <4>2, <4>3 DEF HandStage, ToldWell
    <3> QED BY <3>1, <3>2
  <2> QED BY <2>1, <2>2 DEF HandStage, ToldWell
<1>3. ASSUME NEW g \in Hand PROVE HandKnows(hand[g])'
  <2>1. CASE g = h
    BY <2>1, AfterFinished DEF HandKnows, Still
  <2>2. CASE g # h
    <3>1. HandStage(hand[g]) /\ HandKnows(hand[g])
      BY InHand
    <3>2. /\ hand'[g].op = hand[g].op /\ hand'[g].pc = hand[g].pc /\ hand'[g].id = hand[g].id
          /\ hand'[g].row = hand[g].row
          /\ hand[g].op \in {"comment", "reply", "edit", "remove"} => hand'[g].passed
      BY <2>2, <3>1, AfterFinished DEF HandStage
    <3> QED BY <2>2, <3>1, <3>2 DEF HandKnows
  <2> QED BY <2>1, <2>2
<1>4. ASSUME NEW g \in Hand, NEW f \in Hand \ {g} PROVE HandsApart(hand[g], hand[f])'
  <2>1. HandStage(hand[g]) /\ HandStage(hand[f]) /\ HandsApart(hand[g], hand[f])
    BY InHand
  <2>2. CASE g # h /\ f # h
    BY <2>1, <2>2, AfterFinished DEF HandsApart
  <2>3. CASE g = h
    BY <2>1, <2>3, AfterFinished DEF HandsApart, HandStage, Still
  <2>4. CASE f = h
    BY <2>1, <2>4, AfterFinished DEF HandsApart, HandStage, Still
  <2> QED BY <2>2, <2>3, <2>4
<1> QED BY <1>2, <1>3, <1>4

LEMMA RepeatsAreFinite ==
  ASSUME CommentsInv, NEW p
  PROVE  IsFiniteSet(Repeats(p)) /\ Cardinality(Repeats(p)) \in Nat
<1>1. Repeats(p) \subseteq Posted /\ IsFiniteSet(Posted)
  BY DEF Repeats, Posted, CommentsInv
<1>2. IsFiniteSet(Repeats(p))
  BY ONLY <1>1, FS_Subset
<1> QED BY <1>2, FS_CardinalityType

(* A commit of one comment: what its request counted is still so, or it is  *)
(* listed as slipped.                                                       *)
LEMMA CommitNoteCounts ==
  ASSUME CommentsInv, NEW h \in Hand, CommitNote(h), NEW p \in Member
  PROVE  Cardinality(Repeats(p)' \ slipped') <= Threshold
<1> DEFINE q == hand[h]
<1>1. /\ q.pc = "commit" /\ q.op \in {"comment", "reply", "edit", "remove"} /\ q.id \in Note
      /\ HandStage(q) /\ HandKnows(q) /\ q \in HandRecord /\ q.row.body \in Body
  BY InHand DEF CommitNote, HandAt, HandStage
<1>2. /\ note'[q.id] = q.row /\ \A n \in Note \ {q.id} : note'[n] = note[n]
      /\ slipped' = IF q.passed /\ q.op # "remove" THEN slipped \cup {q.id} ELSE slipped
  BY <1>1 DEF CommitNote, CommentsInv, CommentsTypeOK
<1>3. \A n : n \in Repeats(p)' <=>
        n \in Note /\ note'[n].state # "absent" /\ note'[n].by = p /\ note'[n].body = "same"
  BY DEF Repeats
<1>4. \A n : n \in Repeats(p) <=>
        n \in Note /\ note[n].state # "absent" /\ note[n].by = p /\ note[n].body = "same"
  BY DEF Repeats
<1>5. PICK after : after = Repeats(p)'
  OBVIOUS
<1>6. IsFiniteSet(Repeats(p)) /\ IsFiniteSet(Repeats(p) \ slipped)
      /\ Cardinality(Repeats(p)) \in Nat /\ Cardinality(Repeats(p) \ slipped) \in Nat
  <2>1. IsFiniteSet(Repeats(p)) /\ Cardinality(Repeats(p)) \in Nat
    BY RepeatsAreFinite
  <2>2. Repeats(p) \ slipped \subseteq Repeats(p)
    OBVIOUS
  <2>3. IsFiniteSet(Repeats(p) \ slipped)
    BY ONLY <2>1, <2>2, FS_Subset
  <2> QED BY <2>1, <2>3, FS_CardinalityType
<1>7. Cardinality(Repeats(p) \ slipped) <= Threshold
  BY DEF CommentsInv, SpamIsBounded
<1>8. CASE after \ slipped' \subseteq Repeats(p) \ slipped
  <2>1. Cardinality(after \ slipped') \in Nat
        /\ Cardinality(after \ slipped') <= Cardinality(Repeats(p) \ slipped)
    <3>1. /\ IsFiniteSet(after \ slipped')
          /\ Cardinality(after \ slipped') <= Cardinality(Repeats(p) \ slipped)
      BY <1>6, <1>8, FS_Subset
    <3> QED BY <3>1, FS_CardinalityType
  <2> QED BY <1>5, <1>6, <1>7, <2>1
<1>9. CASE /\ after \ slipped' \subseteq Repeats(p) \cup {q.id}
           /\ Cardinality(Repeats(p)) < Threshold
  <2>1. /\ IsFiniteSet(Repeats(p) \cup {q.id})
        /\ Cardinality(Repeats(p) \cup {q.id}) <= Cardinality(Repeats(p)) + 1
        /\ Cardinality(Repeats(p) \cup {q.id}) \in Nat
    <3>1. /\ IsFiniteSet(Repeats(p) \cup {q.id})
          /\ Cardinality(Repeats(p) \cup {q.id}) =
               IF q.id \in Repeats(p) THEN Cardinality(Repeats(p)) ELSE Cardinality(Repeats(p)) + 1
      BY <1>6, FS_AddElement
    <3> QED BY <1>6, <3>1
  <2>2. Cardinality(after \ slipped') \in Nat
        /\ Cardinality(after \ slipped') <= Cardinality(Repeats(p) \cup {q.id})
    <3>1. /\ IsFiniteSet(after \ slipped')
          /\ Cardinality(after \ slipped') <= Cardinality(Repeats(p) \cup {q.id})
      BY <1>9, <2>1, FS_Subset
    <3> QED BY <3>1, FS_CardinalityType
  <2> QED BY <1>5, <1>6, <1>9, <2>1, <2>2
<1>10. CASE q.op = "remove"
  <2>1. /\ note[q.id].state # "absent" /\ q.row.by = note[q.id].by /\ q.row.body = note[q.id].body
    BY <1>1, <1>10, InHand DEF HandKnows, NoteRow
  <2>2. after \subseteq Repeats(p)
    BY <1>2, <1>3, <1>4, <1>5, <2>1
  <2> QED BY <1>2, <1>8, <1>10, <2>2
<1>11. CASE q.op # "remove" /\ q.passed
  BY <1>2, <1>3, <1>4, <1>5, <1>8, <1>11
<1>12. CASE q.op # "remove" /\ ~q.passed
  <2>1. CASE q.row.by = p /\ q.row.body = "same"
    <3>1. Cardinality(Repeats(p)) < Threshold
      BY <1>1, <1>12, <2>1 DEF HandKnows
    <3>2. after \ slipped' \subseteq Repeats(p) \cup {q.id}
      BY <1>2, <1>3, <1>4, <1>5
    <3> QED BY <1>9, <3>1, <3>2
  <2>2. CASE ~ (q.row.by = p /\ q.row.body = "same")
    <3>1. q.id \notin after
      BY <1>2, <1>3, <1>5, <2>2
    <3> QED BY <1>2, <1>3, <1>4, <1>5, <1>8, <1>12, <3>1
  <2> QED BY <2>1, <2>2
<1> QED BY <1>10, <1>11, <1>12

LEMMA CommitNoteKeeps ==
  ASSUME CommentsInv, NEW h \in Hand, CommitNote(h)
  PROVE  CommentsInv'
<1> DEFINE q == hand[h]
<1>1. /\ q.pc = "commit" /\ q.op \in {"comment", "reply", "edit", "remove"} /\ q.id \in Note
      /\ q.row \in NoteRow
  BY InHand DEF CommitNote, HandAt, HandStage
<1>2. /\ note'[q.id] = q.row /\ \A n \in Note \ {q.id} : note'[n] = note[n]
      /\ note' \in [Note -> NoteRow] /\ review' = review /\ slipped' \subseteq Note
      /\ Finished(h)
  BY <1>1 DEF CommitNote, CommentsInv, CommentsTypeOK
<1>3. CommentsTypeOK'
  BY <1>2, AfterFinished DEF CommentsInv, CommentsTypeOK
<1>4. ASSUME NEW g \in Hand \ {h}
      PROVE  /\ hand[g].op \in {"comment", "reply"} => note'[hand[g].id].state = "absent"
             /\ hand[g].op \in {"edit", "remove"} /\ hand[g].pc = "commit" =>
                  note'[hand[g].id] = note[hand[g].id]
  <2>1. HandStage(hand[g]) /\ HandKnows(hand[g]) /\ HandsApart(hand[h], hand[g])
    BY InHand
  <2> QED BY <1>1, <1>2, <2>1 DEF HandStage, HandKnows, HandsApart
<1>5. IsFiniteSet(Posted)'
  <2>1. Posted' \subseteq Posted \cup {q.id}
    BY <1>2 DEF Posted
  <2>2. IsFiniteSet(Posted \cup {q.id})
    BY FS_AddElement DEF CommentsInv
  <2> QED BY <2>1, <2>2, FS_Subset
<1>6. SpamIsBounded'
  BY CommitNoteCounts DEF SpamIsBounded
<1>7. /\ \A g \in Hand : HandStage(hand[g])' /\ HandKnows(hand[g])'
      /\ \A g \in Hand : \A f \in Hand \ {g} : HandsApart(hand[g], hand[f])'
  BY <1>2, <1>4, OthersKeep
<1> QED BY <1>3, <1>5, <1>6, <1>7 DEF CommentsInv

LEMMA CommitErasedKeeps ==
  ASSUME CommentsInv, NEW h \in Hand, CommitErased(h)
  PROVE  CommentsInv'
<1>1. /\ hand[h].pc = "commit" /\ hand[h].op = "erase" /\ Finished(h)
      /\ review' = FALSE /\ note' = [n \in Note |-> Blank] /\ slipped' = {}
  BY DEF CommitErased, HandAt
<1>2. Blank \in NoteRow /\ Blank.state = "absent"
  BY DEF Blank, NoteRow, Body
<1>3. CommentsTypeOK'
  BY <1>1, <1>2, AfterFinished DEF CommentsTypeOK
<1>4. ASSUME NEW g \in Hand \ {h}
      PROVE  /\ hand[g].op \in {"comment", "reply"} => note'[hand[g].id].state = "absent"
             /\ hand[g].op \in {"edit", "remove"} /\ hand[g].pc = "commit" =>
                  note'[hand[g].id] = note[hand[g].id]
  <2>1. HandStage(hand[g]) /\ HandsApart(hand[h], hand[g])
    BY InHand
  <2> QED BY <1>1, <1>2, <2>1 DEF HandStage, HandsApart
<1>5. Posted' = {} /\ \A p : Repeats(p)' = {}
  BY <1>1, <1>2 DEF Posted, Repeats
<1>6. IsFiniteSet(Posted)' /\ SpamIsBounded'
  <2>1. \A T : {} \ T = {}
    OBVIOUS
  <2>2. \A p : Repeats(p)' \ slipped' = {}
    BY <1>5
  <2>3. SpamIsBounded'
    BY <2>2, FS_EmptySet DEF SpamIsBounded
  <2> QED BY <1>5, <2>3, FS_EmptySet
<1>7. /\ \A g \in Hand : HandStage(hand[g])' /\ HandKnows(hand[g])'
      /\ \A g \in Hand : \A f \in Hand \ {g} : HandsApart(hand[g], hand[f])'
  BY <1>1, <1>4, OthersKeep
<1> QED BY <1>3, <1>6, <1>7 DEF CommentsInv

LEMMA CommentsStepKeeps ==
  ASSUME CommentsInv, [CommentsNext]_commentVars
  PROVE  CommentsInv'
<1>1. CASE UNCHANGED commentVars
  <2>1. review' = review /\ note' = note /\ hand' = hand /\ slipped' = slipped
    BY <1>1 DEF commentVars
  <2>2. CommentsTypeOK' /\ IsFiniteSet(Posted)' /\ SpamIsBounded'
    BY <2>1 DEF CommentsInv, CommentsTypeOK, Posted, SpamIsBounded, Repeats
  <2>3. ASSUME NEW g \in Hand PROVE HandStage(hand[g])' /\ HandKnows(hand[g])'
    <3>1. PICK r \in HandRecord : r = hand'[g]
      BY <2>1, InHand
    <3>2. HandStage(r) /\ HandKnows(r)
      BY <2>1, <3>1, InHand
    <3>3. HandStage(hand[g])'
      BY <3>1, <3>2 DEF HandStage, ToldWell
    <3>4. HandKnows(hand[g])'
      BY <2>1, <3>1, <3>2 DEF HandKnows, Repeats
    <3> QED BY <3>3, <3>4
  <2>4. ASSUME NEW g \in Hand, NEW f \in Hand \ {g} PROVE HandsApart(hand[g], hand[f])'
    BY <2>1, InHand DEF HandsApart
  <2> QED BY <2>2, <2>3, <2>4 DEF CommentsInv
<1>2. ASSUME NEW h \in Hand, AbortNote(h) PROVE CommentsInv'
  BY <1>2, HandEnds DEF AbortNote
<1> QED BY <1>1, <1>2, AsksKeep, CountRepeatsKeeps, InsertNoteKeeps, UpdateNoteKeeps,
           CommitNoteKeeps, CommitErasedKeeps DEF CommentsNext

THEOREM CommentsInvariant == CommentsSpec => []CommentsInv
<1>1. CommentsInit => CommentsInv
  <2>1. CommentsInit => CommentsTypeOK
    BY DEF CommentsInit, CommentsTypeOK, Blank, Still, NoteRow, HandRecord, Body
  <2>2. CommentsInit => Posted = {} /\ \A p : Repeats(p) \ slipped = {}
    BY DEF CommentsInit, Posted, Repeats, Blank
  <2>3. CommentsInit => IsFiniteSet(Posted) /\ SpamIsBounded
    BY <2>2, FS_EmptySet DEF SpamIsBounded
  <2>4. CommentsInit => \A h \in Hand : HandStage(hand[h]) /\ HandKnows(hand[h])
    BY DEF CommentsInit, HandStage, HandKnows, ToldWell, Still
  <2>5. CommentsInit => \A g \in Hand : \A h \in Hand \ {g} : HandsApart(hand[g], hand[h])
    BY DEF CommentsInit, HandsApart, Still
  <2> QED BY <2>1, <2>3, <2>4, <2>5 DEF CommentsInv
<1>2. CommentsInv /\ [CommentsNext]_commentVars => CommentsInv'
  BY CommentsStepKeeps
<1> QED BY <1>1, <1>2, PTL DEF CommentsSpec

LEMMA OnlyCommitsPost ==
  ASSUME CommentsInv, [CommentsNext]_commentVars
  PROVE  \/ note' = note /\ review' = review
         \/ \E h \in Hand : CommitNote(h) \/ CommitErased(h)
<1> USE DEF HandIs, HandGoes
<1> QED BY DEF CommentsNext, commentVars, CreateComment, CreateReply, UpdateComment,
               DeleteComment, EraseReview, CountRepeats, InsertNote, UpdateNote, AbortNote

LEMMA CommentsStepHolds ==
  ASSUME CommentsInv, [CommentsNext]_commentVars
  PROVE  /\ review' => \A n \in Note : note[n].state = "removed" => note'[n].state = "removed"
         /\ \A h \in Hand : \A n \in Note :
              (hand[h].op = "reply" /\ ~hand[h].passed /\ note'[hand[h].id] # note[hand[h].id]
                 /\ hand[h].row.parent = n) => note[n].state = "live"
<1>1. ASSUME review', NEW n \in Note, note[n].state = "removed"
      PROVE  note'[n].state = "removed"
  <2>1. CASE note' = note
    BY <1>1, <2>1
  <2>2. CASE \E h \in Hand : CommitErased(h)
    BY <1>1, <2>2 DEF CommitErased
  <2>3. ASSUME NEW h \in Hand, CommitNote(h) PROVE note'[n].state = "removed"
    <3>1. /\ hand[h].pc = "commit" /\ hand[h].op \in {"comment", "reply", "edit", "remove"}
          /\ HandStage(hand[h]) /\ HandKnows(hand[h]) /\ hand[h].id \in Note
      BY <2>3, InHand DEF CommitNote, HandAt, HandStage
    <3>2. /\ note'[hand[h].id] = hand[h].row
          /\ \A m \in Note \ {hand[h].id} : note'[m] = note[m]
      BY <2>3, <3>1 DEF CommitNote, CommentsInv, CommentsTypeOK
    <3>3. CASE n # hand[h].id
      BY <1>1, <3>2, <3>3
    <3>4. CASE n = hand[h].id
      <4>1. hand[h].op \in {"edit", "remove"}
        BY <1>1, <3>1, <3>4 DEF HandKnows
      <4>2. hand[h].row.state = "removed"
        BY <1>1, <3>1, <3>4, <4>1, InHand DEF HandKnows, HandStage, NoteRow
      <4> QED BY <3>2, <3>4, <4>2
    <3> QED BY <3>3, <3>4
  <2> QED BY <2>1, <2>2, <2>3, OnlyCommitsPost
<1>2. ASSUME NEW h \in Hand, hand[h].op = "reply", ~hand[h].passed
      PROVE  note[hand[h].row.parent].state = "live"
  BY <1>2, InHand DEF HandKnows
<1> QED BY <1>1, <1>2

(* Nobody posts one body more often than the limit allows unless passed     *)
(* between the count and the commit, everybody is told at most once but the *)
(* author of a comment on their own review, a removed comment stays removed *)
(* and draws no reply but a crossed one (comments.py:63, 262, 309).         *)
THEOREM CommentsAreKept == CommentsSpec => CommentsHold
<1>1. CommentsInv => SpamIsBounded /\ ToldOnce
  <2>1. CommentsInv => \A h \in Hand : ToldWell(hand[h])
    BY DEF CommentsInv, HandStage
  <2> QED BY <2>1 DEF CommentsInv, ToldOnce, ToldWell
<1>2. CommentsInv /\ [CommentsNext]_commentVars =>
        [/\ review' => \A n \in Note : note[n].state = "removed" => note'[n].state = "removed"
         /\ \A h \in Hand : \A n \in Note :
              (hand[h].op = "reply" /\ ~hand[h].passed /\ note'[hand[h].id] # note[hand[h].id]
                 /\ hand[h].row.parent = n) => note[n].state = "live"]_commentVars
  BY CommentsStepHolds
<1> QED BY <1>1, <1>2, CommentsInvariant, PTL DEF CommentsSpec, CommentsHold, RemovedForGood

------------------------------------------------------------------------------
(* Settings.                                                                *)

Cells == UNION {[d -> SUBSET (Word \cup Thing)] : d \in SUBSET Columns}
SlotRecord ==
  [op : SlotOp, pc : {"unused", "turn", "flush", "commit"}, found : BOOLEAN,
   base : Cells, sets : Cells, wants : Cells, crossed : BOOLEAN]

(* What fits the columns.                                                   *)
Fits(f) ==
  /\ \A c \in DOMAIN f : f[c] \in CellValue(c)
  /\ "allergies" \in DOMAIN f =>
       IsFiniteSet(f["allergies"]) /\ Cardinality(f["allergies"]) <= Cap

(* What a request has at each of its stages.                                *)
SlotStage(q) ==
  /\ q.op = "none" <=> q.pc = "unused"
  /\ q.pc = "unused" => q = Unused
  /\ q.pc = "turn" => q.op = "merge"
  /\ Fits(q.sets)
  /\ q.op = "upsert" => q.sets = q.wants
  /\ q.op \in {"dismiss", "restore"} =>
       table = "tours" /\ DOMAIN q.sets = {"dismissed"} /\ q.sets = q.wants
  /\ q.op = "form" => /\ q.wants = [c \in Columns |-> q.wants[c]]
                      /\ \A c \in DOMAIN q.sets : q.sets[c] = q.wants[c]
  /\ q.op = "merge" => table = "taste"
  /\ q.pc = "turn" /\ q.found => DOMAIN q.base = Columns /\ Fits(q.base)

(* How it stands to the row, if nobody has crossed it: what a form leaves   *)
(* out is as it wants it, a turn has the profile, and what it adds to it is *)
(* all it was told, or fills it.                                            *)
SlotKnows(q) ==
  ~q.crossed =>
    /\ q.op = "form" => \A c \in Columns : c \notin DOMAIN q.sets => q.wants[c] = cell[c]
    /\ q.pc = "turn" /\ q.found => q.base["allergies"] = cell["allergies"]
    /\ q.op = "merge" /\ q.pc \in {"flush", "commit"} =>
         LET all == After(q, "allergies")
             told == q.wants["allergies"] IN
         /\ cell["allergies"] \subseteq all
         /\ all \subseteq cell["allergies"] \cup told
         /\ told \subseteq all \/ Cardinality(all) = Cap

PreferencesInv ==
  /\ table \in Table
  /\ there \in BOOLEAN
  /\ cell \in Cells /\ DOMAIN cell = Columns /\ Fits(cell)
  /\ slot \in [Slot -> SlotRecord]
  /\ \A s \in Slot : SlotStage(slot[s]) /\ SlotKnows(slot[s])

USE PreferencesAssumption

LEMMA InCells ==
  ASSUME NEW f \in Cells
  PROVE  IsCells(f) /\ f = [c \in DOMAIN f |-> f[c]]
BY DEF Cells, IsCells

LEMMA CellsAre ==
  ASSUME NEW d \in SUBSET Columns, NEW f \in [d -> SUBSET (Word \cup Thing)]
  PROVE  f \in Cells
BY DEF Cells

LEMMA ValuesAreWords ==
  ASSUME NEW c, NEW v \in CellValue(c)
  PROVE  v \in SUBSET (Word \cup Thing)
BY DEF CellValue

LEMMA NothingFits == NoCells \in Cells /\ DOMAIN NoCells = {} /\ Fits(NoCells)
<1>1. DOMAIN NoCells = {} /\ NoCells \in [{} -> SUBSET (Word \cup Thing)]
  BY DEF NoCells
<1> QED BY <1>1, CellsAre DEF Fits

LEMMA TableColumns ==
  ASSUME table \in Table
  PROVE  /\ table = "voice" => Columns = {"language", "style"}
         /\ table = "taste" => Columns = {"allergies", "hours"}
         /\ table = "mails" => Columns = {"notify"}
         /\ table = "tours" => Columns = {"dismissed"}
BY DEF Table, Columns, ColumnsOf

LEMMA SettingsAreTyped == PreferencesInv => PreferencesTypeOK
<1> SUFFICES ASSUME PreferencesInv PROVE PreferencesTypeOK
  OBVIOUS
<1>1. \A c \in Columns : cell[c] \in CellValue(c)
  BY DEF PreferencesInv, Fits
<1>2. table = "taste" => Cardinality(cell["allergies"]) <= Cap
  BY TableColumns DEF PreferencesInv, Fits
<1>3. ASSUME NEW s \in Slot
      PROVE  /\ slot[s].op \in SlotOp /\ slot[s].pc \in {"unused", "turn", "flush", "commit"}
             /\ slot[s].found \in BOOLEAN /\ slot[s].crossed \in BOOLEAN
             /\ IsCells(slot[s].base) /\ IsCells(slot[s].sets) /\ IsCells(slot[s].wants)
  <2>1. slot[s] \in SlotRecord
    BY DEF PreferencesInv
  <2> QED BY <2>1, InCells DEF SlotRecord
<1> QED BY <1>1, <1>2, <1>3 DEF PreferencesInv, PreferencesTypeOK

LEMMA InSlot ==
  ASSUME PreferencesInv, NEW s \in Slot
  PROVE  /\ slot[s] \in SlotRecord /\ SlotStage(slot[s]) /\ SlotKnows(slot[s])
         /\ slot[s].op \in SlotOp /\ slot[s].pc \in {"unused", "turn", "flush", "commit"}
         /\ slot[s].sets \in Cells /\ slot[s].wants \in Cells /\ slot[s].base \in Cells
         /\ DOMAIN slot[s].sets \subseteq Columns
<1>1. slot[s] \in SlotRecord /\ SlotStage(slot[s]) /\ SlotKnows(slot[s])
  BY DEF PreferencesInv
<1> QED BY <1>1, InCells DEF SlotRecord, IsCells

LEMMA SlotMoves ==
  ASSUME PreferencesInv, NEW s \in Slot, NEW q \in SlotRecord, SlotIs(s, q),
         SlotStage(q), SlotKnows(q)
  PROVE  PreferencesInv'
<1>1. /\ table' = table /\ there' = there /\ cell' = cell
      /\ \A e \in Slot : slot'[e] = IF e = s THEN q ELSE slot[e]
      /\ slot' \in [Slot -> SlotRecord]
  BY DEF SlotIs, PreferencesInv
<1>2. ASSUME NEW e \in Slot PROVE SlotStage(slot[e])' /\ SlotKnows(slot[e])'
  <2>1. PICK r \in SlotRecord : r = slot'[e]
    BY <1>1
  <2>2. SlotStage(r) /\ SlotKnows(r)
    BY <1>1, <2>1, InSlot
  <2>3. SlotStage(slot[e])'
    BY <1>1, <2>1, <2>2 DEF SlotStage, Fits, Columns
  <2>4. SlotKnows(slot[e])'
    BY <1>1, <2>1, <2>2 DEF SlotKnows, After, Columns
  <2> QED BY <2>3, <2>4
<1>3. table' \in Table /\ there' \in BOOLEAN /\ cell' \in Cells'
      /\ DOMAIN cell' = Columns' /\ Fits(cell)'
  BY <1>1 DEF PreferencesInv, Cells, Columns, Fits
<1>4. SlotRecord' = SlotRecord
  BY <1>1 DEF SlotRecord, Cells, Columns
<1> QED BY <1>1, <1>2, <1>3, <1>4 DEF PreferencesInv

LEMMA SlotEnds ==
  ASSUME PreferencesInv, NEW s \in Slot, SlotIs(s, Unused)
  PROVE  PreferencesInv'
<1>1. Unused \in SlotRecord
  BY NothingFits DEF Unused, SlotRecord, SlotOp
<1>2. SlotStage(Unused) /\ SlotKnows(Unused)
  BY NothingFits DEF Unused, SlotStage, SlotKnows
<1> QED BY <1>1, <1>2, SlotMoves

LEMMA FormKeeps ==
  ASSUME PreferencesInv, NEW s \in Slot, NEW t \in Table, NEW wants \in Complete(t),
         t = "taste" => Cardinality(wants["allergies"]) <= Cap, Submit(s, t, wants)
  PROVE  PreferencesInv'
<1> DEFINE changed == [c \in {d \in Columns : wants[d] # cell[d]} |-> wants[c]]
           sets == IF there THEN changed ELSE wants
           q == [Unused EXCEPT !.op = "form", !.pc = "flush", !.found = there,
                   !.wants = wants, !.sets = sets]
<1>1. table = t /\ SlotIs(s, q) /\ there \in BOOLEAN
  BY DEF Submit, PreferencesInv
<1>2. /\ DOMAIN wants = Columns /\ wants = [c \in Columns |-> wants[c]]
      /\ \A c \in Columns : wants[c] \in CellValue(c)
  BY <1>1 DEF Complete, Columns
<1>3. wants \in [Columns -> SUBSET (Word \cup Thing)]
  BY <1>2, ValuesAreWords
<1>4. wants \in Cells
  BY <1>3, CellsAre
<1>5. Fits(wants)
  <2>1. "allergies" \in Columns => t = "taste"
    BY <1>1, TableColumns DEF Table
  <2>2. "allergies" \in Columns => IsFiniteSet(wants["allergies"])
    BY <1>2 DEF CellValue
  <2> QED BY <1>2, <2>1, <2>2 DEF Fits
<1>6. /\ DOMAIN changed = {d \in Columns : wants[d] # cell[d]}
      /\ changed \in [{d \in Columns : wants[d] # cell[d]} -> SUBSET (Word \cup Thing)]
      /\ \A c \in DOMAIN changed : changed[c] = wants[c]
  BY <1>3
<1>7. changed \in Cells
  BY <1>6, CellsAre
<1>8. Fits(changed)
  BY <1>2, <1>5, <1>6 DEF Fits
<1>9. /\ sets \in Cells /\ Fits(sets) /\ \A c \in DOMAIN sets : sets[c] = wants[c]
      /\ \A c \in Columns : c \notin DOMAIN sets => wants[c] = cell[c]
  BY <1>2, <1>4, <1>5, <1>6, <1>7, <1>8
<1> HIDE DEF sets
<1>10. /\ q.op = "form" /\ q.pc = "flush" /\ q.wants = wants /\ q.sets = sets
       /\ q \in SlotRecord
  BY <1>1, <1>4, <1>9, NothingFits DEF Unused, SlotRecord, SlotOp
<1> HIDE DEF q
<1>11. SlotStage(q)
  BY <1>2, <1>9, <1>10 DEF SlotStage
<1>12. SlotKnows(q)
  BY <1>9, <1>10 DEF SlotKnows
<1> QED BY <1>1, <1>10, <1>11, <1>12, SlotMoves

(* A statement that is given what it writes.                                *)
LEMMA StatementKeeps ==
  ASSUME PreferencesInv, NEW s \in Slot, NEW op \in {"upsert", "dismiss", "restore"},
         NEW c \in Columns, NEW v \in CellValue(c),
         op \in {"dismiss", "restore"} => table = "tours",
         op = "upsert" => table = "voice",
         SlotIs(s, [Unused EXCEPT !.op = op, !.pc = "flush",
                                  !.sets = [d \in {c} |-> v], !.wants = [d \in {c} |-> v]])
  PROVE  PreferencesInv'
<1> DEFINE f == [d \in {c} |-> v]
           q == [Unused EXCEPT !.op = op, !.pc = "flush", !.sets = f, !.wants = f]
<1>1. v \in SUBSET (Word \cup Thing)
  BY ValuesAreWords
<1>2. f \in [{c} -> SUBSET (Word \cup Thing)] /\ DOMAIN f = {c} /\ f[c] = v
  BY <1>1
<1>3. f \in Cells
  BY <1>2, CellsAre
<1>4. c # "allergies" /\ (op \in {"dismiss", "restore"} => c = "dismissed")
  BY TableColumns DEF PreferencesInv
<1>5. Fits(f)
  BY <1>2, <1>4 DEF Fits
<1>6. SlotIs(s, q)
  OBVIOUS
<1> HIDE DEF f
<1>7. /\ q.op = op /\ q.pc = "flush" /\ q.sets = f /\ q.wants = f /\ q \in SlotRecord
  BY <1>3, NothingFits DEF Unused, SlotRecord, SlotOp
<1> HIDE DEF q
<1>8. SlotStage(q)
  BY <1>2, <1>4, <1>5, <1>7 DEF SlotStage
<1>9. SlotKnows(q)
  BY <1>7 DEF SlotKnows
<1> QED BY <1>6, <1>7, <1>8, <1>9, SlotMoves

LEMMA BeginTurnKeeps ==
  ASSUME PreferencesInv, NEW s \in Slot, BeginTurn(s)
  PROVE  PreferencesInv'
<1> DEFINE base == IF there THEN cell ELSE NoCells
           q == [Unused EXCEPT !.op = "merge", !.pc = "turn", !.found = there, !.base = base]
<1>1. SlotIs(s, q) /\ table = "taste" /\ there \in BOOLEAN
  BY DEF BeginTurn, PreferencesInv
<1>2. /\ base \in Cells
      /\ there => base = cell /\ DOMAIN base = Columns /\ Fits(base)
  BY NothingFits DEF PreferencesInv
<1> HIDE DEF base
<1>3. /\ q.op = "merge" /\ q.pc = "turn" /\ q.found = there /\ q.base = base /\ q.sets = NoCells
      /\ q \in SlotRecord
  BY <1>1, <1>2, NothingFits DEF Unused, SlotRecord, SlotOp
<1> HIDE DEF q
<1>4. SlotStage(q)
  BY <1>1, <1>2, <1>3, NothingFits DEF SlotStage
<1>5. SlotKnows(q)
  BY <1>2, <1>3 DEF SlotKnows
<1> QED BY <1>1, <1>3, <1>4, <1>5, SlotMoves

(* The merge of the allergies: none is lost, all are told or the list is    *)
(* full, and it holds no more than the cap.                                 *)
LEMMA MergeFills ==
  ASSUME NEW old, NEW new, IsFiniteSet(old), IsFiniteSet(new), Cardinality(old) <= Cap,
         NEW all \in Merged(old, new)
  PROVE  /\ old \subseteq all /\ all \subseteq old \cup new
         /\ IsFiniteSet(all) /\ Cardinality(all) <= Cap
         /\ new \subseteq all \/ Cardinality(all) = Cap
<1>1. PICK m \in SUBSET (new \ old) :
        /\ all = old \cup m
        /\ Cardinality(m) = IF Cardinality(new \ old) <= Cap - Cardinality(old)
                            THEN Cardinality(new \ old) ELSE Cap - Cardinality(old)
  BY DEF Merged
<1>2. IsFiniteSet(new \ old) /\ IsFiniteSet(m)
  <2>1. new \ old \subseteq new
    OBVIOUS
  <2>2. IsFiniteSet(new \ old)
    BY <2>1, FS_Subset
  <2>3. m \subseteq new \ old
    OBVIOUS
  <2>4. IsFiniteSet(m)
    BY ONLY <2>2, <2>3, FS_Subset
  <2> QED BY <2>2, <2>4
<1>3. Cardinality(old) \in Nat /\ Cardinality(new \ old) \in Nat /\ Cardinality(m) \in Nat
  BY <1>2, FS_CardinalityType
<1>4. IsFiniteSet(all) /\ Cardinality(all) = Cardinality(old) + Cardinality(m)
  <2>1. old \cap m = {}
    OBVIOUS
  <2>2. /\ IsFiniteSet(old \cup m)
        /\ Cardinality(old \cup m) = Cardinality(old) + Cardinality(m) - Cardinality(old \cap m)
    BY <1>2, FS_Union
  <2>3. Cardinality(old \cap m) = 0
    BY ONLY <2>1, FS_EmptySet
  <2> QED BY <1>1, <1>3, <2>2, <2>3
<1>5. CASE Cardinality(new \ old) <= Cap - Cardinality(old)
  <2>1. m = new \ old
    BY <1>1, <1>2, <1>5, FS_Subset
  <2> QED BY <1>1, <1>3, <1>4, <1>5, <2>1
<1>6. CASE ~ (Cardinality(new \ old) <= Cap - Cardinality(old))
  BY <1>1, <1>3, <1>4, <1>6
<1> QED BY <1>5, <1>6

LEMMA UpdateTasteProfileKeeps ==
  ASSUME PreferencesInv, NEW s \in Slot, NEW new \in CellValue("allergies"),
         NEW hours \in {{}} \cup {{h} : h \in CellValue("hours")},
         UpdateTasteProfile(s, new, hours)
  PROVE  PreferencesInv'
<1> DEFINE r == slot[s]
           known == IF r.found THEN r.base ELSE cell
           found == r.found \/ there
           wants == [c \in {"allergies"} |-> new]
<1>1. /\ r.pc = "turn" /\ r.op = "merge" /\ table = "taste" /\ r \in SlotRecord
      /\ SlotStage(r) /\ SlotKnows(r) /\ found \in BOOLEAN
      /\ Columns = {"allergies", "hours"}
  <2>1. r.pc = "turn" /\ r \in SlotRecord /\ SlotStage(r) /\ SlotKnows(r)
    BY InSlot DEF UpdateTasteProfile, SlotAt
  <2> QED BY <2>1, TableColumns DEF SlotStage, PreferencesInv, SlotRecord
<1>2. PICK all \in Merged(known["allergies"], new) :
        LET told == [c \in {"allergies"} \cup {"hours" : h \in hours} |->
                       IF c = "allergies" THEN all ELSE UNION hours] IN
        SlotIs(s, [r EXCEPT !.pc = "flush", !.found = found, !.base = NoCells,
             !.wants = wants,
             !.sets = [c \in {d \in DOMAIN told : ~found \/ told[d] # known[d]} |-> told[c]]])
  BY DEF UpdateTasteProfile
<1> DEFINE told == [c \in {"allergies"} \cup {"hours" : h \in hours} |->
                      IF c = "allergies" THEN all ELSE UNION hours]
           sets == [c \in {d \in DOMAIN told : ~found \/ told[d] # known[d]} |-> told[c]]
           q == [r EXCEPT !.pc = "flush", !.found = found, !.base = NoCells,
                          !.wants = wants, !.sets = sets]
<1>3. SlotIs(s, q)
  BY <1>2
<1>4. /\ IsFiniteSet(known["allergies"]) /\ Cardinality(known["allergies"]) <= Cap
      /\ known["allergies"] \in CellValue("allergies")
      /\ ~r.crossed => known["allergies"] = cell["allergies"]
  BY <1>1 DEF SlotStage, SlotKnows, Fits, PreferencesInv
<1>5. new \subseteq Thing /\ IsFiniteSet(new) /\ known["allergies"] \subseteq Thing
  BY <1>4 DEF CellValue
<1>6. /\ known["allergies"] \subseteq all /\ all \subseteq known["allergies"] \cup new
      /\ IsFiniteSet(all) /\ Cardinality(all) <= Cap
      /\ new \subseteq all \/ Cardinality(all) = Cap
  BY <1>2, <1>4, <1>5, MergeFills
<1>7. all \in CellValue("allergies")
  BY <1>5, <1>6 DEF CellValue
<1>8. hours # {} => UNION hours \in CellValue("hours")
  BY DEF CellValue
<1>9. /\ DOMAIN told \subseteq {"allergies", "hours"} /\ "allergies" \in DOMAIN told
      /\ told["allergies"] = all
      /\ \A c \in DOMAIN told : told[c] \in CellValue(c)
  <2>1. told["allergies"] = all /\ "allergies" \in DOMAIN told
    OBVIOUS
  <2>2. DOMAIN told \subseteq {"allergies", "hours"}
    OBVIOUS
  <2>3. "hours" \in DOMAIN told => told["hours"] \in CellValue("hours")
    BY <1>8
  <2> QED BY <1>7, <2>1, <2>2, <2>3
<1> HIDE DEF told
<1>10. /\ DOMAIN sets \subseteq {"allergies", "hours"}
       /\ \A c \in DOMAIN sets : sets[c] \in CellValue(c) /\ sets[c] = told[c]
       /\ "allergies" \notin DOMAIN sets => all = known["allergies"]
  BY <1>9
<1>11. sets \in Cells
  <2>1. sets \in [DOMAIN sets -> SUBSET (Word \cup Thing)]
    BY <1>10, ValuesAreWords
  <2> QED BY <1>1, <1>10, <2>1, CellsAre
<1>12. Fits(sets)
  BY <1>6, <1>9, <1>10 DEF Fits
<1>13. wants \in Cells /\ wants["allergies"] = new
  <2>1. wants \in [{"allergies"} -> SUBSET (Word \cup Thing)]
    BY <1>5
  <2> QED BY <1>1, <2>1, CellsAre
<1> HIDE DEF sets, wants, found
<1>14. /\ q.op = "merge" /\ q.pc = "flush" /\ q.sets = sets /\ q.wants = wants
       /\ q.crossed = r.crossed /\ q \in SlotRecord
  BY <1>1, <1>11, <1>13, NothingFits DEF SlotRecord
<1> HIDE DEF q
<1>15. SlotStage(q)
  BY <1>1, <1>12, <1>14 DEF SlotStage
<1>16. SlotKnows(q)
  <2>1. ~r.crossed => After(q, "allergies") = all
    BY <1>4, <1>9, <1>10, <1>14 DEF After
  <2> QED BY <1>4, <1>6, <1>13, <1>14, <2>1 DEF SlotKnows
<1> QED BY <1>3, <1>14, <1>15, <1>16, SlotMoves

LEMMA FlushRowKeeps ==
  ASSUME PreferencesInv, NEW s \in Slot, FlushRow(s)
  PROVE  PreferencesInv'
<1> DEFINE r == slot[s]
           q == [r EXCEPT !.pc = "commit"]
<1>1. r.pc = "flush" /\ r \in SlotRecord /\ SlotStage(r) /\ SlotKnows(r)
  BY InSlot DEF FlushRow, SlotAt
<1>2. CASE SlotIs(s, Unused)
  BY <1>2, SlotEnds
<1>3. CASE SlotIs(s, q)
  <2>1. /\ q.op = r.op /\ q.pc = "commit" /\ q.found = r.found /\ q.base = r.base
        /\ q.sets = r.sets /\ q.wants = r.wants /\ q.crossed = r.crossed /\ q \in SlotRecord
    BY <1>1 DEF SlotRecord
  <2>2. SlotIs(s, q)
    BY <1>3
  <2> HIDE DEF q
  <2>3. SlotStage(q)
    BY <1>1, <2>1 DEF SlotStage
  <2>4. SlotKnows(q)
    BY <1>1, <2>1 DEF SlotKnows, After
  <2> QED BY <2>1, <2>2, <2>3, <2>4, SlotMoves
<1> QED BY <1>2, <1>3 DEF FlushRow

(* A commit crosses the others; the row fits.                               *)
LEMMA CommitRowKeeps ==
  ASSUME PreferencesInv, NEW s \in Slot, CommitRow(s)
  PROVE  PreferencesInv'
<1> DEFINE q == slot[s]
<1>1. /\ q.pc = "commit" /\ q \in SlotRecord /\ SlotStage(q)
      /\ q.op \in {"form", "upsert", "merge", "dismiss", "restore"}
      /\ DOMAIN q.sets \subseteq Columns
  BY InSlot DEF CommitRow, SlotAt, SlotStage, SlotOp
<1>2. /\ table' = table /\ there' = (there \/ q.op # "restore")
      /\ cell' = [c \in Columns |-> After(q, c)]
      /\ slot' = [e \in Slot |-> IF e = s THEN Unused
                                 ELSE [slot[e] EXCEPT !.crossed = ~SlotAt(e, "unused")]]
  BY DEF CommitRow
<1>3. ASSUME NEW c \in Columns PROVE After(q, c) \in CellValue(c)
  <2>1. cell[c] \in CellValue(c)
    BY DEF PreferencesInv, Fits
  <2>2. c \in DOMAIN q.sets => q.sets[c] \in CellValue(c)
    BY <1>1 DEF SlotStage, Fits
  <2>3. CASE c \notin DOMAIN q.sets \/ q.op \notin {"dismiss", "restore"}
    BY <1>1, <2>1, <2>2, <2>3 DEF After
  <2>4. CASE c \in DOMAIN q.sets /\ q.op \in {"dismiss", "restore"}
    <3>1. c = "dismissed"
      BY <1>1, <2>4 DEF SlotStage
    <3>2. /\ cell[c] \subseteq Thing /\ IsFiniteSet(cell[c])
          /\ q.sets[c] \subseteq Thing /\ IsFiniteSet(q.sets[c])
      BY <2>1, <2>2, <2>4, <3>1 DEF CellValue
    <3>3. IsFiniteSet(cell[c] \cup q.sets[c])
      BY <3>2, FS_Union
    <3>4. IsFiniteSet(cell[c] \ q.sets[c])
      <4>1. cell[c] \ q.sets[c] \subseteq cell[c]
        OBVIOUS
      <4> QED BY ONLY <3>2, <4>1, FS_Subset
    <3> QED BY <2>4, <3>1, <3>2, <3>3, <3>4 DEF After, CellValue
  <2> QED BY <2>3, <2>4
<1>4. "allergies" \in Columns =>
        IsFiniteSet(After(q, "allergies")) /\ Cardinality(After(q, "allergies")) <= Cap
  <2>1. SUFFICES ASSUME "allergies" \in Columns
                 PROVE  IsFiniteSet(After(q, "allergies")) /\ Cardinality(After(q, "allergies")) <= Cap
    OBVIOUS
  <2>2. table = "taste"
    BY <2>1, TableColumns DEF PreferencesInv, Table
  <2>3. q.op \notin {"dismiss", "restore"}
    BY <1>1, <2>2 DEF SlotStage
  <2>4. IsFiniteSet(cell["allergies"]) /\ Cardinality(cell["allergies"]) <= Cap
    BY <2>1 DEF PreferencesInv, Fits
  <2> QED BY <1>1, <2>3, <2>4 DEF After, SlotStage, Fits
<1>5. Columns' = Columns /\ Cells' = Cells /\ SlotRecord' = SlotRecord
  BY <1>2 DEF Columns, Cells, SlotRecord
<1>6. cell' \in Cells /\ DOMAIN cell' = Columns /\ Fits(cell)'
  <2>1. cell' \in [Columns -> SUBSET (Word \cup Thing)]
    BY <1>2, <1>3, ValuesAreWords
  <2>2. cell' \in Cells
    BY <2>1, CellsAre
  <2>3. \A c \in Columns : cell'[c] = After(q, c)
    BY <1>2
  <2> QED BY <1>3, <1>4, <2>1, <2>2, <2>3 DEF Fits
<1>7. ASSUME NEW e \in Slot
      PROVE  slot'[e] \in SlotRecord /\ SlotStage(slot[e])' /\ SlotKnows(slot[e])'
  <2>1. PICK c \in BOOLEAN : c = (slot[e].pc # "unused")
    OBVIOUS
  <2>2. PICK r : r = IF e = s THEN Unused ELSE [slot[e] EXCEPT !.crossed = c]
    OBVIOUS
  <2>3. slot'[e] = r
    BY <1>2, <2>1, <2>2 DEF SlotAt
  <2>4. CASE e = s \/ ~c
    <3>1. r = Unused
      <4>1. CASE e = s
        BY <2>2, <4>1
      <4>2. CASE e # s /\ ~c
        <5>1. slot[e] = Unused
          BY <2>1, <4>2, InSlot DEF SlotStage
        <5>2. r = [Unused EXCEPT !.crossed = FALSE]
          BY <2>2, <4>2, <5>1
        <5> QED BY <5>2 DEF Unused
      <4> QED BY <2>4, <4>1, <4>2
    <3>2. r \in SlotRecord
      BY <3>1, NothingFits DEF Unused, SlotRecord, SlotOp
    <3>3. SlotStage(r) /\ r.op = "none" /\ r.pc = "unused"
      BY <3>1, NothingFits DEF Unused, SlotStage
    <3>4. SlotStage(slot[e])'
      BY <1>2, <2>3, <3>3 DEF SlotStage, Fits, Columns
    <3>5. SlotKnows(slot[e])'
      BY <2>3, <3>3 DEF SlotKnows
    <3> QED BY <2>3, <3>2, <3>4, <3>5
  <2>5. CASE e # s /\ c
    <3>1. slot[e] \in SlotRecord /\ SlotStage(slot[e])
      BY InSlot
    <3>2. /\ r.op = slot[e].op /\ r.pc = slot[e].pc /\ r.found = slot[e].found
          /\ r.base = slot[e].base /\ r.sets = slot[e].sets /\ r.wants = slot[e].wants
          /\ r.crossed /\ r \in SlotRecord
      BY <2>2, <2>5, <3>1 DEF SlotRecord
    <3>3. r.pc # "unused"
      BY <2>1, <2>5, <3>2
    <3>4. SlotStage(slot[e])'
      BY <1>2, <2>3, <3>1, <3>2, <3>3 DEF SlotStage, Fits, Columns
    <3>5. SlotKnows(slot[e])'
      BY <2>3, <3>2 DEF SlotKnows
    <3> QED BY <2>3, <3>2, <3>4, <3>5
  <2> QED BY <2>4, <2>5
<1>8. slot' \in [Slot -> SlotRecord]
  BY <1>2, <1>7
<1> QED BY <1>2, <1>5, <1>6, <1>7, <1>8 DEF PreferencesInv

LEMMA PreferencesStepKeeps ==
  ASSUME PreferencesInv, [PreferencesNext]_prefVars
  PROVE  PreferencesInv'
<1>1. CASE UNCHANGED prefVars
  <2>1. table' = table /\ there' = there /\ cell' = cell /\ slot' = slot
    BY <1>1 DEF prefVars
  <2>2. Cells' = Cells /\ Columns' = Columns /\ SlotRecord' = SlotRecord
    BY <2>1 DEF Columns, Cells, SlotRecord
  <2>3. ASSUME NEW e \in Slot PROVE SlotStage(slot[e])' /\ SlotKnows(slot[e])'
    <3>1. PICK r \in SlotRecord : r = slot'[e]
      BY <2>1, InSlot
    <3>2. SlotStage(r) /\ SlotKnows(r)
      BY <2>1, <3>1, InSlot
    <3>3. SlotStage(slot[e])'
      BY <2>1, <3>1, <3>2 DEF SlotStage, Fits, Columns
    <3>4. SlotKnows(slot[e])'
      BY <2>1, <3>1, <3>2 DEF SlotKnows, After, Columns
    <3> QED BY <3>3, <3>4
  <2> QED BY <2>1, <2>2, <2>3 DEF PreferencesInv, Fits
<1>2. ASSUME NEW s \in Slot,
             \/ ReplaceChatPreference(s) \/ UpdateMyTasteProfile(s)
             \/ UpdateNotificationPreferences(s)
      PROVE  PreferencesInv'
  <2>1. CASE ReplaceChatPreference(s)
    BY <2>1, FormKeeps DEF ReplaceChatPreference, Table
  <2>2. CASE UpdateMyTasteProfile(s)
    BY <2>2, FormKeeps DEF UpdateMyTasteProfile, Table
  <2>3. CASE UpdateNotificationPreferences(s)
    BY <2>3, FormKeeps DEF UpdateNotificationPreferences, Table
  <2> QED BY <1>2, <2>1, <2>2, <2>3
<1>3. ASSUME NEW s \in Slot, NEW c \in Columns, NEW v \in CellValue(c),
             UpsertChatPreference(s, c, v)
      PROVE  PreferencesInv'
  BY <1>3, StatementKeeps DEF UpsertChatPreference
<1>4. ASSUME NEW s \in Slot, NEW v \in Thing, DismissTour(s, v) \/ RestoreTour(s, v)
      PROVE  PreferencesInv'
  <2>1. "dismissed" \in Columns /\ table = "tours"
    BY <1>4, TableColumns DEF DismissTour, RestoreTour, ChangeTours, PreferencesInv
  <2>2. {v} \in CellValue("dismissed")
    BY FS_Singleton DEF CellValue
  <2> QED BY <1>4, <2>1, <2>2, StatementKeeps DEF DismissTour, RestoreTour, ChangeTours
<1>5. ASSUME NEW s \in Slot, AbortRow(s) PROVE PreferencesInv'
  BY <1>5, SlotEnds DEF AbortRow
<1> QED BY <1>1, <1>2, <1>3, <1>4, <1>5, BeginTurnKeeps, UpdateTasteProfileKeeps, FlushRowKeeps,
           CommitRowKeeps DEF PreferencesNext

THEOREM PreferencesInvariant == PreferencesSpec => []PreferencesInv
<1>1. PreferencesInit => PreferencesInv
  <2> SUFFICES ASSUME PreferencesInit PROVE PreferencesInv
    OBVIOUS
  <2>1. table \in Table /\ there = FALSE /\ cell = [c \in Columns |-> {}]
        /\ slot = [s \in Slot |-> Unused]
    BY DEF PreferencesInit
  <2>2. cell \in Cells
    BY <2>1, CellsAre
  <2>3. IsFiniteSet({}) /\ Cardinality({}) = 0
    BY FS_EmptySet
  <2>4. Fits(cell)
    BY <2>1, <2>3 DEF Fits, CellValue
  <2>5. Unused \in SlotRecord /\ SlotStage(Unused) /\ SlotKnows(Unused)
    BY NothingFits DEF Unused, SlotRecord, SlotOp, SlotStage, SlotKnows
  <2> QED BY <2>1, <2>2, <2>4, <2>5 DEF PreferencesInv
<1>2. PreferencesInv /\ [PreferencesNext]_prefVars => PreferencesInv'
  BY PreferencesStepKeeps
<1> QED BY <1>1, <1>2, PTL DEF PreferencesSpec

LEMMA OnlyCommitsStore ==
  ASSUME PreferencesInv, [PreferencesNext]_prefVars
  PROVE  \/ cell' = cell /\ there' = there
         \/ \E s \in Slot : CommitRow(s)
<1> DEFINE Kept == cell' = cell /\ there' = there
<1>1. \A s \in Slot : \A q : SlotIs(s, q) => Kept
  BY DEF SlotIs
<1>2. ASSUME NEW s \in Slot,
             \/ ReplaceChatPreference(s) \/ UpdateMyTasteProfile(s)
             \/ UpdateNotificationPreferences(s)
      PROVE  Kept
  BY <1>1, <1>2 DEF ReplaceChatPreference, UpdateMyTasteProfile, UpdateNotificationPreferences, Submit
<1>3. ASSUME NEW s \in Slot, NEW c, NEW v,
             UpsertChatPreference(s, c, v) \/ DismissTour(s, v) \/ RestoreTour(s, v)
      PROVE  Kept
  BY <1>1, <1>3 DEF UpsertChatPreference, DismissTour, RestoreTour, ChangeTours
<1>4. ASSUME NEW s \in Slot, NEW new, NEW hours, UpdateTasteProfile(s, new, hours) PROVE Kept
  BY <1>1, <1>4 DEF UpdateTasteProfile
<1>5. ASSUME NEW s \in Slot, BeginTurn(s) \/ FlushRow(s) \/ AbortRow(s) PROVE Kept
  BY <1>1, <1>5 DEF BeginTurn, FlushRow, AbortRow
<1>6. CASE UNCHANGED prefVars
  BY <1>6 DEF prefVars
<1> HIDE DEF Kept
<1>7. CASE PreferencesNext
  <2>1. PICK s \in Slot :
          \/ ReplaceChatPreference(s) \/ UpdateMyTasteProfile(s) \/ UpdateNotificationPreferences(s)
          \/ \E c \in Columns : \E v \in CellValue(c) : UpsertChatPreference(s, c, v)
          \/ BeginTurn(s)
          \/ \E new \in CellValue("allergies"), hours \in {{}} \cup {{h} : h \in CellValue("hours")} :
               UpdateTasteProfile(s, new, hours)
          \/ \E v \in Thing : DismissTour(s, v) \/ RestoreTour(s, v)
          \/ FlushRow(s) \/ CommitRow(s) \/ AbortRow(s)
    BY <1>7 DEF PreferencesNext
  <2>2. Kept \/ CommitRow(s)
    BY <1>2, <1>3, <1>4, <1>5, <2>1
  <2> QED BY <2>2 DEF Kept
<1> QED BY <1>6, <1>7 DEF Kept

LEMMA StoresIsCommit ==
  ASSUME PreferencesInv, [PreferencesNext]_prefVars, NEW s \in Slot, Stores(s)
  PROVE  CommitRow(s)
<1>1. PICK e \in Slot : CommitRow(e)
  BY OnlyCommitsStore DEF Stores
<1>2. ASSUME e # s PROVE slot'[s].pc = slot[s].pc
  BY <1>1, <1>2, InSlot DEF CommitRow, SlotRecord
<1>3. slot[s].pc = "commit" /\ slot'[s].pc = "unused"
  BY DEF Stores, SlotAt
<1> QED BY <1>1, <1>2, <1>3

LEMMA PreferencesStepHolds ==
  ASSUME PreferencesInv, [PreferencesNext]_prefVars, NEW s \in Slot, Stores(s)
  PROVE  LET q == slot[s] IN
         /\ q.op = "upsert" =>
              \A c \in Columns : cell'[c] = IF c \in DOMAIN q.wants THEN q.wants[c] ELSE cell[c]
         /\ q.op = "dismiss" => cell'["dismissed"] = cell["dismissed"] \cup q.wants["dismissed"]
         /\ q.op = "restore" => cell'["dismissed"] = cell["dismissed"] \ q.wants["dismissed"]
         /\ q.op = "form" /\ ~q.crossed => cell' = q.wants
         /\ q.op = "merge" /\ ~q.crossed =>
              /\ cell["allergies"] \subseteq cell'["allergies"]
              /\ cell'["allergies"] \subseteq cell["allergies"] \cup q.wants["allergies"]
              /\ \/ q.wants["allergies"] \subseteq cell'["allergies"]
                 \/ Cardinality(cell'["allergies"]) = Cap
<1> DEFINE q == slot[s]
<1>1. SlotStage(q) /\ SlotKnows(q) /\ q.pc = "commit" /\ DOMAIN q.sets \subseteq Columns
  BY InSlot DEF Stores, SlotAt
<1>2. cell' = [c \in Columns |-> After(q, c)]
  BY StoresIsCommit DEF CommitRow
<1> HIDE DEF q
<1>3. q.op = "upsert" =>
        \A c \in Columns : cell'[c] = IF c \in DOMAIN q.wants THEN q.wants[c] ELSE cell[c]
  BY <1>1, <1>2 DEF SlotStage, After
<1>4. /\ q.op = "dismiss" => cell'["dismissed"] = cell["dismissed"] \cup q.wants["dismissed"]
      /\ q.op = "restore" => cell'["dismissed"] = cell["dismissed"] \ q.wants["dismissed"]
  BY <1>1, <1>2 DEF SlotStage, After
<1>5. q.op = "form" /\ ~q.crossed => cell' = q.wants
  <2>1. SUFFICES ASSUME q.op = "form", ~q.crossed PROVE cell' = q.wants
    OBVIOUS
  <2>2. \A c \in Columns : After(q, c) = q.wants[c]
    BY <1>1, <2>1 DEF SlotStage, SlotKnows, After
  <2>3. q.wants = [c \in Columns |-> q.wants[c]]
    BY <1>1, <2>1 DEF SlotStage
  <2> QED BY <1>2, <2>2, <2>3
<1>6. q.op = "merge" /\ ~q.crossed =>
        /\ cell["allergies"] \subseteq cell'["allergies"]
        /\ cell'["allergies"] \subseteq cell["allergies"] \cup q.wants["allergies"]
        /\ \/ q.wants["allergies"] \subseteq cell'["allergies"]
           \/ Cardinality(cell'["allergies"]) = Cap
  <2>1. SUFFICES ASSUME q.op = "merge", ~q.crossed
                 PROVE  /\ cell["allergies"] \subseteq cell'["allergies"]
                        /\ cell'["allergies"] \subseteq cell["allergies"] \cup q.wants["allergies"]
                        /\ \/ q.wants["allergies"] \subseteq cell'["allergies"]
                           \/ Cardinality(cell'["allergies"]) = Cap
    OBVIOUS
  <2>2. table = "taste"
    BY <1>1, <2>1 DEF SlotStage
  <2>3. cell'["allergies"] = After(q, "allergies")
    BY <1>2, <2>2, TableColumns DEF PreferencesInv
  <2> QED BY <1>1, <2>1, <2>3 DEF SlotKnows
<1> QED BY <1>3, <1>4, <1>5, <1>6 DEF q

(* What somebody has set is what is stored: one field by a tool leaves the  *)
(* others alone, tours are neither lost nor restored by each other, and,    *)
(* if no other request committed in between, a form is stored whole and a   *)
(* turn loses no allergy and adds all it was told up to the cap             *)
(* (user_chat_preferences_service.py:80, taste.py:164).                     *)
THEOREM SettingsAreKept == PreferencesSpec => SettingsKept
<1>1. PreferencesInv /\ [PreferencesNext]_prefVars =>
        [\A s \in Slot : Stores(s) =>
           LET q == slot[s] IN
           /\ q.op = "upsert" =>
                \A c \in Columns : cell'[c] = IF c \in DOMAIN q.wants THEN q.wants[c] ELSE cell[c]
           /\ q.op = "dismiss" => cell'["dismissed"] = cell["dismissed"] \cup q.wants["dismissed"]
           /\ q.op = "restore" => cell'["dismissed"] = cell["dismissed"] \ q.wants["dismissed"]
           /\ q.op = "form" /\ ~q.crossed => cell' = q.wants
           /\ q.op = "merge" /\ ~q.crossed =>
                /\ cell["allergies"] \subseteq cell'["allergies"]
                /\ cell'["allergies"] \subseteq cell["allergies"] \cup q.wants["allergies"]
                /\ \/ q.wants["allergies"] \subseteq cell'["allergies"]
                   \/ Cardinality(cell'["allergies"]) = Cap]_prefVars
  BY PreferencesStepHolds
<1> QED BY <1>1, PreferencesInvariant, PTL DEF PreferencesSpec, SettingsKept

------------------------------------------------------------------------------
(* The parts together.                                                      *)

LEMMA PartsStep ==
  [CommunityNext]_communityVars =>
    /\ [SessionsNext]_sessionVars /\ [SocialNext]_socialVars /\ [CommentsNext]_commentVars
    /\ [PagingNext]_pagingVars /\ [PreferencesNext]_prefVars /\ [MarksNext]_marksVars
    /\ part' = part
<1>1. CASE UNCHANGED communityVars
  BY <1>1 DEF communityVars
<1>2. CASE CommunityNext
  BY <1>2 DEF CommunityNext, TheRest, Rests
<1> QED BY <1>1, <1>2

(* A behaviour of the instance is one of every component: what is proved of *)
(* a component holds of the instance that TLC explores.                     *)
THEOREM CommunityIsItsParts ==
  CommunitySpec => /\ SessionsSpec /\ SocialSpec /\ CommentsSpec
                   /\ PagingSpec /\ PreferencesSpec /\ MarksSpec
<1>1. CommunityInit => /\ SessionsInit /\ SocialInit /\ CommentsInit
                       /\ PagingInit /\ PreferencesInit /\ MarksInit
  BY DEF CommunityInit
<1> QED BY <1>1, PartsStep, PTL
     DEF CommunitySpec, SessionsSpec, SocialSpec, CommentsSpec, PagingSpec, PreferencesSpec,
         MarksSpec

(* Every row, request and page of every part has its type, always.          *)
THEOREM CommunityTypesCorrect == CommunitySpec => []CommunityTypeOK
<1>1. SessionsTypeOK /\ SocialInv /\ CommentsInv /\ PagingInv /\ PreferencesInv /\ MarksInv
        => CommunityTypeOK
  BY SettingsAreTyped DEF CommunityTypeOK, SocialInv, CommentsInv, PagingInv, MarksInv
<1> QED BY <1>1, CommunityIsItsParts, SessionsTypeCorrect, SocialInvariant, CommentsInvariant,
           PagingInvariant, PreferencesInvariant, MarksInvariant, PTL
=============================================================================
