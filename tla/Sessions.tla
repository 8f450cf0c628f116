------------------------------- MODULE Sessions -------------------------------
(***************************************************************************)
(* The credentials of one account: its refresh tokens, its password and the *)
(* links it is mailed (app/routers/auth.py, app/services/                   *)
(* password_reset_service.py, email_verification_service.py, alembic 002,   *)
(* 028, 029).                                                               *)
(*                                                                          *)
(* A request is one READ COMMITTED transaction.  An UPDATE that sweeps many *)
(* rows finds them in a snapshot (Scan), waits for whoever holds one of     *)
(* them, and tests each again when it gets it (Strike): a row inserted in   *)
(* between escapes.  A reply leaves after the commit.                       *)
(***************************************************************************)
EXTENDS Naturals, FiniteSets, TLC

CONSTANTS
  Client,        \* requests in flight at the same time
  Session,       \* jti of refresh tokens
  PasswordLink,  \* tokens of mails that reset the password
  VerifyLink,    \* tokens of mails that verify the address
  NoRow          \* no token

Link == PasswordLink \cup VerifyLink
Secret == Session \cup Link

ASSUME SessionsAssumption ==
  /\ Session \cap Link = {}
  /\ PasswordLink \cap VerifyLink = {}
  /\ NoRow \notin Secret /\ "user" \notin Secret

VARIABLES
  account,    \* the row of users is there
  verified,   \* email_verified_at is set
  row,        \* the state of every token
  request,    \* the request of every client
  former      \* history: open sessions that go back to a former password

sessionVars == <<account, verified, row, request, former>>
tables == <<account, verified, row, former>>

(* live: revoked_at or consumed_at is NULL; spent: it is set; aged: set     *)
(* longer ago than the grace of a refresh.  A live row may be past its      *)
(* expires_at, which only whoever presents the token looks at.              *)
RowState == {"absent", "live", "spent", "aged"}

RequestOp == {"none", "register", "login", "refresh", "logout", "forgot", "reset",
       "resend", "verify"}
PC == {"idle", "insert", "take", "read", "write", "scan", "strike", "commit", "raise"}
Matter == {"session", "password", "link"}

(* A request: the token it came with and the state that had, the rows its   *)
(* sweep has found, the rows it has updated and the row it inserts; and, a  *)
(* history, in what a commit has crossed it since it began.                 *)
Idle == [op |-> "none", pc |-> "idle", token |-> NoRow, seen |-> "absent",
         found |-> {}, held |-> {}, new |-> NoRow, crossed |-> {}]

Request ==
  [op : RequestOp, pc : PC, token : Secret \cup {NoRow}, seen : RowState,
   found : SUBSET Secret, held : SUBSET (Secret \cup {"user"}),
   new : Secret \cup {NoRow}, crossed : SUBSET Matter]

SessionsTypeOK ==
  /\ account \in BOOLEAN /\ verified \in BOOLEAN
  /\ row \in [Secret -> RowState]
  /\ request \in [Client -> Request]
  /\ former \subseteq Session

SessionsInit ==
  /\ account = FALSE /\ verified = FALSE
  /\ row = [x \in Secret |-> "absent"]
  /\ request = [c \in Client |-> Idle]
  /\ former = {}

------------------------------------------------------------------------------
Others(c) == Client \ {c}

(* Token ids and hashes are random, hence interchangeable: one that nobody  *)
(* has drawn stands for all of them.                                        *)
Drawn(rows) ==
  LET free == {x \in rows : row[x] = "absent" /\ \A c \in Client : request[c].new # x} IN
  {x \in free : x = CHOOSE y \in free : TRUE}

(* The rows a sweep of this operation is about.                             *)
Swept(op) ==
  CASE op = "forgot" -> PasswordLink
    [] op = "resend" -> VerifyLink
    [] OTHER -> Session

(* The rows the next UPDATE of c needs; the holders of one make it wait.    *)
Needs(c) ==
  LET q == request[c] IN
  CASE q.pc = "take" -> {q.token}
    [] q.pc = "write" -> {q.token, "user"}
    [] q.pc = "strike" -> q.found
    [] OTHER -> {}

WaitsFor(c) ==
  {e \in Others(c) :
     \/ request[e].held \cap Needs(c) # {}
     \/ /\ request[c].pc = "insert"
        /\ request[e].op = "register" /\ request[e].pc = "commit"}

At(c, pc) == request[c].pc = pc /\ WaitsFor(c) = {}

RequestGoes(c, q) == request' = [request EXCEPT ![c] = q] /\ UNCHANGED tables

BeginRequest(c, op, pc, x) ==
  /\ request[c] = Idle
  /\ RequestGoes(c, [Idle EXCEPT !.op = op, !.pc = pc, !.token = x,
                          !.seen = IF op = "refresh" THEN row[x] ELSE @])

------------------------------------------------------------------------------
(* register: neither the address nor the handle was taken.  The insert      *)
(* meets both unique constraints again; on a conflict it answers 409.       *)
BeginRegister(c) == ~account /\ BeginRequest(c, "register", "insert", NoRow)

InsertAccount(c) ==
  /\ At(c, "insert")
  /\ IF account THEN RequestGoes(c, Idle)
     ELSE \E l \in Drawn(VerifyLink) :
            RequestGoes(c, [request[c] EXCEPT !.pc = "commit", !.new = l])

(* login, once the password is checked.                                     *)
BeginLogin(c) == account /\ BeginRequest(c, "login", "scan", NoRow)

(* refresh and logout, with a token that was handed out.                    *)
BeginRefresh(c, s) == row[s] # "absent" /\ BeginRequest(c, "refresh", "take", s)
BeginLogout(c, s) == row[s] # "absent" /\ BeginRequest(c, "logout", "take", s)

(* forgot-password and resend-verification: they void the links that are    *)
(* open and add one.                                                        *)
BeginForgot(c) == account /\ BeginRequest(c, "forgot", "scan", NoRow)
BeginResend(c) == account /\ ~verified /\ BeginRequest(c, "resend", "scan", NoRow)

(* A click on a link that is neither consumed nor expired.                  *)
BeginReset(c, l) == row[l] = "live" /\ BeginRequest(c, "reset", "write", l)

BeginVerify(c, l) == row[l] = "live" /\ BeginRequest(c, "verify", "write", l)

------------------------------------------------------------------------------
(* Mutant of TakeRefresh: the UPDATE does not ask for revoked_at IS NULL.   *)
TakeRefreshAnyway(c) ==
  LET q == request[c] IN
  /\ At(c, "take") /\ q.op = "refresh"
  /\ \E s \in Drawn(Session) :
       RequestGoes(c, [q EXCEPT !.pc = "commit", !.held = {q.token}, !.new = s])

(* The UPDATE .. RETURNING of rotate_refresh_session: nothing is updated    *)
(* when the token is revoked, or has expired.                               *)
TakeRefresh(c) ==
  LET q == request[c] IN
  /\ At(c, "take") /\ q.op = "refresh"
  /\ \/ /\ row[q.token] = "live"
        /\ \E s \in Drawn(Session) :
             RequestGoes(c, [q EXCEPT !.pc = "commit", !.held = {q.token}, !.new = s])
     \/ RequestGoes(c, [q EXCEPT !.pc = "read"])

(* The loser reads the row.  The age of the revocation is measured from the *)
(* start of both requests: where they overlapped it may be on either side   *)
(* of the grace.  Past it every session is revoked, and the answer raises.  *)
ReadLost(c) ==
  LET q == request[c] IN
  /\ At(c, "read")
  /\ \/ q.seen # "aged" /\ RequestGoes(c, Idle)
     \/ /\ q.seen \in {"aged", "live"} /\ row[q.token] \in {"spent", "aged"}
        /\ RequestGoes(c, [q EXCEPT !.pc = "scan"])

TakeLogout(c) ==
  LET q == request[c] IN
  /\ At(c, "take") /\ q.op = "logout"
  /\ RequestGoes(c, [q EXCEPT !.pc = "commit",
                       !.held = {s \in {q.token} : row[s] = "live"}])

(* The flush of a click: users and the link by their keys, whatever they    *)
(* are by now.  users is left out when the address was verified before.     *)
Write(c) ==
  LET q == request[c] IN
  /\ At(c, "write")
  /\ RequestGoes(c, [q EXCEPT !.pc = IF q.op = "reset" THEN "scan" ELSE "commit",
                       !.held = {q.token} \cup
                          (IF q.op = "verify" /\ verified THEN {} ELSE {"user"})])

(* The sweep of revoke_all_refresh_for_user, and of open links.             *)
Scan(c) ==
  LET q == request[c] IN
  /\ At(c, "scan")
  /\ RequestGoes(c, [q EXCEPT !.pc = "strike",
                       !.found = {x \in Swept(q.op) : row[x] = "live"}])

(* What follows a sweep: the row to insert, if any.                         *)
Inserts(op) ==
  CASE op = "login" -> Drawn(Session)
    [] op \in {"forgot", "resend"} -> Drawn(Swept(op))
    [] OTHER -> {NoRow}

Strike(c) ==
  LET q == request[c] IN
  /\ At(c, "strike")
  /\ \E x \in Inserts(q.op) :
       RequestGoes(c, [q EXCEPT !.pc = IF q.op = "refresh" THEN "raise" ELSE "commit",
                         !.held = @ \cup {y \in q.found : row[y] = "live"},
                         !.found = {}, !.new = x])

------------------------------------------------------------------------------
(* Pairs of operations that can cross each other, per matter.               *)
SameUse ==
  [session  |-> {{"login"}, {"login", "refresh"}},
   password |-> {{"reset", "login"}, {"reset", "refresh"}},
   link     |-> {{"reset"}, {"forgot"}, {"reset", "forgot"},
                 {"verify"}, {"resend"}, {"verify", "resend"}}]

(* The request of e when one of operation op has committed.                 *)
CrossedBy(e, op) ==
  [request[e] EXCEPT !.crossed =
     @ \cup {m \in Matter : {op, request[e].op} \in SameUse[m]}]

(* get_db commits after the handler.  The session of a login goes back to   *)
(* the password it was let in with, that of a refresh to the one of its     *)
(* token.                                                                   *)
Commit(c) ==
  LET q == request[c]
      born == IF \/ q.op = "login" /\ "password" \in q.crossed
                 \/ q.op = "refresh" /\ q.token \in former
              THEN {q.new} ELSE {} IN
  /\ At(c, "commit")
  /\ account' = (account \/ q.op = "register")
  /\ verified' = (verified \/ q.op = "verify")
  /\ row' = [x \in Secret |-> CASE x \in q.held -> "spent"
                             [] x = q.new -> "live"
                             [] OTHER -> row[x]]
  /\ former' = {s \in Session : row'[s] = "live"}
                 \cap (IF q.op = "reset" THEN Session ELSE former \cup born)
  /\ request' = [e \in Client |-> IF e = c THEN Idle ELSE CrossedBy(e, q.op)]

(* Reuse raises after its sweep: get_db rolls back.                         *)
Raise(c) == At(c, "raise") /\ RequestGoes(c, Idle)

(* The connection drops, the process dies, a statement fails: a rollback.   *)
Abort(c) == request[c].pc \notin {"idle", "raise"} /\ RequestGoes(c, Idle)

(* The grace of a refresh passes.                                           *)
Age(s) ==
  /\ row[s] = "spent"
  /\ row' = [row EXCEPT ![s] = "aged"]
  /\ UNCHANGED <<account, verified, request, former>>

SessionsNext ==
  \/ \E c \in Client :
       \/ BeginRegister(c) \/ InsertAccount(c)
       \/ BeginLogin(c) \/ BeginForgot(c) \/ BeginResend(c)
       \/ \E s \in Session : BeginRefresh(c, s) \/ BeginLogout(c, s)
       \/ \E l \in PasswordLink : BeginReset(c, l)
       \/ \E l \in VerifyLink : BeginVerify(c, l)
       \/ TakeRefresh(c) \/ ReadLost(c) \/ TakeLogout(c)
       \/ Write(c) \/ Scan(c) \/ Strike(c)
       \/ Commit(c) \/ Raise(c) \/ Abort(c)
  \/ \E s \in Session : Age(s)

SessionsSpec == SessionsInit /\ [][SessionsNext]_sessionVars

------------------------------------------------------------------------------
Open(rows) == {x \in rows : row[x] = "live"}

(* Request c commits in this step, and nothing crossed it in matter m.      *)
Commits(c) == request[c].pc = "commit" /\ row' # row /\ request'[c] = Idle
Alone(c, m) == Commits(c) /\ m \notin request[c].crossed

(* A refresh token is exchanged for a new one at most once, however many    *)
(* requests present it: whoever commits an exchange spends it (auth.py:103). *)
OneExchange ==
  [][\A c \in Client : Commits(c) /\ request[c].op = "refresh" =>
       row[request[c].token] = "live"]_sessionVars

(* Every login ends the sessions before it: only a login or a refresh that  *)
(* a login crossed leaves a second one that is not revoked.                 *)
OneSession ==
  [][\A c \in Client : Alone(c, "session") =>
       \/ Cardinality(Open(Session)') <= 1
       \/ Cardinality(Open(Session)') <= Cardinality(Open(Session))]_sessionVars

(* After a reset no session lives on that goes back, through any number of  *)
(* refreshes, to a password before it, unless a login or a refresh crossed  *)
(* the reset (password_reset_service.py:135).                               *)
NoFormerSession ==
  [][\A c \in Client : Alone(c, "password") =>
       IF request[c].op = "reset" THEN former' = {}
       ELSE Cardinality(former') <= Cardinality(former)]_sessionVars

(* A mailed link works once, and not after a newer one was asked for; and   *)
(* at most one of a kind is open; unless clicks and requests for a link     *)
(* crossed each other.                                                      *)
OneLink ==
  [][\A c \in Client : Alone(c, "link") =>
       /\ request[c].token \in Link => row[request[c].token] = "live"
       /\ \A links \in {PasswordLink, VerifyLink} :
            Open(links)' \subseteq Open(links) \/ Cardinality(Open(links)') = 1]_sessionVars

(* All four: what a credential is good for, once, and until when.           *)
CredentialsHold == OneExchange /\ OneSession /\ NoFormerSession /\ OneLink

(* The comment above _REFRESH_RACE_GRACE_SECONDS: a token that comes back   *)
(* later than the grace ends all sessions.  When a refresh has swept them,  *)
(* they stay revoked.                                                       *)
ReuseEndsSessions ==
  [][\A c \in Client : request[c].pc = "raise" /\ request'[c] = Idle =>
       \A s \in request[c].held : row'[s] # "live"]_sessionVars

=============================================================================
