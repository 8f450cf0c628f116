------------------------------- MODULE ChatTurn -------------------------------
(***************************************************************************)
(* A turn of a conversation with an agent, as it is streamed and stored     *)
(* (app/routers/chat.py, app/services/chat_service.py, chat/agent_loop.py,  *)
(* chat/tools/reservations.py, chat_title_service.py, alembic 031, 042).    *)
(*                                                                          *)
(* FastAPI 0.115 ends the dependencies of an endpoint when it returns its   *)
(* StreamingResponse: get_db commits the conversation and lets it go before *)
(* the first event.  The turn then runs on the same session, in a           *)
(* transaction of its own that stream_chat commits at its end.  The rows of *)
(* a conversation are ordered by created_at, which is set when a row is     *)
(* flushed: log[k] has them in that order, committed or not.                *)
(***************************************************************************)
EXTENDS Naturals, Sequences, SequencesExt, Positions

CONSTANTS
  Turn,           \* turns in flight at the same time
  Talk,           \* ids of chat_conversations
  Booking,        \* ids of reservation_requests
  NoTalk,         \* no conversation
  Kept,           \* in place of a turn: the row is committed
  MaxIterations,  \* calls of the model in a turn (5)
  MaxCalls,       \* bound: tool calls in one answer of the model
  SharedCalls,    \* bound: the same, while another turn is in flight
  HistoryTurns,   \* rows of the conversation that the model is shown (12)
  GuardRows,      \* contents up to which a prompt is not measured (12)
  MaxRows,        \* bound: a turn starts on a shorter log only
  SharedRows      \* bound: the same, while another turn is in flight

ASSUME ChatAssumption ==
  /\ NoTalk \notin Talk /\ Kept \notin Turn
  /\ Turn \cap {"absent", "kept", "lost"} = {}
  /\ MaxIterations \in Nat \ {0} /\ MaxCalls \in Nat \ {0}
  /\ HistoryTurns \in Nat \ {0} /\ GuardRows \in Nat
  /\ SharedCalls \in 1..MaxCalls
  /\ MaxRows \in Nat /\ SharedRows \in 0..MaxRows

VARIABLES
  talk,     \* state of every conversation; fresh: inserted, not committed
  title,    \* its title: none, the first question, a theme
  log,      \* its messages
  turn,     \* the turns
  titling,  \* conversations with a task that looks for a title
  eraser,   \* a request that deletes a conversation
  booking,  \* state of every reservation request
  disturbed   \* history: conversations where two turns overlapped

chatVars == <<talk, title, log, turn, titling, eraser, booking, disturbed>>

TalkState == {"absent", "fresh", "open", "archived", "gone"}
Title == {"none", "question", "theme"}

(* A message: a question, an answer of the model with so many tool calls,   *)
(* or the result of one.                                                    *)
Message == [role : {"user", "assistant", "tool"}, calls : 0..MaxCalls,
            by : Turn \cup {Kept}]

(* A turn: its conversation, whether the session still knows that, whether  *)
(* it had no title, the model's answers so far, and the calls yet to run.   *)
Silent == [pc |-> "silent", talk |-> NoTalk, attached |-> FALSE,
           first |-> FALSE, round |-> 0, left |-> 0]

TurnRecord ==
  [pc : {"silent", "ask", "model", "tools", "commit", "fail"}, talk : Talk \cup {NoTalk},
   attached : BOOLEAN, first : BOOLEAN, round : 0..MaxIterations, left : 0..MaxCalls]

ChatTypeOK ==
  /\ talk \in [Talk -> TalkState]
  /\ title \in [Talk -> Title]
  /\ log \in [Talk -> Seq(Message)]
  /\ turn \in [Turn -> TurnRecord]
  /\ titling \subseteq Talk
  /\ eraser \in [pc : {"idle", "drop", "commit"}, talk : Talk \cup {NoTalk}]
  /\ booking \in [Booking -> {"absent", "kept", "lost"} \cup Turn]
  /\ disturbed \subseteq Talk

ChatInit ==
  /\ talk = [k \in Talk |-> "absent"]
  /\ title = [k \in Talk |-> "none"]
  /\ log = [k \in Talk |-> <<>>]
  /\ turn = [t \in Turn |-> Silent]
  /\ titling = {}
  /\ eraser = [pc |-> "idle", talk |-> NoTalk]
  /\ booking = [b \in Booking |-> "absent"]
  /\ disturbed = {}

------------------------------------------------------------------------------
(* What the model is shown.                                                 *)
Question(by) == [role |-> "user", calls |-> 0, by |-> by]

FromQuestion(p) ==
  LET asked == {i \in 1..Len(p) : p[i].role = "user"} IN
  IF asked = {} THEN <<>>
  ELSE SubSeq(p, CHOOSE i \in asked : \A j \in asked : i <= j, Len(p))

Orphan(m) == m.role = "assistant" /\ m.calls > 0

(* Mutant of Sanitized: the head of the slice is left as it is.             *)
SanitizedTail(p) ==
  IF p # <<>> /\ Orphan(p[Len(p)]) THEN Front(p) ELSE p

(* _sanitize_for_strict_turn_grammar.                                       *)
Sanitized(p) ==
  LET q == FromQuestion(p) IN
  IF q # <<>> /\ Orphan(q[Len(q)]) THEN Front(q) ELSE q

(* _load_history, the user row being the last one.                          *)
Prompt(rows) ==
  Sanitized(SubSeq(rows, IF Len(rows) > HistoryTurns
                         THEN Len(rows) - HistoryTurns + 1 ELSE 1, Len(rows)))

(* _messages_to_contents: results that follow each other are one content.   *)
Contents(p) ==
  Cardinality({i \in 1..Len(p) : p[i].role = "tool" /\ i > 1 => p[i - 1].role # "tool"})

(* _into_blocks: a block starts at every row that is not a tool result, and *)
(* _truncate_contents_to_fit drops as many of the oldest as it must, but    *)
(* for the last.                                                            *)
Truncations(p) ==
  {p} \cup {SubSeq(p, i, Len(p)) :
               i \in {j \in 1..Len(p) : Contents(p) > GuardRows /\ p[j].role # "tool"}}

(* Every tool call is followed by its result and every result follows its   *)
(* call; a call that is not the first of all comes after a question or a    *)
(* result, never after words of the model.                                  *)
WellFormed(p) ==
  /\ \A i \in 1..Len(p) : p[i].calls > 0 =>
       /\ i + p[i].calls <= Len(p)
       /\ \A j \in (i + 1)..(i + p[i].calls) : p[j].role = "tool"
       /\ i > 1 => p[i - 1].role \in {"user", "tool"}
  /\ \A j \in 1..Len(p) : p[j].role = "tool" =>
       \E i \in 1..(j - 1) : p[i].calls >= j - i

LastQuestion(rows) ==
  LET asked == {i \in 1..Len(rows) : rows[i].role = "user"} IN
  CHOOSE i \in asked : \A j \in asked : j <= i

------------------------------------------------------------------------------
TurnGoes(t, q) == turn' = [turn EXCEPT ![t] = q]
On(t, pc) == turn[t].pc = pc
Here(t) == turn[t].talk
NoneStreams(t) == \A u \in Turn \ {t} : On(u, "silent")

(* The insert of a message locks its conversation against deletion.         *)
Writers(k) == {t \in Turn : \E i \in 1..Len(log[k]) : log[k][i].by = t}
Deleted(k) == eraser = [pc |-> "commit", talk |-> k]

Says(t, role, calls) ==
  log' = [log EXCEPT ![Here(t)] = Append(@, [role |-> role, calls |-> calls, by |-> t])]

(* What turn t calls the model with, where no other runs in its             *)
(* conversation: the history up to its question, as it was sanitized then,  *)
(* and the turn's own rows, less what the guard drops before each call.     *)
Rows(t) == log[Here(t)]
History(t) == Prompt(SubSeq(Rows(t), 1, LastQuestion(Rows(t))))
Prompts(t) ==
  Truncations(History(t) \o SubSeq(Rows(t), LastQuestion(Rows(t)) + 1, Len(Rows(t))))

(* The transaction of turn t ends, and with it its rows.                    *)
ForgetTurn(t) ==
  /\ TurnGoes(t, Silent)
  /\ talk' = [k \in Talk |-> IF k = Here(t) /\ talk[k] = "fresh"
                             THEN "absent" ELSE talk[k]]
  /\ log' = [k \in Talk |-> Picked(log[k], {i \in DOMAIN log[k] : log[k][i].by # t})]
  /\ booking' = [b \in Booking |-> IF booking[b] = t THEN "lost" ELSE booking[b]]
  /\ UNCHANGED <<title, titling, eraser, disturbed>>

------------------------------------------------------------------------------
(* get_or_create_conversation finds it, archived or not.                    *)
OpenKnown(t, k) ==
  /\ On(t, "silent")
  /\ talk[k] \in {"open", "archived"}
  /\ Len(log[k]) < IF NoneStreams(t) THEN MaxRows ELSE SharedRows
  /\ TurnGoes(t, [Silent EXCEPT !.pc = "ask", !.talk = k, !.first = title[k] = "none"])
  /\ UNCHANGED <<talk, title, log, titling, eraser, booking, disturbed>>

(* It creates one, which is committed before the stream starts.  The old    *)
(* endpoint, which does not stream, has everything in one transaction.      *)
OpenNew(t, k, legacy) ==
  /\ On(t, "silent") /\ talk[k] = "absent"
  /\ talk' = [talk EXCEPT ![k] = IF legacy THEN "fresh" ELSE "open"]
  /\ TurnGoes(t, [Silent EXCEPT !.pc = "ask", !.talk = k, !.attached = legacy, !.first = TRUE])
  /\ UNCHANGED <<title, log, titling, eraser, booking, disturbed>>

(* POST /conversations.                                                     *)
CreateConversation(k) ==
  /\ talk[k] = "absent"
  /\ talk' = [talk EXCEPT ![k] = "open"]
  /\ UNCHANGED <<title, log, turn, titling, eraser, booking, disturbed>>

(* stream_chat up to the loop: the question is flushed, the preferences are *)
(* saved, the prompt is built.  The title and last_message_at change in     *)
(* memory; a conversation that is detached is never flushed.                *)
AskTurn(t) ==
  /\ On(t, "ask")
  /\ ~Deleted(Here(t)) /\ talk[Here(t)] # "gone"
  /\ Says(t, "user", 0)
  /\ TurnGoes(t, [turn[t] EXCEPT !.pc = "model"])
  /\ disturbed' = IF Writers(Here(t)) = {} THEN disturbed ELSE disturbed \cup {Here(t)}
  /\ UNCHANGED <<talk, title, titling, eraser, booking>>

(* The conversation was deleted since: the insert raises.                   *)
AskFails(t) ==
  /\ On(t, "ask") /\ talk[Here(t)] = "gone"
  /\ ForgetTurn(t)

------------------------------------------------------------------------------
(* AgentLoop.run.  The model answers in words, and the turn is over.        *)
AnswerText(t) ==
  /\ On(t, "model")
  /\ Says(t, "assistant", 0)
  /\ TurnGoes(t, [turn[t] EXCEPT !.pc = "commit", !.round = @ + 1])
  /\ UNCHANGED <<talk, title, titling, eraser, booking, disturbed>>

(* It asks for n tools.                                                     *)
AnswerCalls(t, n) ==
  /\ On(t, "model") /\ (NoneStreams(t) \/ n <= SharedCalls)
  /\ Says(t, "assistant", n)
  /\ TurnGoes(t, [turn[t] EXCEPT !.pc = "tools", !.round = @ + 1, !.left = n])
  /\ UNCHANGED <<talk, title, titling, eraser, booking, disturbed>>

(* The call of the model fails: an error event ends the loop.               *)
AnswerFails(t) ==
  /\ On(t, "model")
  /\ TurnGoes(t, [turn[t] EXCEPT !.pc = "fail"])
  /\ UNCHANGED <<talk, title, log, titling, eraser, booking, disturbed>>

(* Mutant of AfterTool: the cap is tested one answer too late.              *)
AfterToolLate(q) ==
  IF q.left > 0 THEN "tools" ELSE IF q.round <= MaxIterations THEN "model" ELSE "fail"

(* Where the loop goes on when a tool is done: at the cap it ends with an   *)
(* error event.                                                             *)
AfterTool(q) ==
  IF q.left > 0 THEN "tools" ELSE IF q.round < MaxIterations THEN "model" ELSE "fail"

(* The next tool has run, has raised, has timed out or was not known: each  *)
(* way it gets a result.                                                    *)
Result(t) ==
  LET q == [turn[t] EXCEPT !.left = @ - 1] IN
  /\ Says(t, "tool", 0)
  /\ TurnGoes(t, [q EXCEPT !.pc = AfterTool(q)])
  /\ UNCHANGED <<talk, title, titling, eraser, disturbed>>

RunTool(t) ==
  /\ On(t, "tools")
  /\ Result(t)
  /\ UNCHANGED booking

(* request_reservation: the row is flushed, and a task mails the owner,     *)
(* whatever becomes of the row: lost is a request with a mail and no row.   *)
Reserve(t, b) ==
  /\ On(t, "tools") /\ booking[b] = "absent"
  /\ booking' = [booking EXCEPT ![b] = t]
  /\ Result(t)

(* Mutant of Broken: what was flushed is there to stay.                     *)
BrokenKeeping(t) ==
  /\ TurnGoes(t, Silent)
  /\ talk[Here(t)] # "fresh"
  /\ log' = [k \in Talk |-> [i \in 1..Len(log[k]) |->
                IF log[k][i].by = t THEN [log[k][i] EXCEPT !.by = Kept] ELSE log[k][i]]]
  /\ UNCHANGED <<talk, title, titling, eraser, booking, disturbed>>

(* The diner closes the stream, the process dies, or a statement of a tool  *)
(* fails or is cancelled by its timeout, after which no flush of the        *)
(* session succeeds.                                                        *)
Broken(t) == ForgetTurn(t)

Break(t) == ~On(t, "silent") /\ Broken(t)

(* The old endpoint raises at an error event.                               *)
LegacyFails(t) == On(t, "fail") /\ turn[t].attached /\ ForgetTurn(t)

(* The commit at the end of stream_chat, after an error event too, and the  *)
(* titler after it.                                                         *)
CommitTurn(t) ==
  LET q == turn[t] k == Here(t) IN
  /\ On(t, "commit") \/ (On(t, "fail") /\ ~q.attached)
  /\ TurnGoes(t, Silent)
  /\ talk' = [talk EXCEPT ![k] = IF @ = "fresh" THEN "open" ELSE @]
  /\ title' = [title EXCEPT ![k] = IF q.attached /\ q.first THEN "question" ELSE @]
  /\ log' = [log EXCEPT ![k] = [i \in 1..Len(@) |->
                IF @[i].by = t THEN [@[i] EXCEPT !.by = Kept] ELSE @[i]]]
  /\ booking' = [b \in Booking |-> IF booking[b] = t THEN "kept" ELSE booking[b]]
  /\ titling' = IF q.first THEN titling \cup {k} ELSE titling
  /\ UNCHANGED <<eraser, disturbed>>

(* analyze_and_persist_title, in a session of its own; it may find nothing  *)
(* to say, and it never raises.                                             *)
FindTitle(k) ==
  /\ k \in titling
  /\ titling' = titling \ {k}
  /\ title' \in {title, [title EXCEPT ![k] = IF talk[k] = "gone" THEN @ ELSE "theme"]}
  /\ UNCHANGED <<talk, log, turn, eraser, booking, disturbed>>

------------------------------------------------------------------------------
(* archive_conversation and its inverse, each idempotent.                   *)
Archive(k, from, to) ==
  /\ talk[k] = from /\ ~Deleted(k)
  /\ talk' = [talk EXCEPT ![k] = to]
  /\ UNCHANGED <<title, log, turn, titling, eraser, booking, disturbed>>

ArchiveConversation(k) == Archive(k, "open", "archived")

UnarchiveConversation(k) == Archive(k, "archived", "open")

(* hard_delete_conversation: it deletes the messages it sees, then the      *)
(* conversation, for which it waits until no turn has a message in it.      *)
BeginHardDelete(k) ==
  /\ eraser.pc = "idle" /\ talk[k] \in {"open", "archived"}
  /\ eraser' = [pc |-> "drop", talk |-> k]
  /\ UNCHANGED <<talk, title, log, turn, titling, booking, disturbed>>

Drop ==
  /\ eraser.pc = "drop" /\ Writers(eraser.talk) = {}
  /\ eraser' = [eraser EXCEPT !.pc = "commit"]
  /\ UNCHANGED <<talk, title, log, turn, titling, booking, disturbed>>

(* What was committed meanwhile goes by the cascade.                        *)
CommitErase ==
  /\ eraser.pc = "commit"
  /\ talk' = [talk EXCEPT ![eraser.talk] = "gone"]
  /\ log' = [log EXCEPT ![eraser.talk] = <<>>]
  /\ eraser' = [pc |-> "idle", talk |-> NoTalk]
  /\ UNCHANGED <<title, turn, titling, booking, disturbed>>

AbortErase ==
  /\ eraser.pc # "idle"
  /\ eraser' = [pc |-> "idle", talk |-> NoTalk]
  /\ UNCHANGED <<talk, title, log, turn, titling, booking, disturbed>>

ChatNext ==
  \/ \E t \in Turn :
       \/ \E k \in Talk :
            \/ OpenKnown(t, k)
            \/ \E legacy \in BOOLEAN : OpenNew(t, k, legacy)
       \/ AskTurn(t) \/ AskFails(t)
       \/ AnswerText(t) \/ AnswerFails(t)
       \/ \E n \in 1..MaxCalls : AnswerCalls(t, n)
       \/ RunTool(t)
       \/ \E b \in Booking : Reserve(t, b)
       \/ LegacyFails(t) \/ Break(t) \/ CommitTurn(t)
  \/ \E k \in Talk :
       \/ CreateConversation(k) \/ FindTitle(k)
       \/ ArchiveConversation(k) \/ UnarchiveConversation(k)
       \/ BeginHardDelete(k)
  \/ Drop \/ CommitErase \/ AbortErase

ChatSpec == ChatInit /\ [][ChatNext]_chatVars

------------------------------------------------------------------------------
KeptLog(k) == Picked(log[k], {i \in DOMAIN log[k] : log[k][i].by = Kept})

(* What is stored of a conversation is whole turns: an aborted stream       *)
(* leaves no part of one, every tool call has its result, at the cap too,   *)
(* and no question gets more than MaxIterations answers.  Only turns that   *)
(* run in one conversation at the same time mix their rows.                 *)
WholeTurns ==
  \A k \in Talk \ disturbed :
    LET p == KeptLog(k) IN
    /\ WellFormed(p)
    /\ p # <<>> => p[1].role = "user"
    /\ \A i, j \in 1..Len(p) :
         (\A n \in (i + 1)..j : p[n].role # "user") =>
           Cardinality({n \in i..j : p[n].role = "assistant"}) <= MaxIterations

(* The history a turn loads begins with a question, wherever its window     *)
(* cuts the stored rows; and at every call of the model, the later ones of  *)
(* the turn too, what the token guard leaves keeps every tool call with its *)
(* results and puts none after words of the model (chat_service.py:130,     *)
(* agent_loop.py:384).  It need not begin with a question any more.         *)
AtModel == {t \in Turn : On(t, "model") /\ Here(t) \notin disturbed}

PromptsArePaired ==
  \A t \in AtModel :
    /\ History(t)[1].role = "user"
    /\ \A p \in Prompts(t) : WellFormed(p)

(* Claimed at chat_service.py:133: a call follows a question or a result,   *)
(* in whatever the model is shown.                                          *)
CallsFollowTurns ==
  \A t \in AtModel : \A p \in Prompts(t) : \A i \in 1..Len(p) :
    p[i].calls > 0 => i > 1 /\ p[i - 1].role \in {"user", "tool"}

(* Claimed at agent_loop.py:731: whatever the guard drops, the question of  *)
(* the turn is in the prompt.                                               *)
QuestionIsShown ==
  \A t \in AtModel : \A p \in Prompts(t) : \E i \in 1..Len(p) : p[i] = Question(t)

(* Claimed at chat_service.py:12: the connection may abort, what the turn   *)
(* had written by then is stored.                                           *)
AbortKeepsTranscript ==
  [][\A t \in Turn : ~On(t, "silent") /\ turn'[t].pc = "silent" =>
       \A i \in {j \in 1..Len(Rows(t)) : Rows(t)[j].by = t} :
         /\ i <= Len(log'[Here(t)])
         /\ log'[Here(t)][i] = [Rows(t)[i] EXCEPT !.by = Kept]]_chatVars

(* Claimed at reservations.py:153: when the owner is mailed, the request is *)
(* committed.  Every request is mailed as its tool runs.                    *)
MailedIsStored == \A b \in Booking : booking[b] # "lost"

(* A conversation that was deleted leaves no message, not even of a turn    *)
(* that was streaming (chat.py:570).                                        *)
NoOrphanMessage ==
  \A k \in Talk : talk[k] \in {"absent", "gone"} => log[k] = <<>>

(* A reservation request is stored with the messages of the turn that made  *)
(* it, all of them, or not at all: the tool answers "requested" after its    *)
(* flush, the commit of the turn decides (reservations.py:150).             *)
BookedWithTurn ==
  [][\A b \in Booking : booking'[b] = "kept" /\ booking[b] # "kept" =>
       LET t == booking[b] IN
       /\ t \in Turn
       /\ \E i \in 1..Len(log[Here(t)]) : log[Here(t)][i].by = t /\ log[Here(t)][i].role = "tool"
       /\ \A i \in 1..Len(log[Here(t)]) :
            log[Here(t)][i].by = t => log'[Here(t)][i].by = Kept]_chatVars

(* All three: what is stored of a conversation.                             *)
TurnsHold == [](WholeTurns /\ NoOrphanMessage) /\ BookedWithTurn

=============================================================================
