------------------------------ MODULE Preferences ------------------------------
(***************************************************************************)
(* What one person has set: how an agent talks to them, what they may not   *)
(* eat, whether they get mails, which tours they have closed (app/routers/  *)
(* user_preferences.py, owner_preferences.py, user_ui_state.py, app/        *)
(* services/user_chat_preferences_service.py, chat/tools/taste.py,          *)
(* preferences.py, insights.py).                                            *)
(*                                                                          *)
(* Each is one row that forms and turns of the chat write.  A form reads    *)
(* the row and its flush writes the columns whose value it has changed; an  *)
(* upsert writes the columns it is given in one statement; a turn keeps the *)
(* profile it read when it began.  The row is locked from the flush to the  *)
(* commit, which for a turn is its end.                                     *)
(***************************************************************************)
EXTENDS Naturals, FiniteSets

CONSTANTS
  Slot,     \* requests in flight at the same time
  Word,     \* what a column can hold: languages, styles, hours
  Thing,    \* what a list can hold: allergens, tours
  Cap       \* allergies a profile holds at most (20)

ASSUME PreferencesAssumption == Cap \in Nat \ {0}

VARIABLES
  table,   \* the one that these requests are about
  there,   \* its row is there
  cell,    \* the columns of the row; {} is NULL, or an empty list
  slot     \* the requests

prefVars == <<table, there, cell, slot>>

(* voice: chat preferences, of a diner or of an owner; taste: the declared  *)
(* part of the taste profile; mails: notify_on_review; tours: the tours.    *)
Table == {"voice", "taste", "mails", "tours"}
ColumnsOf(t) ==
  CASE t = "voice" -> {"language", "style"}
    [] t = "taste" -> {"allergies", "hours"}
    [] t = "mails" -> {"notify"}
    [] OTHER -> {"dismissed"}

Columns == ColumnsOf(table)
CellValue(c) == IF c \in {"allergies", "dismissed"} THEN {l \in SUBSET Thing : IsFiniteSet(l)}
                ELSE {{}} \cup {{v} : v \in Word}
NoCells == [c \in {} |-> {}]

(* A request: the row as it knows it, the columns it writes, what it wants  *)
(* of them, and, a history, whether another one committed since it began.   *)
Unused == [op |-> "none", pc |-> "unused", found |-> FALSE, base |-> NoCells,
           sets |-> NoCells, wants |-> NoCells, crossed |-> FALSE]

SlotOp == {"none", "form", "upsert", "merge", "dismiss", "restore"}
IsCells(f) == DOMAIN f \subseteq Columns /\ \A c \in DOMAIN f : f[c] \subseteq Word \cup Thing

PreferencesTypeOK ==
  /\ table \in Table
  /\ there \in BOOLEAN
  /\ DOMAIN cell = Columns /\ \A c \in Columns : cell[c] \in CellValue(c)
  /\ table = "taste" => Cardinality(cell["allergies"]) <= Cap
  /\ \A s \in Slot :
       /\ slot[s].op \in SlotOp /\ slot[s].pc \in {"unused", "turn", "flush", "commit"}
       /\ slot[s].found \in BOOLEAN /\ slot[s].crossed \in BOOLEAN
       /\ IsCells(slot[s].base) /\ IsCells(slot[s].sets) /\ IsCells(slot[s].wants)

PreferencesInit ==
  /\ table \in Table
  /\ there = FALSE
  /\ cell = [c \in Columns |-> {}]
  /\ slot = [s \in Slot |-> Unused]

------------------------------------------------------------------------------
SlotAt(s, pc) == slot[s].pc = pc
SlotIs(s, q) == slot' = [slot EXCEPT ![s] = q] /\ UNCHANGED <<table, there, cell>>

(* A form reads the row.  If there is none it inserts one with all columns, *)
(* else it writes those that it has changed.                                *)
Submit(s, t, wants) ==
  /\ table = t /\ SlotAt(s, "unused")
  /\ SlotIs(s, [Unused EXCEPT !.op = "form", !.pc = "flush", !.found = there,
                  !.wants = wants,
                  !.sets = IF there THEN [c \in {d \in Columns : wants[d] # cell[d]} |-> wants[c]]
                           ELSE wants])

Complete(t) ==
  {w \in [ColumnsOf(t) -> UNION {CellValue(c) : c \in ColumnsOf(t)}] :
     \A c \in ColumnsOf(t) : w[c] \in CellValue(c)}

ReplaceChatPreference(s) == \E wants \in Complete("voice") : Submit(s, "voice", wants)
UpdateMyTasteProfile(s) ==
  \E wants \in {w \in Complete("taste") : Cardinality(w["allergies"]) <= Cap} :
    Submit(s, "taste", wants)
UpdateNotificationPreferences(s) == \E wants \in Complete("mails") : Submit(s, "mails", wants)

(* The upsert of one column, by a tool or by what the message says: the     *)
(* fields that are None are left out.  None is not a value here: a tool     *)
(* cannot clear a column.                                                   *)
UpsertChatPreference(s, c, v) ==
  /\ table = "voice" /\ SlotAt(s, "unused") /\ v # {}
  /\ SlotIs(s, [Unused EXCEPT !.op = "upsert", !.pc = "flush",
                              !.sets = [d \in {c} |-> v], !.wants = [d \in {c} |-> v]])

(* A turn begins and reads the profile, which it keeps.                     *)
BeginTurn(s) ==
  /\ table = "taste" /\ SlotAt(s, "unused")
  /\ SlotIs(s, [Unused EXCEPT !.op = "merge", !.pc = "turn", !.found = there,
                              !.base = IF there THEN cell ELSE NoCells])

(* Mutant of Merged: the new allergies replace the old ones.                *)
MergedReplacing(old, new) == {new}

(* Mutant of Merged: the list is not cut.                                   *)
MergedWhole(old, new) == {old \cup new}

(* existing[:20]: what is past the cap is dropped, of the new ones.         *)
Merged(old, new) ==
  {old \cup n : n \in {m \in SUBSET (new \ old) :
     Cardinality(m) = IF Cardinality(new \ old) <= Cap - Cardinality(old)
                      THEN Cardinality(new \ old) ELSE Cap - Cardinality(old)}}

(* update_taste_profile, with new allergies and, maybe, hours: without a     *)
(* profile it looks again.                                                  *)
UpdateTasteProfile(s, new, hours) ==
  LET q == slot[s]
      known == IF q.found THEN q.base ELSE cell
      found == q.found \/ there IN
  /\ SlotAt(s, "turn") /\ (new # {} \/ hours # {})
  /\ \E all \in Merged(known["allergies"], new) :
       LET told == [c \in {"allergies"} \cup {"hours" : h \in hours} |->
                      IF c = "allergies" THEN all ELSE UNION hours] IN
       SlotIs(s, [q EXCEPT !.pc = "flush", !.found = found, !.base = NoCells,
            !.wants = [c \in {"allergies"} |-> new],
            !.sets = [c \in {d \in DOMAIN told : ~found \/ told[d] # known[d]} |-> told[c]]])

(* dismiss_tour adds to the array in the statement, restore_tour removes    *)
(* from it; sets has the tour.                                              *)
ChangeTours(s, op, v) ==
  /\ table = "tours" /\ SlotAt(s, "unused")
  /\ SlotIs(s, [Unused EXCEPT !.op = op, !.pc = "flush", !.sets = [c \in {"dismissed"} |-> {v}],
                              !.wants = [c \in {"dismissed"} |-> {v}]])

DismissTour(s, v) == ChangeTours(s, "dismiss", v)
RestoreTour(s, v) == ChangeTours(s, "restore", v)

------------------------------------------------------------------------------
(* A statement waits for whoever has written the row.                       *)
Writes(q) == q.pc = "commit" /\ (DOMAIN q.sets # {} \/ ~q.found)
RowIsFree(s) == \A e \in Slot \ {s} : ~Writes(slot[e])

(* The flush.  A row that somebody else has inserted meanwhile makes an     *)
(* insert fail, and with it the request; an upsert updates it.              *)
FlushRow(s) ==
  LET q == slot[s] IN
  /\ SlotAt(s, "flush")
  /\ RowIsFree(s)
  /\ SlotIs(s, IF q.op \in {"form", "merge"} /\ ~q.found /\ there THEN Unused
               ELSE [q EXCEPT !.pc = "commit"])

(* The value of column c after the commit of q.                             *)
After(q, c) ==
  IF c \notin DOMAIN q.sets THEN cell[c]
  ELSE CASE q.op = "dismiss" -> cell[c] \cup q.sets[c]
         [] q.op = "restore" -> cell[c] \ q.sets[c]
         [] OTHER -> q.sets[c]

CommitRow(s) ==
  LET q == slot[s] IN
  /\ SlotAt(s, "commit")
  /\ there' = (there \/ q.op # "restore")
  /\ cell' = [c \in Columns |-> After(q, c)]
  /\ slot' = [e \in Slot |-> IF e = s THEN Unused
                             ELSE [slot[e] EXCEPT !.crossed = ~SlotAt(e, "unused")]]
  /\ UNCHANGED table

(* The stream or the connection breaks, the process dies: a rollback.       *)
AbortRow(s) == ~SlotAt(s, "unused") /\ SlotIs(s, Unused)

PreferencesNext ==
  \E s \in Slot :
    \/ ReplaceChatPreference(s) \/ UpdateMyTasteProfile(s) \/ UpdateNotificationPreferences(s)
    \/ \E c \in Columns : \E v \in CellValue(c) : UpsertChatPreference(s, c, v)
    \/ BeginTurn(s)
    \/ \E new \in CellValue("allergies"), hours \in {{}} \cup {{h} : h \in CellValue("hours")} :
         UpdateTasteProfile(s, new, hours)
    \/ \E v \in Thing : DismissTour(s, v) \/ RestoreTour(s, v)
    \/ FlushRow(s) \/ CommitRow(s) \/ AbortRow(s)

PreferencesSpec == PreferencesInit /\ [][PreferencesNext]_prefVars

------------------------------------------------------------------------------
Stores(s) ==
  SlotAt(s, "commit") /\ SlotAt(s, "unused")' /\ (cell' # cell \/ there' # there)

(* What somebody has set is what is stored, whoever writes at the same      *)
(* time: a tool that is given one field leaves the others alone, tours are  *)
(* neither lost nor restored by each other, and, unless another request     *)
(* committed in between, a form is stored as a whole and a turn adds what   *)
(* it was told to the allergies there are, as far as the cap allows, and    *)
(* loses none (user_chat_preferences_service.py:80, taste.py:164).          *)
SettingsKept ==
  [][\A s \in Slot : Stores(s) =>
       LET q == slot[s] IN
       /\ q.op = "upsert" =>
            \A c \in Columns : cell'[c] = IF c \in DOMAIN q.wants THEN q.wants[c] ELSE cell[c]
       /\ q.op = "dismiss" => cell'["dismissed"] = cell["dismissed"] \cup q.wants["dismissed"]
       /\ q.op = "restore" => cell'["dismissed"] = cell["dismissed"] \ q.wants["dismissed"]
       /\ q.op = "form" /\ ~q.crossed => cell' = q.wants
       /\ q.op = "merge" /\ ~q.crossed =>
            /\ cell["allergies"] \subseteq cell'["allergies"]
            /\ cell'["allergies"] \subseteq cell["allergies"] \cup q.wants["allergies"]
            /\ \/ q.wants["allergies"] \subseteq cell'["allergies"]
               \/ Cardinality(cell'["allergies"]) = Cap
    ]_prefVars

=============================================================================
