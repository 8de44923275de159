---------------------------- MODULE ManagedChats ----------------------------
(***************************************************************************)
(* The admin panel's handlers on group and channel chats                   *)
(* (ratecore_bot/handlers/admin.py, with the chat functions of             *)
(* db/repository.py), against each other and against /start and /ping sent *)
(* in the chats themselves.                                                *)
(*                                                                         *)
(* Updates are handled as concurrent tasks.  A handler reads the Chat row, *)
(* then the ChatSettings row, decides on what it read, and writes: the ORM *)
(* updates the columns it has given a value other than the one it read,    *)
(* and no others.  At the end the panel is edited to what the handler      *)
(* knows.  A button may be pressed again, or in an older message, before   *)
(* the handler of the first press is done.                                 *)
(*                                                                         *)
(* A chat's two rows are created together.  From the flush to the commit a *)
(* handler holds SQLite's write lock, so its writes are one step.  The     *)
(* process may die between any two steps.                                  *)
(***************************************************************************)
EXTENDS Integers

CONSTANTS Chats,
          Handlers,      \* updates that can be at work at once
          Intervals,     \* the intervals an admin can choose
          NextInterval,  \* the one that follows each
          Default        \* interval of a new chat

ASSUME ChatsAssumption == /\ NextInterval \in [Intervals -> Intervals]
                          /\ Default \in Intervals

VARIABLES active,     \* chats with is_active; the others have no row or not
          settings,   \* ChatSettings of each chat, NoRow before it is known
          task,       \* the locals of each handler
          panel,      \* what the admin's message shows
          \* what has happened, which the program does not know:
          acked,      \* what the admin was last told of each chat
          stale,      \* chats added, removed or switched on the strength of
                      \* rows that had changed since they were read
          alone,      \* the handler at work on the panel, no other having been
                      \* since it began
          doubtful    \* the last edit of the panel was not made alone, or failed

dbVars    == <<active, settings>>
worldVars == <<acked, stale, alone, doubtful>>
vars      == <<dbVars, task, panel, worldVars>>

NoRow      == [auto |-> FALSE, interval |-> 0, mode |-> "none"]
NewRow     == [auto |-> FALSE, interval |-> Default, mode |-> "edit"]
Rows       == [auto : BOOLEAN, interval : Intervals, mode : {"edit", "new"}]
Known(c)   == settings[c] # NoRow

\* The panel.
Menu         == [view |-> "menu"]
Detail(c, s) == [view |-> "detail", chat |-> c, row |-> s]
Confirm(c)   == [view |-> "confirm", chat |-> c]

\* The updates, by what their handlers do: the ones that cycle a column are
\* named for it.
Cycling  == {"auto", "interval", "mode"}
Checking == Cycling \cup {"detail", "confirm"}  \* refuse a chat that is removed
Creating == {"share", "start", "ping"}          \* add a chat that is not known
OnPanel  == Checking \cup {"yes", "cancel"}     \* edit the panel at the end

Idle       == [pc |-> "idle"]
IsAt(h, p) == task[h].pc = p
Busy       == {h \in Handlers : ~IsAt(h, "idle")}
AtPanel    == {h \in Busy : task[h].op \in OnPanel}

Init == /\ active = {}
        /\ settings = [c \in Chats |-> NoRow]
        /\ task = [h \in Handlers |-> Idle]
        /\ panel = Menu
        /\ acked = [c \in Chats |-> "nothing"]
        /\ stale = {} /\ alone = {}
        /\ doubtful = FALSE

-----------------------------------------------------------------------------
\* A press, a chat shared through the picker, or a command in the chat.
Arrives(h, op, c) ==
  /\ IsAt(h, "idle")
  /\ task' = [task EXCEPT ![h] = [pc |-> "chat", op |-> op, chat |-> c]]
  /\ alone' = IF op \notin OnPanel THEN alone ELSE IF AtPanel = {} THEN {h} ELSE {}
  /\ UNCHANGED <<dbVars, panel, acked, stale, doubtful>>

GoesOn(h, p) == task' = [task EXCEPT ![h] = [@ EXCEPT !.pc = p]]
Ends(h)      == task' = [task EXCEPT ![h] = Idle]

\* The Chat row is read.  A chat that is not known, or is removed, is refused;
\* /ping has nothing to do for a known one.
Refused(h) ==
  LET c == task[h].chat  op == task[h].op
  IN /\ IsAt(h, "chat")
     /\ \/ ~Known(c) /\ op \notin Creating
        \/ Known(c) /\ c \notin active /\ op \in Checking
        \/ Known(c) /\ op = "ping"
     /\ Ends(h)
     /\ UNCHANGED <<dbVars, panel, worldVars>>

ToCreate(h) ==
  /\ IsAt(h, "chat")
  /\ ~Known(task[h].chat) /\ task[h].op \in Creating
  /\ GoesOn(h, "insert")
  /\ UNCHANGED <<dbVars, panel, worldVars>>

ReadChat(h) ==
  LET c == task[h].chat  op == task[h].op
  IN /\ IsAt(h, "chat")
     /\ Known(c) /\ op # "ping" /\ (op \in Checking => c \in active)
     /\ task' = [task EXCEPT ![h] = [op |-> op, chat |-> c, active |-> c \in active,
                                     pc |-> IF op \in Creating THEN "write" ELSE "settings"]]
     /\ UNCHANGED <<dbVars, panel, worldVars>>

\* selectinload reads the ChatSettings row with a statement of its own.
ReadSettings(h) ==
  LET t == task[h]
  IN /\ IsAt(h, "settings")
     /\ task' = [task EXCEPT ![h] =
                   [pc |-> IF t.op \in Cycling \cup {"yes"} THEN "write" ELSE "edit",
                    op |-> t.op, chat |-> t.chat, active |-> t.active,
                    row |-> settings[t.chat]]]
     /\ UNCHANGED <<dbVars, panel, worldVars>>

\* Ways to get it wrong, each put in the place of the definition it is named
\* after: a chat is inserted without its settings; a removal leaves auto-post on;
\* a chat added again is only retitled; the panel shows the row as it was read.
Insert_ChatOnly(h) ==
  /\ IsAt(h, "insert") /\ ~Known(task[h].chat)
  /\ active' = active \cup {task[h].chat}
  /\ task' = [task EXCEPT ![h] = Idle]
  /\ UNCHANGED <<settings, panel, worldVars>>

Deactivated_KeepsAuto(row, seen) == row

Reactivated_Retitles(c, seenActive) == active

Shown_AsRead(t) == Detail(t.chat, t.row)

-----------------------------------------------------------------------------
\* get_or_create_chat or ensure_chat_by_id for a chat that was not there.
Insert(h) ==
  LET c == task[h].chat
  IN /\ IsAt(h, "insert") /\ ~Known(c)
     /\ active' = active \cup {c}
     /\ settings' = [settings EXCEPT ![c] = NewRow]
     /\ acked' = IF task[h].op = "share" THEN [acked EXCEPT ![c] = "added"] ELSE acked
     /\ Ends(h)
     /\ UNCHANGED <<panel, stale, alone, doubtful>>

\* A column after the press on its button.
Cycled(op, value) == CASE op = "auto"     -> ~value
                       [] op = "interval" -> NextInterval[value]
                       [] op = "mode"     -> IF value = "edit" THEN "new" ELSE "edit"

\* update_chat_settings
SetColumn(h) ==
  LET t == task[h]
  IN /\ IsAt(h, "write") /\ t.op \in Cycling
     /\ settings' = [settings EXCEPT ![t.chat][t.op] = Cycled(t.op, t.row[t.op])]
     /\ stale' = IF t.op = "auto" /\ t.chat \notin active
                   THEN stale \cup {t.chat} ELSE stale
     /\ GoesOn(h, "edit")
     /\ UNCHANGED <<active, panel, acked, alone, doubtful>>

\* Whether what was read still holds; an admin's decision on rows that do leaves
\* nothing of what an earlier one spoiled.
Decided(c, holds) == stale' = IF holds THEN stale \ {c} ELSE stale \cup {c}

\* deactivate_chat: the two columns, each unless it was read as FALSE.
Deactivated(row, seen) == [row EXCEPT !.auto = IF seen.auto THEN FALSE ELSE @]

Deactivate(h) ==
  LET t == task[h]  c == t.chat
  IN /\ IsAt(h, "write") /\ t.op = "yes"
     /\ active' = IF t.active THEN active \ {c} ELSE active
     /\ settings' = [settings EXCEPT ![c] = Deactivated(@, t.row)]
     /\ Decided(c, t.active = (c \in active) /\ t.row.auto = settings[c].auto)
     /\ acked' = [acked EXCEPT ![c] = "removed"]
     /\ GoesOn(h, "edit")
     /\ UNCHANGED <<panel, alone, doubtful>>

\* ensure_chat_by_id of a chat that was there: is_active, unless read as TRUE.
Reactivated(c, seenActive) == IF seenActive THEN active ELSE active \cup {c}

Reactivate(h) ==
  LET t == task[h]  c == t.chat
  IN /\ IsAt(h, "write") /\ t.op \in {"share", "start"}
     /\ active' = Reactivated(c, t.active)
     /\ IF t.op = "start" /\ t.active = (c \in active)
          THEN stale' = stale
          ELSE Decided(c, t.active = (c \in active))
     /\ acked' = [acked EXCEPT ![c] = IF t.op = "share" THEN "added"
                                      ELSE IF t.active THEN @ ELSE "nothing"]
     /\ Ends(h)
     /\ UNCHANGED <<settings, panel, alone, doubtful>>

\* The row was inserted by another handler meanwhile, the lock was not to be had,
\* or Telegram did not know the chat: the handler raises and nothing is changed.
Fails(h) ==
  /\ IsAt(h, "insert") \/ IsAt(h, "write")
  /\ Ends(h)
  /\ UNCHANGED <<dbVars, panel, worldVars>>

\* The handler shows what its objects hold.
Shown(t) == Detail(t.chat, IF t.op \in Cycling
                             THEN [t.row EXCEPT ![t.op] = Cycled(t.op, @)]
                             ELSE t.row)

Edit(h) ==
  LET t == task[h]
  IN /\ IsAt(h, "edit")
     /\ panel' = CASE t.op = "yes"     -> Menu
                   [] t.op = "confirm" -> Confirm(t.chat)
                   [] OTHER            -> Shown(t)
     /\ doubtful' = (h \notin alone)
     /\ Ends(h)
     /\ UNCHANGED <<dbVars, acked, stale, alone>>

\* Telegram refuses the edit, or it is lost.
EditFails(h) ==
  /\ IsAt(h, "edit")
  /\ doubtful' = TRUE
  /\ Ends(h)
  /\ UNCHANGED <<dbVars, panel, acked, stale, alone>>

\* The process dies and is started again: the handlers at work are gone, and what
\* they would have shown.
Crash ==
  /\ task' = [h \in Handlers |-> Idle]
  /\ alone' = {}
  /\ doubtful' = (doubtful \/ AtPanel # {})
  /\ UNCHANGED <<dbVars, panel, acked, stale>>

Handle == \E h \in Handlers :
          \/ \E c \in Chats, op \in OnPanel \cup Creating : Arrives(h, op, c)
          \/ Refused(h)   \/ ToCreate(h)   \/ ReadChat(h)   \/ ReadSettings(h)
          \/ Insert(h)    \/ SetColumn(h)  \/ Deactivate(h) \/ Reactivate(h)
          \/ Fails(h)     \/ Edit(h)       \/ EditFails(h)

Next == Handle \/ Crash

Spec == Init /\ [][Next]_vars

-----------------------------------------------------------------------------
TypeOK == /\ \A c \in Chats : settings[c] \in Rows \cup {NoRow}
          /\ active \subseteq {c \in Chats : Known(c)}
          /\ \A h \in Busy : /\ task[h].chat \in Chats
                             /\ IsAt(h, "write") => Known(task[h].chat)
          /\ panel.view = "detail" => panel.row \in Rows
          /\ acked \in [Chats -> {"nothing", "added", "removed"}]
          /\ stale \subseteq Chats
          /\ alone \subseteq Handlers /\ doubtful \in BOOLEAN

\* A chat that is removed has auto-post off, so that adding it again does not
\* resume the posts, unless a removal or a switch overlapped with another
\* handler; the next undisturbed removal sets that right.
RemovedIsOff ==
  \A c \in Chats \ active : Known(c) /\ settings[c].auto => c \in stale

\* A chat the admin was told is added is managed, and one he was told is removed
\* is not until it is added again or somebody sends /start in it, unless a
\* handler decided on rows that another was changing.
AcksHold ==
  \A c \in Chats \ stale : /\ acked[c] = "added"   => c \in active
                           /\ acked[c] = "removed" => c \notin active

\* When the panel shows a chat and no handler is at work, it shows what is in
\* the database, if the last handler that edited it was alone from its start.
PanelTruthful ==
  (AtPanel = {} /\ ~doubtful /\ panel.view = "detail")
    => panel.row = settings[panel.chat]

-----------------------------------------------------------------------------
\* "Removing a chat hides it from the list and stops scheduler posts"
\* (ADMIN.md:23): a chat that is removed comes back only when the admin adds it.
RemovalIsKept ==
  [][\A c \in active' \ active : Known(c) => acked'[c] = "added"]_vars
=============================================================================
