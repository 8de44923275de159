----------------------------- MODULE MenuAnchors -----------------------------
(***************************************************************************)
(* The anchors of the bot's menus (ratecore_bot/ui/anchor.py): the message *)
(* in a chat that is its main menu or its admin menu, and the id of it     *)
(* that ChatSettings stores.  /start and /admin edit the message whose id  *)
(* is stored, or send a new one and store its id; /restart clears the id   *)
(* first.  Two messages that are no menus have a button Back (the list of  *)
(* /alerts and the word that a chat was added), which turns them into one  *)
(* whose id nobody stores.  With them, the prompts of the chat picker      *)
(* (handlers/admin.py), which are deleted two minutes later and then kept  *)
(* in _pending_chat_prompt.                                                *)
(*                                                                         *)
(* Two stores are written one after the other, Telegram and the database,  *)
(* with awaits in between.  Either may fail, Telegram may do what it was   *)
(* asked and the answer be lost, updates of one chat are handled as        *)
(* concurrent tasks, people delete messages and the bot is restarted.      *)
(*                                                                         *)
(* The gate and the registration of the sender, which come before, are the *)
(* subject of UserHandlers.  Ids of messages are given in the order they   *)
(* are sent.  From a flush to the commit a handler holds SQLite's write    *)
(* lock, so that is one step.                                              *)
(***************************************************************************)
EXTENDS Integers

CONSTANTS Chats,        \* Telegram's ids of chats
          RowOf,        \* chats.id of each
          Handlers,     \* updates that can be at work at once
          MaxMessages   \* bound on the messages sent, for TLC

\* People have large ids in Telegram, groups negative ones, and rows are numbered
\* from one: no id of a chat is the id of a row.
ASSUME ChatsAssumption == /\ Chats \subseteq Int
                          /\ RowOf \in [Chats -> Int]
                          /\ \A c, d \in Chats : RowOf[c] # d
                          /\ MaxMessages \in Nat

VARIABLES stored,    \* for each chat and kind of menu, the id stored, or None
          pending,   \* _pending_chat_prompt of the admin, or None
          task,      \* the locals of each handler
          sent,      \* messages sent so far
          menus,     \* for each chat and kind, the menus that are in the chat
          prompts,   \* the prompts that are
          others,    \* for each chat and kind, messages with a Back button to the
                     \* menu which are none yet
          turned,    \* those which are menus now
          \* what has happened, which the program does not know:
          calm,      \* anchors which handlers had to themselves, without failures
          due,       \* anchors a handler has completed and nobody has deleted
          kept       \* prompts that could not be deleted, or that no handler
                     \* knows of

dbVars    == <<stored>>
otherVars == <<others, turned>>
chatVars  == <<sent, menus, prompts, otherVars>>
worldVars == <<calm, due, kept>>
vars      == <<stored, pending, task, chatVars, worldVars>>

None    == 0
Anchors == Chats \X {"main", "admin"}

\* get_chat_settings_by_chat_id compares chats.id; fetch_chat_with_settings and
\* clear_main_menu_anchor go on to compare tg_chat_id when that finds nothing.
WithRow(key) == {c \in Chats : RowOf[c] = key}
Found(key)   == IF WithRow(key) # {} THEN WithRow(key) ELSE {key}

\* The updates that move anchors; the picker's are "add" and "shared".
OnAnchor == {"start", "restart", "admin"}
Anchor(op, c) == <<c, IF op = "admin" THEN "admin" ELSE "main">>

Idle       == [pc |-> "idle"]
IsAt(h, p) == task[h].pc = p
Busy       == {h \in Handlers : ~IsAt(h, "idle")}
AtWork(a)  == {h \in Busy : task[h].op \in OnAnchor /\ Anchor(task[h].op, task[h].chat) = a}

Init == /\ stored = [a \in Anchors |-> None]
        /\ pending = None
        /\ task = [h \in Handlers |-> Idle]
        /\ sent = 0
        /\ menus = [a \in Anchors |-> {}]
        /\ prompts = {}
        /\ others = [a \in Anchors |-> {}] /\ turned = [a \in Anchors |-> {}]
        /\ calm = Anchors /\ due = {} /\ kept = {}

-----------------------------------------------------------------------------
Entry(op) == CASE op = "restart"          -> "look"
               [] op \in {"start", "admin"} -> "read"
               [] OTHER                   -> op

Arrives(h, op, c) ==
  LET a == Anchor(op, c)
  IN /\ IsAt(h, "idle")
     /\ task' = [task EXCEPT ![h] = [pc |-> Entry(op), op |-> op, chat |-> c,
                                     id |-> None]]
     /\ calm' = IF op \in OnAnchor /\ AtWork(a) # {} THEN calm \ {a} ELSE calm
     /\ UNCHANGED <<stored, pending, chatVars, due, kept>>

Mine(h)         == Anchor(task[h].op, task[h].chat)
GoesOn(h, p)    == task' = [task EXCEPT ![h].pc = p]
Holds(h, id, p) == task' = [task EXCEPT ![h].id = id, ![h].pc = p]
Ends(h)         == task' = [task EXCEPT ![h] = Idle]

\* Something goes wrong with an anchor.
Spoils(h) == calm' = calm \ {Mine(h)}

\* The next message.
NewId == sent + 1
Sends == sent < MaxMessages /\ sent' = NewId

\* The ids stored, after a value is given to those of a kind in some chats.
Put(chats, kind, value) ==
  [a \in Anchors |-> IF a[1] \in chats /\ a[2] = kind THEN value ELSE stored[a]]

\* A message with a Back button is sent.
Gives(a) == /\ Sends
            /\ others' = [others EXCEPT ![a] = @ \cup {NewId}]
            /\ UNCHANGED <<stored, pending, menus, prompts, turned, worldVars>>

\* Ways to get it wrong, each put in the place of the definition it is named
\* after: an edit that changes nothing counts as failed; a prompt is remembered
\* and not cleaned up; the chat is remembered in its place.
Edit_NotModifiedFails(h) ==
  /\ IsAt(h, "edit")
  /\ task[h].id \in menus[Mine(h)]
  /\ GoesOn(h, "send")
  /\ UNCHANGED <<stored, pending, chatVars, worldVars>>

Prompt_NoCleanUp(h) ==
  /\ IsAt(h, "add")
  /\ Sends
  /\ prompts' = prompts \cup {NewId}
  /\ Holds(h, NewId, "remember")
  /\ UNCHANGED <<stored, pending, menus, otherVars, worldVars>>

Remember_Chat(h) ==
  /\ IsAt(h, "remember")
  /\ pending' = task[h].chat
  /\ Ends(h)
  /\ UNCHANGED <<stored, chatVars, worldVars>>

-----------------------------------------------------------------------------
\* clear_main_menu_anchor reads the id, and writes it unless it read None.  The
\* menu stays in the chat.
LookUp(h) ==
  /\ IsAt(h, "look")
  /\ \E c \in Found(task[h].chat) : Holds(h, stored[<<c, "main">>], "clear")
  /\ UNCHANGED <<stored, pending, chatVars, worldVars>>

Clear(h) ==
  /\ IsAt(h, "clear")
  /\ IF task[h].id = None THEN UNCHANGED <<stored, calm>>
     ELSE /\ stored' = Put(Found(task[h].chat), "main", None)
          /\ calm' = IF menus[Mine(h)] # {} THEN calm \ {Mine(h)} ELSE calm
  /\ GoesOn(h, "read")
  /\ UNCHANGED <<pending, chatVars, due, kept>>

\* show_main_menu_anchor and show_admin_menu_anchor, with ensure_chat_by_id.
Read(h) ==
  /\ IsAt(h, "read")
  /\ LET id == stored[Mine(h)]
     IN Holds(h, id, IF id = None THEN "send" ELSE "edit")
  /\ UNCHANGED <<stored, pending, chatVars, worldVars>>

\* _edit_or_send_anchor.  That the message is not modified is as good as an edit.
Edit(h) ==
  /\ IsAt(h, "edit")
  /\ task[h].id \in menus[Mine(h)]
  /\ due' = due \cup {Mine(h)}
  /\ Ends(h)
  /\ UNCHANGED <<stored, pending, chatVars, calm, kept>>

EditFails(h) ==
  /\ IsAt(h, "edit")
  /\ GoesOn(h, "send")
  /\ calm' = IF task[h].id \in menus[Mine(h)] THEN calm \ {Mine(h)} ELSE calm
  /\ UNCHANGED <<stored, pending, chatVars, due, kept>>

Send(h) ==
  /\ IsAt(h, "send")
  /\ Sends
  /\ menus' = [menus EXCEPT ![Mine(h)] = @ \cup {NewId}]
  /\ Holds(h, NewId, "store")
  /\ UNCHANGED <<stored, pending, prompts, otherVars, worldVars>>

\* The message is sent, and the bot is not told.
SendLost(h) ==
  /\ IsAt(h, "send")
  /\ Sends
  /\ menus' = [menus EXCEPT ![Mine(h)] = @ \cup {NewId}]
  /\ Spoils(h)
  /\ Ends(h)
  /\ UNCHANGED <<stored, pending, prompts, otherVars, due, kept>>

\* update_main_menu_anchor and update_admin_menu_anchor
Store(h) ==
  /\ IsAt(h, "store")
  /\ stored' = Put(Found(task[h].chat), Mine(h)[2], task[h].id)
  /\ due' = IF task[h].id \in menus[Mine(h)] THEN due \cup {Mine(h)} ELSE due
  /\ Ends(h)
  /\ UNCHANGED <<pending, chatVars, calm, kept>>

StoreFails(h) ==
  /\ IsAt(h, "store")
  /\ Spoils(h)
  /\ Ends(h)
  /\ UNCHANGED <<stored, pending, chatVars, due, kept>>

-----------------------------------------------------------------------------
\* on_admin_add_group and on_admin_add_channel: the prompt is deleted after two
\* minutes, or cannot be, and is remembered then.
Prompt(h) ==
  /\ IsAt(h, "add")
  /\ Sends
  /\ prompts' = prompts \cup {NewId}
  /\ Holds(h, NewId, "wait")
  /\ UNCHANGED <<stored, pending, menus, otherVars, worldVars>>

\* The prompt is sent, and the bot is not told: nobody will clean it up.
PromptLost(h) ==
  /\ IsAt(h, "add")
  /\ Sends
  /\ prompts' = prompts \cup {NewId}
  /\ kept' = kept \cup {NewId}
  /\ Ends(h)
  /\ UNCHANGED <<stored, pending, menus, otherVars, calm, due>>

CleanUp(h) ==
  /\ IsAt(h, "wait")
  /\ \/ prompts' = prompts \ {task[h].id} /\ UNCHANGED kept
     \/ kept' = kept \cup {task[h].id} /\ UNCHANGED prompts
  /\ GoesOn(h, "remember")
  /\ UNCHANGED <<stored, pending, sent, menus, otherVars, calm, due>>

Remember(h) ==
  /\ IsAt(h, "remember")
  /\ pending' = task[h].id
  /\ Ends(h)
  /\ UNCHANGED <<stored, chatVars, worldVars>>

\* on_admin_chat_shared takes the Telegram id of the admin's chat for that of a
\* row, to delete the admin menu there and to clear its id.
Shared(h) ==
  LET found == WithRow(task[h].chat)
      ids   == {stored[<<c, "admin">>] : c \in found}
  IN /\ IsAt(h, "shared")
     /\ stored' = Put(found, "admin", None)
     /\ menus' = [menus EXCEPT ![<<task[h].chat, "admin">>] = @ \ ids]
     /\ GoesOn(h, "added")
     /\ UNCHANGED <<pending, sent, prompts, otherVars, worldVars>>

\* That the chat is added is told by a message with a Back button.  Without an
\* answer from Telegram the handler ends there.
Added(h)     == IsAt(h, "added") /\ Gives(<<task[h].chat, "admin">>) /\ GoesOn(h, "pop")
AddedLost(h) == IsAt(h, "added") /\ Gives(<<task[h].chat, "admin">>) /\ Ends(h)

\* The prompt remembered is deleted, or cannot be.
Pop(h) ==
  /\ IsAt(h, "pop")
  /\ pending' = None
  /\ \/ prompts' = prompts \ {pending} /\ UNCHANGED kept
     \/ kept' = kept \cup ({pending} \cap prompts) /\ UNCHANGED prompts
  /\ Ends(h)
  /\ UNCHANGED <<stored, sent, menus, otherVars, calm, due>>

-----------------------------------------------------------------------------
\* cmd_alerts: its one effect here is the message it ends with.
ListAlerts(c) == Gives(<<c, "main">>) /\ UNCHANGED task

\* on_back_to_main_menu and on_admin_menu edit the message the button is on.  On
\* the menu itself, which shows other views between, that is as good as no step.
Back(a, id) ==
  /\ id \in others[a]
  /\ others' = [others EXCEPT ![a] = @ \ {id}]
  /\ turned' = [turned EXCEPT ![a] = @ \cup {id}]
  /\ UNCHANGED <<stored, pending, task, sent, menus, prompts, worldVars>>

-----------------------------------------------------------------------------
\* The chat shared is not to be had, a message is not sent, or the lock is not
\* to be had.
Fails(h) ==
  /\ task[h].pc \in {"look", "clear", "read", "send", "add", "shared", "added"}
  /\ Ends(h)
  /\ UNCHANGED <<stored, pending, chatVars, worldVars>>

\* Somebody deletes a menu in the chat.
Deletes(a, id) ==
  /\ id \in menus[a]
  /\ menus' = [menus EXCEPT ![a] = @ \ {id}]
  /\ due' = due \ {a}
  /\ UNCHANGED <<stored, pending, task, sent, prompts, otherVars, calm, kept>>

DeletesTurned(a, id) ==
  /\ id \in turned[a]
  /\ turned' = [turned EXCEPT ![a] = @ \ {id}]
  /\ UNCHANGED <<stored, pending, task, sent, menus, prompts, others, worldVars>>

\* The process is stopped and started again.
Restart ==
  /\ task' = [h \in Handlers |-> Idle]
  /\ pending' = None
  /\ calm' = calm \ {Mine(h) : h \in {g \in Busy : IsAt(g, "store")}}
  /\ kept' = kept \cup {task[h].id : h \in {g \in Busy : IsAt(g, "wait")}}
  /\ UNCHANGED <<stored, chatVars, due>>

Next == \/ Restart
        \/ \E a \in Anchors : \E id \in menus[a]  : Deletes(a, id)
        \/ \E a \in Anchors : \E id \in turned[a] : DeletesTurned(a, id)
        \/ \E a \in Anchors : \E id \in others[a] : Back(a, id)
        \/ \E c \in Chats : ListAlerts(c)
        \/ \E h \in Handlers :
             \/ \E op \in OnAnchor \cup {"add", "shared"}, c \in Chats : Arrives(h, op, c)
             \/ LookUp(h) \/ Clear(h)    \/ Read(h)       \/ Edit(h)  \/ EditFails(h)
             \/ Send(h)   \/ SendLost(h) \/ Store(h)      \/ StoreFails(h)
             \/ Prompt(h) \/ PromptLost(h) \/ CleanUp(h)   \/ Remember(h)
             \/ Shared(h) \/ Added(h)      \/ AddedLost(h) \/ Pop(h) \/ Fails(h)

Spec == Init /\ [][Next]_vars

-----------------------------------------------------------------------------
Ids   == 0..MaxMessages
Steps == {"look", "clear", "read", "edit", "send", "store", "add", "wait", "remember",
          "shared", "added", "pop"}
Tasks == [pc : Steps, op : OnAnchor \cup {"add", "shared"}, chat : Chats, id : Ids]

TypeOK == /\ stored \in [Anchors -> Ids]
          /\ pending \in Ids
          /\ task \in [Handlers -> Tasks \cup {Idle}]
          /\ sent \in Ids
          /\ menus \in [Anchors -> SUBSET (1..sent)]
          /\ prompts \subseteq 1..sent
          /\ others \in [Anchors -> SUBSET (1..sent)]
          /\ turned \in [Anchors -> SUBSET (1..sent)]
          /\ calm \subseteq Anchors /\ due \subseteq Anchors
          /\ kept \subseteq 1..sent

\* The menus in a chat, those made out of other messages included.
MenusIn(a) == menus[a] \cup turned[a]

\* But for messages that Back has turned into a menu, a chat has at most one menu
\* of each kind, the one whose id is stored, and it has one if a handler has shown
\* it and nobody has deleted it since: whatever is deleted, shared or restarted, as
\* long as handlers of one menu do not overlap, what was sent gets stored, Telegram
\* edits what is there to be edited and /restart is not sent while there is a menu.
OneMenu ==
  \A a \in calm :
    AtWork(a) = {} => MenusIn(a) = turned[a] \cup IF a \in due THEN {stored[a]} ELSE {}

\* A prompt in the chat has a handler waiting to delete it (cleanup_temp_message),
\* unless it could not be deleted, its sending was not confirmed or the process was
\* restarted: a chat that is never shared, or shared twice, leaves no prompt.
PromptsAreTimed ==
  \A p \in prompts \ kept : \E h \in Handlers : IsAt(h, "wait") /\ task[h].id = p

\* What handlers/admin.py says of _pending_chat_prompt ("Track last prompt message
\* sent for chat selection per admin user", line 77) and of its use when a chat is
\* shared ("Delete the selection prompt if we still know it", line 481): the prompt
\* in the chat that a shared chat answers, nothing having been sent since, is the
\* one tracked.  The code tracks it only after the two minutes of its clean-up, and
\* so never while it is in the chat to be deleted.
PromptIsKnown ==
  \A g, h \in Handlers :
    /\ IsAt(g, "shared") /\ IsAt(h, "wait")
    /\ task[h].id = sent /\ task[h].id \in prompts \ kept
    => pending = task[h].id
=============================================================================
