---------------------------- MODULE UserHandlers ----------------------------
(***************************************************************************)
(* The handlers of handlers/user.py behind the maintenance switch, and the *)
(* admin's two that show and turn the switch (handlers/admin.py), over the *)
(* rows of users, favorites and global_settings (db/repository.py).        *)
(*                                                                         *)
(* Updates are handled as concurrent tasks.  A handler of a gated command  *)
(* or screen reads the switch in a session of its own, and so does each    *)
(* further query of it: what it read may be out of date when it goes on.   *)
(* The global settings have no row until somebody looks: each reader that  *)
(* finds none inserts one, so there may be several.  They are read with    *)
(* LIMIT 1 and no order, which in SQLite is the row inserted first.        *)
(*                                                                         *)
(* From a flush to the commit a handler holds SQLite's write lock, so that *)
(* is one step.  sync_user_and_chat is one step, too: it writes the user   *)
(* first, and one that another handler inserted meanwhile is read again.   *)
(* What /start and /restart do to the menu is the subject of MenuAnchors.  *)
(***************************************************************************)
EXTENDS Integers, Sequences

CONSTANTS Handlers,    \* updates that can be at work at once
          People,      \* Telegram users, the admin included
          Admin,       \* settings.admin_id
          Symbols,
          MaxRow       \* bound on the ids of favorites, for TLC

ASSUME UsersAssumption == /\ Admin \in People
                          /\ "power" \notin Symbols
                          /\ MaxRow \in Nat \ {0}

VARIABLES rows,      \* bot_enabled of the global_settings rows, by id
          users,     \* the people with a row in users
          favorite,  \* id of the row of each user and symbol, 0 if there is none
          task,      \* the locals of each handler
          \* what has happened, which the program does not know:
          power,     \* what the last toggle committed
          barred,    \* handlers of others than the admin, begun since then with
                     \* the bot off
          alone,     \* handlers at work on a thing, no other having been since
                     \* they began
          shown      \* the last label or notice about a thing, if the handler was
                     \* alone: the bot's power to the admin, a symbol to a user

dbVars    == <<rows, users, favorite>>
worldVars == <<power, barred, alone, shown>>
vars      == <<dbVars, task, worldVars>>

\* What labels are about.
Pairs  == People \X Symbols
Power  == <<Admin, "power">>
Things == Pairs \cup {Power}

\* The updates, by what their handlers do.  A command is /start, /restart or
\* /ping; a screen the dashboard, its refresh or the way back to the menu; open
\* and refresh are those of the lists of favorites and alerts.
Gated    == {"command", "price", "screen"}
OfAdmin  == {"power", "toggle"}
OnSymbol == {"price", "add", "remove"}
OnLists  == {"open", "refresh", "alerts"}
Updates  == Gated \cup OfAdmin \cup OnSymbol \cup OnLists

\* sync_user_and_chat registers who sent the message: for a press on a button,
\* that is the bot itself and no user.
Registered(t) == {u \in {t.user} : t.op \in {"command", "price", "alerts"}}

Idle       == [pc |-> "idle"]
IsAt(h, p) == task[h].pc = p
Busy       == {h \in Handlers : ~IsAt(h, "idle")}
Shows(op)  == op \in OnSymbol \cup OfAdmin
AtWork(x)  == {h \in Busy : Shows(task[h].op) /\ task[h].thing = x}

Label(b) == IF b THEN "yes" ELSE "no"

Init == /\ rows = <<>>
        /\ users = {}
        /\ favorite = [p \in Pairs |-> 0]
        /\ task = [h \in Handlers |-> Idle]
        /\ power = TRUE
        /\ barred = {} /\ alone = {}
        /\ shown = [x \in Things |-> "nothing"]

-----------------------------------------------------------------------------
\* The first step of each handler, and what follows its look at the switch.
Entry(op) == CASE op \in Gated             -> "gate"
               [] op \in OfAdmin           -> "look"
               [] op \in {"open", "alerts"} -> "sync"
               [] OTHER                    -> "session"

AfterLook(op) == CASE op = "power"  -> "tell"
                   [] op = "toggle" -> "write"
                   [] OTHER         -> "sync"

Arrives(h, op, u, s) ==
  LET x == IF op \in OfAdmin THEN Power ELSE <<u, s>>
  IN /\ IsAt(h, "idle")
     /\ op \in OfAdmin => u = Admin
     /\ task' = [task EXCEPT ![h] = [pc |-> Entry(op), op |-> op, user |-> u,
                                     thing |-> x, seen |-> 0]]
     /\ barred' = IF u # Admin /\ ~power THEN barred \cup {h} ELSE barred
     /\ alone' = IF ~Shows(op) THEN alone
                   ELSE (alone \ AtWork(x)) \cup {g \in {h} : AtWork(x) = {}}
     /\ UNCHANGED <<dbVars, power, shown>>

GoesOn(h, p)       == task' = [task EXCEPT ![h].pc = p]
Reads(h, value, p) == task' = [task EXCEPT ![h].seen = value, ![h].pc = p]
Ends(h) == /\ task' = [task EXCEPT ![h] = Idle]
           /\ barred' = barred \ {h} /\ alone' = alone \ {h}

\* Ways to get it wrong, each put in the place of the definition it is named
\* after: the toggle turns the row that was inserted last; a favorite is added
\* whatever is there; the notice says what was there before.
Turned_Last(table, value) == [table EXCEPT ![Len(table)] = value]

AddFavorite_Again(h) ==
  /\ IsAt(h, "write") /\ task[h].op = "add"
  /\ favorite' = [favorite EXCEPT ![task[h].thing] = @ + MaxRow]
  /\ task' = [task EXCEPT ![h].pc = "tell"]
  /\ UNCHANGED <<rows, users, worldVars>>

Told_AsRead(t) == Label(t.seen # 0)

\* The row everybody reads; none counts as enabled.
Switch == IF rows = <<>> THEN TRUE ELSE Head(rows)

\* _is_bot_enabled_for_user: the value is read, and if there was no row to read,
\* it is looked for again and made.
Admits(h) == Switch \/ task[h].user = Admin

Barred(h) ==
  /\ IsAt(h, "gate")
  /\ ~Admits(h)
  /\ Ends(h)
  /\ UNCHANGED <<dbVars, power, shown>>

Admitted(h) ==
  /\ IsAt(h, "gate")
  /\ Admits(h)
  /\ GoesOn(h, IF rows = <<>> THEN "look" ELSE "sync")
  /\ UNCHANGED <<dbVars, worldVars>>

\* get_or_create_global_settings
Look(h) ==
  /\ IsAt(h, "look")
  /\ IF rows = <<>> THEN GoesOn(h, "insert")
                    ELSE Reads(h, IF Switch THEN 1 ELSE 0, AfterLook(task[h].op))
  /\ UNCHANGED <<dbVars, worldVars>>

InsertSettings(h) ==
  /\ IsAt(h, "insert") /\ task[h].op # "toggle"
  /\ rows' = Append(rows, TRUE)
  /\ Reads(h, 1, AfterLook(task[h].op))
  /\ UNCHANGED <<users, favorite, worldVars>>

-----------------------------------------------------------------------------
\* set_bot_enabled looks for the row once more: it turns the first one, even if
\* another was inserted for the handler.
Turned(table, value) == [table EXCEPT ![1] = value]

Turns(h, table, value) ==
  /\ rows' = Turned(table, value)
  /\ power' = value
  /\ barred' = IF value THEN {} ELSE barred
  /\ Reads(h, IF value THEN 1 ELSE 0, "tell")
  /\ UNCHANGED <<users, favorite, alone, shown>>

Toggle(h) ==
  /\ IsAt(h, "write") /\ task[h].op = "toggle"
  /\ Turns(h, rows, task[h].seen = 0)

InsertAndToggle(h) ==
  /\ IsAt(h, "insert") /\ task[h].op = "toggle"
  /\ Turns(h, Append(rows, TRUE), FALSE)

-----------------------------------------------------------------------------
\* sync_user_and_chat.  Commands and screens end here, the price is fetched and
\* the lists are read.
Sync(h) ==
  /\ IsAt(h, "sync")
  /\ users' = users \cup Registered(task[h])
  /\ GoesOn(h, IF task[h].op \in OnLists THEN "session"
               ELSE IF task[h].op = "price" THEN "fetch" ELSE "answer")
  /\ UNCHANGED <<rows, favorite, worldVars>>

Fetched(h) ==
  /\ IsAt(h, "fetch")
  /\ GoesOn(h, "session")
  /\ UNCHANGED <<dbVars, worldVars>>

\* The user is looked up, then the favorite.
NotFound(h) ==
  /\ IsAt(h, "session") /\ task[h].user \notin users
  /\ Ends(h)
  /\ UNCHANGED <<dbVars, power, shown>>

Found(h) ==
  LET t == task[h]
  IN /\ IsAt(h, "session") /\ t.user \in users
     /\ IF t.op \in OnLists
          THEN GoesOn(h, "answer")
          ELSE Reads(h, favorite[t.thing],
                     IF t.op = (IF favorite[t.thing] = 0 THEN "add" ELSE "remove")
                       THEN "write" ELSE "tell")
     /\ UNCHANGED <<dbVars, worldVars>>

\* The next id is one more than the largest in the table, so that of a row just
\* deleted may come again.
IsNextRow(id) == /\ \A p \in Pairs : favorite[p] < id
                 /\ id = 1 \/ \E p \in Pairs : favorite[p] = id - 1

AddFavorite(h) ==
  LET x == task[h].thing
  IN /\ IsAt(h, "write") /\ task[h].op = "add"
     /\ favorite[x] = 0               \* uq_fav_user_symbol
     /\ \E id \in 1..MaxRow : /\ IsNextRow(id)
                              /\ favorite' = [favorite EXCEPT ![x] = id]
     /\ GoesOn(h, "tell")
     /\ UNCHANGED <<rows, users, worldVars>>

\* The row that was read; that it is gone is no error.
RemoveFavorite(h) ==
  LET x == task[h].thing
  IN /\ IsAt(h, "write") /\ task[h].op = "remove"
     /\ favorite' = [favorite EXCEPT ![x] = IF @ = task[h].seen THEN 0 ELSE @]
     /\ GoesOn(h, "tell")
     /\ UNCHANGED <<rows, users, worldVars>>

-----------------------------------------------------------------------------
\* What the handler ends with: the label of the button and the notice.
Told(t) == CASE t.op = "add"    -> Label(TRUE)
             [] t.op = "remove" -> Label(FALSE)
             [] OTHER           -> Label(t.seen # 0)

Tell(h) ==
  LET x == task[h].thing
  IN /\ IsAt(h, "tell")
     /\ shown' = [shown EXCEPT ![x] = IF h \in alone THEN Told(task[h])
                                                    ELSE "nothing"]
     /\ Ends(h)
     /\ UNCHANGED <<dbVars, power>>

TellFails(h) ==
  /\ IsAt(h, "tell")
  /\ shown' = [shown EXCEPT ![task[h].thing] = "nothing"]
  /\ Ends(h)
  /\ UNCHANGED <<dbVars, power>>

\* A reply that carries no label, sent or not.
Answer(h) ==
  /\ IsAt(h, "answer")
  /\ Ends(h)
  /\ UNCHANGED <<dbVars, power, shown>>

\* The API does not answer, the lock is not to be had, or the favorite was
\* added by another handler meanwhile: nothing is changed.
Fails(h) ==
  /\ task[h].pc \in {"fetch", "sync", "insert", "write"}
  /\ Ends(h)
  /\ UNCHANGED <<dbVars, power, shown>>

Next == \E h \in Handlers :
          \/ \E op \in Updates, u \in People, s \in Symbols : Arrives(h, op, u, s)
          \/ Barred(h)      \/ Admitted(h)       \/ Look(h)   \/ InsertSettings(h)
          \/ Toggle(h)      \/ InsertAndToggle(h)
          \/ Sync(h)        \/ Fetched(h)        \/ NotFound(h) \/ Found(h)
          \/ AddFavorite(h) \/ RemoveFavorite(h)
          \/ Tell(h)        \/ TellFails(h)      \/ Answer(h) \/ Fails(h)

Spec == Init /\ [][Next]_vars

-----------------------------------------------------------------------------
Steps == {"gate", "look", "insert", "sync", "fetch", "session", "write", "tell", "answer"}
Tasks == [pc : Steps, op : Updates, user : People, thing : Things, seen : 0..MaxRow]

TypeOK == /\ rows \in Seq(BOOLEAN)
          /\ users \subseteq People
          /\ favorite \in [Pairs -> 0..MaxRow]
          /\ task \in [Handlers -> Tasks \cup {Idle}]
          /\ power \in BOOLEAN
          /\ barred \subseteq Handlers /\ alone \subseteq Handlers
          /\ shown \in [Things -> {"nothing", "yes", "no"}]

\* After the admin has turned the bot off, /start, /restart, /ping, /price and the
\* dashboard's buttons bring nobody else further than the gate until the bot is
\* turned on again, however many rows the first readers have made of the switch.
GatesHold == \A h \in barred : task[h].op \in Gated => IsAt(h, "gate")

\* What the documents say of all that people can ask of the bot (docs/ADMIN.md:29,
\* docs/OPERATIONS.md:33, docs/ARCHITECTURE.md:81): who is not the admin and comes
\* with the bot off has nothing written for him and gets no answer but the text of
\* the maintenance.  The handlers of favorites and alerts have no gate.
OffMeansOff == \A h \in barred : task[h].pc \notin {"write", "tell", "answer"}

\* What is in the database about a thing.
Actual(x) == Label(IF x = Power THEN Switch ELSE favorite[x] # 0)

\* When no handler is at work on it, the button of a symbol and that of the
\* bot's power say what is in the database, so that pressing them does what they
\* say, if the last handler that showed them was alone from its start.
LabelsTruthful ==
  \A x \in Things :
    shown[x] # "nothing" /\ AtWork(x) = {} => shown[x] = Actual(x)
=============================================================================
