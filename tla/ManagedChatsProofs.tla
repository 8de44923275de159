------------------------- MODULE ManagedChatsProofs -------------------------
(***************************************************************************)
(* Proofs about ManagedChats, for every set of chats, handlers and         *)
(* intervals.                                                              *)
(*                                                                         *)
(* That a removed chat is off and that the admin was told the truth hold   *)
(* of the rows as they are: a handler that decides on rows that changed    *)
(* marks its chat.  For the panel, a handler that is alone must know what  *)
(* the database holds when it writes and when it shows (AloneInv), and     *)
(* what the panel shows may differ only while a handler that has written   *)
(* has still to edit it (PanelInv).                                        *)
(*                                                                         *)
(* The last part puts these handlers and the scheduler of AutoPost on one  *)
(* database: the two together are still an instance of AutoPost, so what   *)
(* is proved of it holds, and what the admin was told binds the pass.      *)
(***************************************************************************)
EXTENDS ManagedChats, TLAPS

\* The locals of a handler, as they grow.
Ops   == OnPanel \cup Creating
Begun == [pc : {"chat", "insert"}, op : Ops, chat : Chats]
Met   == [pc : {"settings", "write"}, op : Ops, chat : Chats, active : BOOLEAN]
Full  == [pc : {"write", "edit"}, op : OnPanel, chat : Chats, active : BOOLEAN, row : Rows]

Shape(t) ==
  /\ t.pc = "insert"   => t.op \in Creating
  /\ t.pc = "settings" => t.op \in OnPanel
  /\ t.pc = "write"    => IF t.op \in Cycling \cup {"yes"}
                            THEN t \in Full
                            ELSE t \in Met /\ t.op \in {"share", "start"}
  /\ t.pc \in {"settings", "write", "edit"} => Known(t.chat)

TaskInv == /\ task \in [Handlers -> {Idle} \cup Begun \cup Met \cup Full]
           /\ \A h \in Handlers : Shape(task[h])

RowsInv == /\ settings \in [Chats -> Rows \cup {NoRow}]
           /\ active \subseteq {c \in Chats : Known(c)}
           /\ panel.view = "detail" => panel.chat \in Chats /\ Known(panel.chat)
                                       /\ panel.row \in Rows
           /\ acked \in [Chats -> {"nothing", "added", "removed"}]
           /\ stale \subseteq Chats
           /\ alone \subseteq Handlers /\ doubtful \in BOOLEAN

\* A chat that is not known is one the admin was told nothing of.
ToldInv == \A c \in Chats : ~Known(c) => acked[c] = "nothing"

\* One that is alone has read what is there, and shows it.
AloneInv == \A h \in alone :
  /\ AtPanel \subseteq {h}
  /\ IsAt(h, "write") /\ task[h].op \in OnPanel => task[h].row = settings[task[h].chat]
  /\ IsAt(h, "edit") /\ task[h].op \notin {"yes", "confirm"}
       => Shown(task[h]).row = settings[task[h].chat]

\* A handler that has written and has still to show it.
ToShow(h) == IsAt(h, "edit") /\ task[h].op \in Cycling \cup {"yes"}

PanelInv ==
  ~doubtful /\ panel.view = "detail" /\ (\A h \in Handlers : ~ToShow(h))
    => panel.row = settings[panel.chat]

IInv == TaskInv /\ RowsInv /\ ToldInv /\ RemovedIsOff /\ AcksHold /\ AloneInv /\ PanelInv

-----------------------------------------------------------------------------
\* The bot starts with every invariant true.
LEMMA InitIInv == Init => IInv
<1> SUFFICES ASSUME Init
             PROVE  IInv
  OBVIOUS
<1>1. TaskInv
  BY DEF Init, TaskInv, Shape, Idle
<1>2. \A c \in Chats : ~Known(c)
  BY DEF Init, Known
<1>3. RowsInv
  BY DEF Init, RowsInv, Menu
<1>4. ToldInv /\ RemovedIsOff /\ AcksHold
  BY <1>2 DEF Init, ToldInv, RemovedIsOff, AcksHold
<1>5. AloneInv /\ PanelInv
  BY DEF Init, AloneInv, PanelInv, Menu
<1> QED
  BY <1>1, <1>3, <1>4, <1>5 DEF IInv

\* The sets of updates, spelt out, and the rows.
LEMMA OpsOf == /\ Cycling \subseteq Checking /\ Checking \subseteq OnPanel
               /\ "yes" \in OnPanel /\ "yes" \notin Cycling /\ "confirm" \notin Cycling
               /\ \A op \in OnPanel : op \notin Creating
               /\ \A op \in Creating : op \in {"share", "start", "ping"}
               /\ \A op \in {"share", "start", "ping"} : op \in Creating
               /\ \A op \in Cycling : op \in {"auto", "interval", "mode"}
BY DEF Cycling, Checking, OnPanel, Creating

LEMMA NoRowIsNoRow == /\ NoRow \notin Rows /\ NewRow \in Rows /\ ~NoRow.auto
                      /\ ~NewRow.auto
BY ChatsAssumption DEF NoRow, NewRow, Rows

LEMMA KnownRows ==
  ASSUME RowsInv, NEW c \in Chats
  PROVE  Known(c) <=> settings[c] \in Rows
BY NoRowIsNoRow DEF RowsInv, Known

\* A handler at a step, by its locals.
LEMMA AtAStep ==
  ASSUME TaskInv, NEW h \in Handlers
  PROVE  /\ task[h].pc = "chat"     => task[h] \in Begun
         /\ task[h].pc = "insert"   => task[h] \in Begun /\ task[h].op \in Creating
         /\ task[h].pc = "settings" => task[h] \in Met /\ task[h].op \in OnPanel
         /\ task[h].pc = "edit"     => task[h] \in Full
         /\ task[h].pc \in {"settings", "write", "edit"} => Known(task[h].chat)
         /\ task[h].pc # "idle" => task[h].chat \in Chats /\ task[h] # Idle
         /\ Shape(task[h])
BY DEF TaskInv, Shape, Begun, Met, Full, Idle

\* The shape of all locals follows from that of the handler at work, as no chat
\* is forgotten.
LEMMA KeepsShape ==
  ASSUME TaskInv, NEW h \in Handlers,
         task' \in [Handlers -> {Idle} \cup Begun \cup Met \cup Full],
         \A g \in Handlers \ {h} : task'[g] = task[g],
         \A c \in Chats : Known(c) => Known(c)',
         Shape(task[h])'
  PROVE  TaskInv'
<1> SUFFICES ASSUME NEW g \in Handlers
             PROVE  Shape(task[g])'
  BY DEF TaskInv
<1>1. CASE g = h
  BY <1>1
<1>2. CASE g # h
  <2>1. task'[g] = task[g] /\ Shape(task[g])
    BY <1>2 DEF TaskInv
  <2>2. task[g].pc \in {"settings", "write", "edit"} => task[g].chat \in Chats
    BY AtAStep
  <2> QED
    BY <2>1, <2>2 DEF Shape
<1> QED
  BY <1>1, <1>2

\* What a step of one handler must do for what others know of the panel: change
\* rows that are known only as a handler of the panel, and know what is there.
Leaves(h) ==
  /\ \A g \in Handlers \ {h} : task'[g] = task[g]
  /\ task[h] # Idle
  /\ task'[h] # Idle => task'[h].op = task[h].op
  /\ alone' = alone
  /\ \/ \A c \in Chats : Known(c) => settings'[c] = settings[c]
     \/ task[h].op \in OnPanel
  /\ h \in alone =>
       /\ task'[h].pc = "write" /\ task'[h].op \in OnPanel
            => task'[h].row = settings'[task'[h].chat]
       /\ task'[h].pc = "edit" /\ task'[h].op \notin {"yes", "confirm"}
            => Shown(task'[h]).row = settings'[task'[h].chat]

LEMMA LeavesAlone ==
  ASSUME IInv, NEW h \in Handlers, Leaves(h), task[h].pc # "idle"
  PROVE  AloneInv'
<1>1. \A g \in AtPanel' : g \in AtPanel
  BY DEF AtPanel, Busy, IsAt, Leaves, Idle
<1> SUFFICES ASSUME NEW g \in alone
             PROVE  /\ AtPanel' \subseteq {g}
                    /\ task'[g].pc = "write" /\ task'[g].op \in OnPanel
                         => task'[g].row = settings'[task'[g].chat]
                    /\ task'[g].pc = "edit" /\ task'[g].op \notin {"yes", "confirm"}
                         => Shown(task'[g]).row = settings'[task'[g].chat]
  BY DEF AloneInv, IsAt, Leaves, Shown, Detail
<1>2. AtPanel \subseteq {g} /\ g \in Handlers
  BY DEF IInv, AloneInv, RowsInv
<1>3. AtPanel' \subseteq {g}
  BY <1>1, <1>2
<1>4. CASE g = h
  BY <1>3, <1>4 DEF Leaves
<1>5. CASE g # h
  <2>1. task'[g] = task[g]
    BY <1>2, <1>5 DEF Leaves
  <2>2. (\/ task[g].pc \in {"write", "edit"} /\ task[g].op \in OnPanel
         \/ task[g].pc = "edit")
          => settings'[task[g].chat] = settings[task[g].chat]
    <3>1. task[h].op \notin OnPanel
      BY <1>2, <1>5 DEF AtPanel, Busy, IsAt
    <3>2. task[g].pc \in {"write", "edit"} => task[g].chat \in Chats /\ Known(task[g].chat)
      BY <1>2, AtAStep DEF IInv
    <3> QED
      BY <3>1, <3>2 DEF Leaves
  <2> QED
    BY <1>3, <2>1, <2>2 DEF IInv, AloneInv, IsAt
<1> QED
  BY <1>4, <1>5

\* A step that only moves a handler which has shown nothing yet.
LEMMA QuietPreserves ==
  ASSUME IInv, NEW h \in Handlers, TaskInv', AloneInv', alone' \subseteq Handlers,
         UNCHANGED <<active, settings, panel, acked, stale, doubtful>>,
         \A g \in Handlers \ {h} : task'[g] = task[g],
         task[h].pc # "edit"
  PROVE  IInv'
<1>1. RowsInv'
  BY DEF IInv, RowsInv, Known
<1>2. ToldInv' /\ RemovedIsOff' /\ AcksHold'
  BY DEF IInv, ToldInv, RemovedIsOff, AcksHold, Known
<1>3. PanelInv'
  <2>1. \A g \in Handlers : ToShow(g) => ToShow(g)'
    BY DEF ToShow, IsAt
  <2> QED
    BY <2>1 DEF IInv, PanelInv
<1> QED
  BY <1>1, <1>2, <1>3 DEF IInv

-----------------------------------------------------------------------------
LEMMA ArrivesPreserves ==
  ASSUME IInv, NEW h \in Handlers, NEW c \in Chats, NEW op \in OnPanel \cup Creating,
         Arrives(h, op, c)
  PROVE  IInv'
<1> DEFINE t == [pc |-> "chat", op |-> op, chat |-> c]
<1>1. /\ task[h].pc = "idle" /\ task' = [task EXCEPT ![h] = t]
      /\ alone' = (IF op \notin OnPanel THEN alone ELSE IF AtPanel = {} THEN {h} ELSE {})
      /\ UNCHANGED <<active, settings, panel, acked, stale, doubtful>>
  BY DEF Arrives, IsAt, dbVars
<1>2. t \in Begun
  BY DEF Begun, Ops
<1>3. /\ task' \in [Handlers -> {Idle} \cup Begun \cup Met \cup Full]
      /\ task'[h] = t /\ \A g \in Handlers \ {h} : task'[g] = task[g]
  BY <1>1, <1>2 DEF IInv, TaskInv
<1>4. Shape(task[h])'
  BY <1>3 DEF Shape
<1>5. TaskInv'
  BY <1>1, <1>3, <1>4, KeepsShape DEF IInv, Known
<1>6. alone' \subseteq Handlers
  BY <1>1 DEF IInv, RowsInv
<1>7. AtPanel' \subseteq AtPanel \cup (IF op \in OnPanel THEN {h} ELSE {})
  BY <1>3 DEF AtPanel, Busy, IsAt
<1>8. AloneInv'
  <2> SUFFICES ASSUME NEW g \in alone'
               PROVE  /\ AtPanel' \subseteq {g}
                      /\ task'[g].pc = "write" /\ task'[g].op \in OnPanel
                           => task'[g].row = settings'[task'[g].chat]
                      /\ task'[g].pc = "edit" /\ task'[g].op \notin {"yes", "confirm"}
                           => Shown(task'[g]).row = settings'[task'[g].chat]
    BY DEF AloneInv, IsAt, Shown, Detail
  <2>1. CASE op \in OnPanel
    <3>1. g = h /\ AtPanel = {}
      BY <2>1, <1>1
    <3> QED
      BY <3>1, <1>3, <1>7
  <2>2. CASE op \notin OnPanel
    <3>1. g \in alone /\ g \in Handlers /\ AtPanel' \subseteq AtPanel
      BY <2>2, <1>1, <1>7 DEF IInv, RowsInv
    <3>2. CASE g = h
      BY <3>1, <3>2, <1>3 DEF IInv, AloneInv
    <3>3. CASE g # h
      BY <3>1, <3>3, <1>1, <1>3 DEF IInv, AloneInv, IsAt
    <3> QED
      BY <3>2, <3>3
  <2> QED
    BY <2>1, <2>2
<1> QED
  BY <1>1, <1>3, <1>5, <1>6, <1>8, QuietPreserves

\* The handlers that end without having written.
LEMMA EndsPreserve ==
  ASSUME IInv, NEW h \in Handlers, Refused(h) \/ Fails(h)
  PROVE  IInv'
<1>1. /\ task[h].pc \in {"chat", "insert", "write"} /\ Ends(h)
      /\ UNCHANGED <<active, settings, panel, acked, stale, alone, doubtful>>
  BY DEF Refused, Fails, IsAt, dbVars, worldVars
<1>2. /\ task' \in [Handlers -> {Idle} \cup Begun \cup Met \cup Full]
      /\ task'[h] = Idle /\ \A g \in Handlers \ {h} : task'[g] = task[g]
  BY <1>1 DEF IInv, TaskInv, Ends
<1>3. Shape(task[h])'
  BY <1>2 DEF Shape, Idle
<1>4. TaskInv'
  BY <1>1, <1>2, <1>3, KeepsShape DEF IInv, Known
<1>5. Leaves(h) /\ task[h].pc # "idle"
  BY <1>1, <1>2, AtAStep DEF Leaves, Idle, IInv
<1>6. AloneInv' /\ alone' \subseteq Handlers
  BY <1>1, <1>5, LeavesAlone DEF IInv, RowsInv
<1> QED
  BY <1>1, <1>2, <1>4, <1>6, QuietPreserves

LEMMA ToCreatePreserves == ASSUME IInv, NEW h \in Handlers, ToCreate(h) PROVE IInv'
<1>1. /\ task[h].pc = "chat" /\ task[h].op \in Creating
      /\ task' = [task EXCEPT ![h] = [@ EXCEPT !.pc = "insert"]]
      /\ UNCHANGED <<active, settings, panel, acked, stale, alone, doubtful>>
  BY DEF ToCreate, GoesOn, IsAt, dbVars, worldVars
<1>2. task[h] \in Begun
  BY <1>1, AtAStep DEF IInv
<1>3. /\ task'[h] \in Begun /\ task'[h].pc = "insert" /\ task'[h].op = task[h].op
      /\ task' \in [Handlers -> {Idle} \cup Begun \cup Met \cup Full]
      /\ \A g \in Handlers \ {h} : task'[g] = task[g]
  <2>1. task'[h] = [task[h] EXCEPT !.pc = "insert"]
    BY <1>1 DEF IInv, TaskInv
  <2>2. task'[h] \in Begun /\ task'[h].pc = "insert" /\ task'[h].op = task[h].op
    BY <1>2, <2>1 DEF Begun
  <2> QED
    BY <1>1, <2>2 DEF IInv, TaskInv
<1>4. Shape(task[h])'
  BY <1>1, <1>3 DEF Shape
<1>5. TaskInv'
  BY <1>1, <1>3, <1>4, KeepsShape DEF IInv, Known
<1>6. Leaves(h) /\ task[h].pc # "idle"
  BY <1>1, <1>3, AtAStep DEF Leaves, IInv
<1>7. AloneInv' /\ alone' \subseteq Handlers
  BY <1>1, <1>6, LeavesAlone DEF IInv, RowsInv
<1> QED
  BY <1>1, <1>3, <1>5, <1>7, QuietPreserves

LEMMA ReadChatPreserves == ASSUME IInv, NEW h \in Handlers, ReadChat(h) PROVE IInv'
<1>1. /\ task[h].pc = "chat" /\ Known(task[h].chat) /\ task[h].op # "ping"
      /\ UNCHANGED <<active, settings, panel, acked, stale, alone, doubtful>>
  BY DEF ReadChat, IsAt, dbVars, worldVars
<1>2. task[h] \in Begun
  BY <1>1, AtAStep DEF IInv
<1>3. PICK p \in {"write", "settings"} :
        /\ p = IF task[h].op \in Creating THEN "write" ELSE "settings"
        /\ task' = [task EXCEPT ![h] = [op |-> task[h].op, chat |-> task[h].chat,
                                        active |-> task[h].chat \in active, pc |-> p]]
  BY DEF ReadChat
<1>4. /\ task'[h] \in Met /\ task'[h].pc = p /\ task'[h].op = task[h].op
      /\ task'[h].chat = task[h].chat
      /\ task' \in [Handlers -> {Idle} \cup Begun \cup Met \cup Full]
      /\ \A g \in Handlers \ {h} : task'[g] = task[g]
  <2>1. [op |-> task[h].op, chat |-> task[h].chat, active |-> task[h].chat \in active,
         pc |-> p] \in Met
    BY <1>2 DEF Begun, Met
  <2> QED
    BY <1>3, <2>1 DEF IInv, TaskInv
<1>5. /\ p = "settings" => task[h].op \in OnPanel
      /\ p = "write" => task[h].op \in {"share", "start"} /\ task[h].op \notin OnPanel
      /\ task[h].op \in {"share", "start"} => task[h].op \notin Cycling \cup {"yes"}
  BY <1>1, <1>2, <1>3, OpsOf DEF Begun, Ops
<1>6. Shape(task[h])'
  BY <1>1, <1>3, <1>4, <1>5 DEF Shape, Known
<1>7. TaskInv'
  BY <1>1, <1>4, <1>6, KeepsShape DEF IInv, Known
<1>8. Leaves(h) /\ task[h].pc # "idle"
  BY <1>1, <1>3, <1>4, <1>5, AtAStep DEF Leaves, IInv
<1>9. AloneInv' /\ alone' \subseteq Handlers
  BY <1>1, <1>8, LeavesAlone DEF IInv, RowsInv
<1> QED
  BY <1>1, <1>4, <1>7, <1>9, QuietPreserves

LEMMA ReadSettingsPreserves == ASSUME IInv, NEW h \in Handlers, ReadSettings(h) PROVE IInv'
<1>1. /\ task[h].pc = "settings"
      /\ UNCHANGED <<active, settings, panel, acked, stale, alone, doubtful>>
  BY DEF ReadSettings, IsAt, dbVars, worldVars
<1>2. /\ task[h] \in Met /\ task[h].op \in OnPanel /\ Known(task[h].chat)
      /\ task[h].chat \in Chats
  BY <1>1, AtAStep DEF IInv
<1>3. settings[task[h].chat] \in Rows
  BY <1>2, KnownRows DEF IInv
<1>4. PICK p \in {"write", "edit"} :
        /\ p = IF task[h].op \in Cycling \cup {"yes"} THEN "write" ELSE "edit"
        /\ task' = [task EXCEPT ![h] = [pc |-> p, op |-> task[h].op,
                                        chat |-> task[h].chat, active |-> task[h].active,
                                        row |-> settings[task[h].chat]]]
  BY DEF ReadSettings
<1>5. /\ task'[h] \in Full /\ task'[h].pc = p /\ task'[h].op = task[h].op
      /\ task'[h].chat = task[h].chat /\ task'[h].row = settings[task[h].chat]
      /\ task' \in [Handlers -> {Idle} \cup Begun \cup Met \cup Full]
      /\ \A g \in Handlers \ {h} : task'[g] = task[g]
  <2>1. [pc |-> p, op |-> task[h].op, chat |-> task[h].chat, active |-> task[h].active,
         row |-> settings[task[h].chat]] \in Full
    BY <1>2, <1>3 DEF Met, Full
  <2> QED
    BY <1>4, <2>1 DEF IInv, TaskInv
<1>6. Shape(task[h])'
  BY <1>1, <1>2, <1>4, <1>5 DEF Shape, Known
<1>7. TaskInv'
  BY <1>1, <1>5, <1>6, KeepsShape DEF IInv, Known
<1>8. Leaves(h) /\ task[h].pc # "idle"
  <2>1. p = "edit" => Shown(task'[h]).row = settings[task[h].chat]
    BY <1>4, <1>5 DEF Shown, Detail
  <2> QED
    BY <1>1, <1>4, <1>5, <2>1, AtAStep DEF Leaves, IInv
<1>9. AloneInv' /\ alone' \subseteq Handlers
  BY <1>1, <1>8, LeavesAlone DEF IInv, RowsInv
<1> QED
  BY <1>1, <1>5, <1>7, <1>9, QuietPreserves

-----------------------------------------------------------------------------
\* A row's columns.
LEMMA CycledRow ==
  ASSUME NEW op \in Cycling, NEW r \in Rows, NEW s \in Rows
  PROVE  /\ [r EXCEPT ![op] = Cycled(op, s[op])] \in Rows
         /\ op # "auto" => [r EXCEPT ![op] = Cycled(op, s[op])].auto = r.auto
<1>1. op = "auto" \/ op = "interval" \/ op = "mode"
  BY OpsOf
<1>2. CASE op = "auto"
  <2>1. s["auto"] \in BOOLEAN
    BY DEF Rows
  <2>2. Cycled(op, s[op]) \in BOOLEAN
    BY <1>2, <2>1 DEF Cycled
  <2> QED
    BY <1>2, <2>2 DEF Rows
<1>3. CASE op = "interval"
  <2>1. Cycled(op, s[op]) \in Intervals
    BY <1>3, ChatsAssumption DEF Cycled, Rows
  <2> QED
    BY <1>3, <2>1 DEF Rows
<1>4. CASE op = "mode"
  <2>1. Cycled(op, s[op]) \in {"edit", "new"}
    BY <1>4 DEF Cycled
  <2> QED
    BY <1>4, <2>1 DEF Rows
<1> QED
  BY <1>1, <1>2, <1>3, <1>4

\* A handler that writes stays in shape and goes on to the panel.
LEMMA WriterGoesOn ==
  ASSUME IInv, NEW h \in Handlers, task[h].pc = "write",
         task[h].op \in Cycling \cup {"yes"}, GoesOn(h, "edit")
  PROVE  /\ task[h] \in Full /\ task'[h] \in Full /\ task'[h].pc = "edit"
         /\ task'[h].op = task[h].op /\ task'[h].chat = task[h].chat
         /\ task'[h].row = task[h].row
         /\ task' \in [Handlers -> {Idle} \cup Begun \cup Met \cup Full]
         /\ \A g \in Handlers \ {h} : task'[g] = task[g]
         /\ task[h].chat \in Chats /\ Known(task[h].chat)
         /\ settings[task[h].chat] \in Rows
<1>1. task[h] \in Full /\ task[h].chat \in Chats /\ Known(task[h].chat)
  BY AtAStep DEF IInv, Shape
<1>2. task'[h] = [task[h] EXCEPT !.pc = "edit"]
  BY DEF GoesOn, IInv, TaskInv
<1>3. /\ task'[h] \in Full /\ task'[h].pc = "edit" /\ task'[h].op = task[h].op
      /\ task'[h].chat = task[h].chat /\ task'[h].row = task[h].row
  BY <1>1, <1>2 DEF Full
<1>4. settings[task[h].chat] \in Rows
  BY <1>1, KnownRows DEF IInv
<1> QED
  BY <1>1, <1>3, <1>4 DEF GoesOn, IInv, TaskInv

\* The column of a removed chat may be switched on: that chat is marked.
LEMMA SetColumnPreserves == ASSUME IInv, NEW h \in Handlers, SetColumn(h) PROVE IInv'
<1>0. PICK c, op, v : /\ c = task[h].chat /\ op = task[h].op
                      /\ v = Cycled(op, task[h].row[op])
  OBVIOUS
<1>1. /\ task[h].pc = "write" /\ op \in Cycling /\ GoesOn(h, "edit")
      /\ settings' = [settings EXCEPT ![c][op] = v]
      /\ stale' = (IF op = "auto" /\ c \notin active THEN stale \cup {c} ELSE stale)
      /\ UNCHANGED <<active, panel, acked, alone, doubtful>>
  BY <1>0 DEF SetColumn, IsAt
<1>2. /\ task[h] \in Full /\ task'[h] \in Full /\ task'[h].pc = "edit"
      /\ task'[h].op = op /\ task'[h].chat = c /\ task'[h].row = task[h].row
      /\ task' \in [Handlers -> {Idle} \cup Begun \cup Met \cup Full]
      /\ \A g \in Handlers \ {h} : task'[g] = task[g]
      /\ c \in Chats /\ Known(c) /\ settings[c] \in Rows
  BY <1>0, <1>1, WriterGoesOn
<1>3. /\ settings' \in [Chats -> Rows \cup {NoRow}]
      /\ settings'[c] = [settings[c] EXCEPT ![op] = v] /\ settings'[c] \in Rows
      /\ op # "auto" => settings'[c].auto = settings[c].auto
      /\ \A d \in Chats : d # c => settings'[d] = settings[d]
  <2>1. task[h].row \in Rows
    BY <1>2 DEF Full
  <2>2. /\ [settings[c] EXCEPT ![op] = v] \in Rows
        /\ op # "auto" => [settings[c] EXCEPT ![op] = v].auto = settings[c].auto
    BY <1>0, <1>1, <1>2, <2>1, CycledRow
  <2>3. settings' = [settings EXCEPT ![c] = [settings[c] EXCEPT ![op] = v]]
    BY <1>1, <1>2 DEF IInv, RowsInv
  <2> QED
    BY <2>2, <2>3, <1>2 DEF IInv, RowsInv
<1>4. \A d \in Chats : Known(d) <=> Known(d)'
  BY <1>2, <1>3, NoRowIsNoRow DEF Known
<1>5. TaskInv'
  <2>1. Shape(task[h])'
    BY <1>2, <1>4 DEF Shape
  <2> QED
    BY <1>2, <1>4, <2>1, KeepsShape DEF IInv
<1>6. RowsInv'
  BY <1>1, <1>2, <1>3, <1>4 DEF IInv, RowsInv
<1>7. ToldInv' /\ AcksHold'
  BY <1>1, <1>4 DEF IInv, ToldInv, AcksHold
<1>8. RemovedIsOff'
  BY <1>1, <1>3, <1>4 DEF IInv, RemovedIsOff
<1>9. AloneInv'
  <2>1. h \in alone => Shown(task'[h]).row = settings'[c]
    <3>1. h \in alone => task[h].row = settings[c]
      BY <1>0, <1>1, OpsOf DEF IInv, AloneInv, IsAt
    <3>2. Shown(task'[h]).row = [task[h].row EXCEPT ![op] = v]
      BY <1>0, <1>1, <1>2 DEF Shown, Detail
    <3> QED
      BY <3>1, <3>2, <1>3
  <2>2. task[h].op \in OnPanel /\ task[h] # Idle
    BY <1>0, <1>1, OpsOf, AtAStep DEF IInv
  <2>3. Leaves(h)
    BY <1>0, <1>1, <1>2, <2>1, <2>2 DEF Leaves
  <2> QED
    BY <1>1, <2>3, LeavesAlone
<1>10. PanelInv'
  <2>1. ToShow(h)'
    BY <1>1, <1>2 DEF ToShow, IsAt
  <2> QED
    BY <2>1 DEF PanelInv
<1> QED
  BY <1>5, <1>6, <1>7, <1>8, <1>9, <1>10 DEF IInv

\* What a removal leaves on was switched on since it was read: that chat is
\* marked, and the others are off.
LEMMA DeactivatePreserves == ASSUME IInv, NEW h \in Handlers, Deactivate(h) PROVE IInv'
<1>0. PICK c, t : c = task[h].chat /\ t = task[h]
  OBVIOUS
<1>1. /\ t.pc = "write" /\ t.op = "yes" /\ GoesOn(h, "edit")
      /\ active' = (IF t.active THEN active \ {c} ELSE active)
      /\ settings' = [settings EXCEPT ![c] = Deactivated(settings[c], t.row)]
      /\ stale' = (IF t.active = (c \in active) /\ t.row.auto = settings[c].auto
                     THEN stale \ {c} ELSE stale \cup {c})
      /\ acked' = [acked EXCEPT ![c] = "removed"]
      /\ UNCHANGED <<panel, alone, doubtful>>
  BY <1>0 DEF Deactivate, Decided, IsAt, IInv, RowsInv
<1>2. /\ t \in Full /\ task'[h] \in Full /\ task'[h].pc = "edit"
      /\ task'[h].op = "yes" /\ task'[h].chat = c
      /\ task' \in [Handlers -> {Idle} \cup Begun \cup Met \cup Full]
      /\ \A g \in Handlers \ {h} : task'[g] = task[g]
      /\ c \in Chats /\ Known(c) /\ settings[c] \in Rows
  BY <1>0, <1>1, WriterGoesOn
<1>3. /\ settings' \in [Chats -> Rows \cup {NoRow}] /\ settings'[c] \in Rows
      /\ settings'[c].auto = (IF t.row.auto THEN FALSE ELSE settings[c].auto)
      /\ \A d \in Chats : d # c => settings'[d] = settings[d]
  <2>1. /\ Deactivated(settings[c], t.row) \in Rows
        /\ Deactivated(settings[c], t.row).auto = (IF t.row.auto THEN FALSE ELSE settings[c].auto)
    BY <1>2 DEF Deactivated, Rows
  <2> QED
    BY <1>1, <1>2, <2>1 DEF IInv, RowsInv
<1>4. \A d \in Chats : Known(d) <=> Known(d)'
  BY <1>2, <1>3, NoRowIsNoRow DEF Known
<1>5. TaskInv'
  <2>1. Shape(task[h])'
    BY <1>2, <1>4 DEF Shape
  <2> QED
    BY <1>2, <1>4, <2>1, KeepsShape DEF IInv
<1>6. RowsInv'
  BY <1>1, <1>2, <1>3, <1>4 DEF IInv, RowsInv
<1>7. ToldInv'
  BY <1>1, <1>2, <1>4 DEF IInv, ToldInv, RowsInv
<1>8. AcksHold'
  BY <1>1, <1>2 DEF IInv, AcksHold, RowsInv, Full
<1>9. RemovedIsOff'
  <2> SUFFICES ASSUME NEW d \in Chats, d \notin active', Known(d)', settings'[d].auto
               PROVE  d \in stale'
    BY DEF RemovedIsOff
  <2>1. CASE d = c
    BY <2>1, <1>1, <1>2, <1>3 DEF Full, Rows
  <2>2. CASE d # c
    BY <2>2, <1>1, <1>3, <1>4 DEF IInv, RemovedIsOff
  <2> QED
    BY <2>1, <2>2
<1>10. AloneInv'
  <2>1. Leaves(h) /\ task[h].pc # "idle"
    BY <1>0, <1>1, <1>2, OpsOf, AtAStep DEF Leaves, IInv
  <2> QED
    BY <2>1, LeavesAlone
<1>11. PanelInv'
  <2>1. ToShow(h)'
    BY <1>1, <1>2 DEF ToShow, IsAt
  <2> QED
    BY <2>1 DEF PanelInv
<1> QED
  BY <1>5, <1>6, <1>7, <1>8, <1>9, <1>10, <1>11 DEF IInv

\* A chat that is not known appears with its two rows.
LEMMA InsertPreserves == ASSUME IInv, NEW h \in Handlers, Insert(h) PROVE IInv'
<1>0. PICK c : c = task[h].chat
  OBVIOUS
<1>1. /\ task[h].pc = "insert" /\ ~Known(c) /\ Ends(h)
      /\ active' = active \cup {c} /\ settings' = [settings EXCEPT ![c] = NewRow]
      /\ acked' = (IF task[h].op = "share" THEN [acked EXCEPT ![c] = "added"] ELSE acked)
      /\ UNCHANGED <<panel, stale, alone, doubtful>>
  BY <1>0 DEF Insert, IsAt
<1>2. c \in Chats /\ task[h] # Idle
  BY <1>0, <1>1, AtAStep DEF IInv
<1>3. /\ settings' \in [Chats -> Rows \cup {NoRow}] /\ settings'[c] = NewRow
      /\ \A d \in Chats : d # c => settings'[d] = settings[d]
  BY <1>1, <1>2, NoRowIsNoRow DEF IInv, RowsInv
<1>4. \A d \in Chats : Known(d)' <=> Known(d) \/ d = c
  BY <1>2, <1>3, NoRowIsNoRow DEF Known
<1>5. /\ task' \in [Handlers -> {Idle} \cup Begun \cup Met \cup Full]
      /\ task'[h] = Idle /\ \A g \in Handlers \ {h} : task'[g] = task[g]
  BY <1>1 DEF IInv, TaskInv, Ends
<1>6. TaskInv'
  <2>1. Shape(task[h])'
    BY <1>5 DEF Shape, Idle
  <2> QED
    BY <1>4, <1>5, <2>1, KeepsShape DEF IInv
<1>7. RowsInv'
  BY <1>1, <1>2, <1>3, <1>4 DEF IInv, RowsInv
<1>8. ToldInv'
  BY <1>1, <1>2, <1>4 DEF IInv, ToldInv, RowsInv
<1>9. AcksHold'
  BY <1>1, <1>2 DEF IInv, AcksHold, ToldInv, RowsInv
<1>10. RemovedIsOff'
  BY <1>1, <1>3, <1>4 DEF IInv, RemovedIsOff
<1>11. AloneInv'
  <2>1. \A d \in Chats : Known(d) => settings'[d] = settings[d]
    BY <1>1, <1>3
  <2>2. Leaves(h) /\ task[h].pc # "idle"
    BY <1>1, <1>2, <1>5, <2>1 DEF Leaves, Idle
  <2> QED
    BY <2>2, LeavesAlone
<1>12. PanelInv'
  <2>1. \A g \in Handlers : ToShow(g) => ToShow(g)'
    BY <1>1, <1>5 DEF ToShow, IsAt
  <2>2. panel.view = "detail" => settings'[panel.chat] = settings[panel.chat]
    BY <1>1, <1>3 DEF IInv, RowsInv
  <2> QED
    BY <2>1, <2>2, <1>1 DEF IInv, PanelInv
<1> QED
  BY <1>6, <1>7, <1>8, <1>9, <1>10, <1>11, <1>12 DEF IInv

\* Whoever adds a chat again does so unless he read that it was there.
LEMMA ReactivatePreserves == ASSUME IInv, NEW h \in Handlers, Reactivate(h) PROVE IInv'
<1>0. PICK c, t : c = task[h].chat /\ t = task[h]
  OBVIOUS
<1>1. /\ t.pc = "write" /\ t.op \in {"share", "start"} /\ Ends(h)
      /\ active' = (IF t.active THEN active ELSE active \cup {c})
      /\ stale' = (IF t.op = "start" /\ t.active = (c \in active) THEN stale
                   ELSE IF t.active = (c \in active) THEN stale \ {c} ELSE stale \cup {c})
      /\ acked' = [acked EXCEPT ![c] = IF t.op = "share" THEN "added"
                                       ELSE IF t.active THEN acked[c] ELSE "nothing"]
      /\ UNCHANGED <<settings, panel, alone, doubtful>>
  BY <1>0 DEF Reactivate, Reactivated, Decided, IsAt, IInv, RowsInv
<1>2. t \in Met /\ c \in Chats /\ Known(c) /\ t # Idle
  <2>1. t.op \notin Cycling \cup {"yes"}
    BY <1>1, OpsOf
  <2> QED
    BY <1>0, <1>1, <2>1, AtAStep DEF IInv, Shape
<1>3. /\ task' \in [Handlers -> {Idle} \cup Begun \cup Met \cup Full]
      /\ task'[h] = Idle /\ \A g \in Handlers \ {h} : task'[g] = task[g]
  BY <1>1 DEF IInv, TaskInv, Ends
<1>4. TaskInv'
  <2>1. Shape(task[h])'
    BY <1>3 DEF Shape, Idle
  <2> QED
    BY <1>1, <1>3, <2>1, KeepsShape DEF IInv, Known
<1>5. \A d \in Chats : Known(d)' <=> Known(d)
  BY <1>1 DEF Known
<1>6. RowsInv'
  BY <1>1, <1>2, <1>5 DEF IInv, RowsInv
<1>7. ToldInv'
  BY <1>1, <1>2, <1>5 DEF IInv, ToldInv, RowsInv
<1>8. AcksHold'
  <2> SUFFICES ASSUME NEW d \in Chats, d \notin stale'
               PROVE  /\ acked'[d] = "added"   => d \in active'
                      /\ acked'[d] = "removed" => d \notin active'
    BY DEF AcksHold
  <2>1. CASE d = c
    <3>1. t.active = (c \in active)
      BY <2>1, <1>1
    <3>2. CASE t.op = "share"
      BY <3>1, <3>2, <2>1, <1>1, <1>2 DEF IInv, RowsInv, Met
    <3>3. CASE t.op = "start"
      BY <3>1, <3>3, <2>1, <1>1, <1>2 DEF IInv, RowsInv, AcksHold, Met
    <3> QED
      BY <3>2, <3>3, <1>1
  <2>2. CASE d # c
    BY <2>2, <1>1 DEF IInv, RowsInv, AcksHold
  <2> QED
    BY <2>1, <2>2
<1>9. RemovedIsOff'
  BY <1>1, <1>2, <1>5 DEF IInv, RemovedIsOff, Met
<1>10. AloneInv'
  <2>1. Leaves(h) /\ task[h].pc # "idle"
    BY <1>0, <1>1, <1>2, <1>3 DEF Leaves, Idle
  <2> QED
    BY <2>1, LeavesAlone
<1>11. PanelInv'
  <2>1. \A g \in Handlers : ToShow(g) => ToShow(g)'
    BY <1>0, <1>1, <1>3 DEF ToShow, IsAt
  <2> QED
    BY <2>1, <1>1 DEF IInv, PanelInv
<1> QED
  BY <1>4, <1>6, <1>7, <1>8, <1>9, <1>10, <1>11 DEF IInv

-----------------------------------------------------------------------------
\* The panel is edited by one that was alone, and knows; or it is in doubt.
LEMMA EditPreserves ==
  ASSUME IInv, NEW h \in Handlers, Edit(h) \/ EditFails(h)
  PROVE  IInv'
<1>0. PICK t : t = task[h]
  OBVIOUS
<1>1. /\ t.pc = "edit" /\ Ends(h)
      /\ UNCHANGED <<active, settings, acked, stale, alone>>
  BY <1>0 DEF Edit, EditFails, IsAt, dbVars
<1>2. /\ t \in Full /\ t.chat \in Chats /\ Known(t.chat) /\ t # Idle
  BY <1>0, <1>1, AtAStep DEF IInv
<1>3. /\ task' \in [Handlers -> {Idle} \cup Begun \cup Met \cup Full]
      /\ task'[h] = Idle /\ \A g \in Handlers \ {h} : task'[g] = task[g]
  BY <1>1 DEF IInv, TaskInv, Ends
<1>4. TaskInv'
  <2>1. Shape(task[h])'
    BY <1>3 DEF Shape, Idle
  <2> QED
    BY <1>1, <1>3, <2>1, KeepsShape DEF IInv, Known
<1>5. ToldInv' /\ AcksHold' /\ RemovedIsOff'
  BY <1>1 DEF IInv, ToldInv, AcksHold, RemovedIsOff, Known
<1>6. AloneInv'
  <2>1. Leaves(h) /\ task[h].pc # "idle"
    BY <1>0, <1>1, <1>2, <1>3 DEF Leaves, Idle
  <2> QED
    BY <2>1, LeavesAlone
<1>7. CASE EditFails(h)
  <2>1. doubtful' = TRUE /\ panel' = panel
    BY <1>7 DEF EditFails
  <2>2. RowsInv' /\ PanelInv'
    BY <1>1, <2>1 DEF IInv, RowsInv, PanelInv, Known
  <2> QED
    BY <2>2, <1>4, <1>5, <1>6 DEF IInv
<1>8. CASE Edit(h)
  <2>1. /\ panel' = (CASE t.op = "yes"     -> Menu
                       [] t.op = "confirm" -> Confirm(t.chat)
                       [] OTHER            -> Shown(t))
        /\ doubtful' = (h \notin alone)
    BY <1>0, <1>8 DEF Edit
  <2>2. panel'.view = "detail" => t.op \notin {"yes", "confirm"} /\ panel' = Shown(t)
    BY <2>1 DEF Menu, Confirm
  <2>3. Shown(t).chat = t.chat /\ Shown(t).row \in Rows
    <3>1. t.op \in Cycling => [t.row EXCEPT ![t.op] = Cycled(t.op, t.row[t.op])] \in Rows
      BY <1>2, CycledRow DEF Full
    <3> QED
      BY <3>1, <1>2 DEF Shown, Detail, Full
  <2>4. RowsInv'
    BY <1>1, <1>2, <2>1, <2>2, <2>3 DEF IInv, RowsInv, Known
  <2>5. h \in alone /\ t.op \notin {"yes", "confirm"} => Shown(t).row = settings[t.chat]
    BY <1>0, <1>1 DEF IInv, AloneInv, IsAt
  <2>6. PanelInv'
    BY <1>1, <2>1, <2>2, <2>3, <2>5 DEF PanelInv
  <2> QED
    BY <2>4, <2>6, <1>4, <1>5, <1>6 DEF IInv
<1> QED
  BY <1>7, <1>8

\* Nobody is at work after a crash, and the panel is in doubt when somebody was.
LEMMA CrashPreserves == ASSUME IInv, Crash PROVE IInv'
<1>1. /\ task' = [h \in Handlers |-> Idle] /\ alone' = {}
      /\ doubtful' = (doubtful \/ AtPanel # {})
      /\ UNCHANGED <<active, settings, panel, acked, stale>>
  BY DEF Crash, dbVars
<1>2. TaskInv'
  BY <1>1 DEF TaskInv, Shape, Idle
<1>3. RowsInv' /\ ToldInv' /\ RemovedIsOff' /\ AcksHold' /\ AloneInv'
  BY <1>1 DEF IInv, RowsInv, ToldInv, RemovedIsOff, AcksHold, AloneInv, Known
<1>4. PanelInv'
  <2>1. AtPanel = {} => \A h \in Handlers : ~ToShow(h)
    BY OpsOf DEF ToShow, AtPanel, Busy, IsAt
  <2> QED
    BY <1>1, <2>1 DEF IInv, PanelInv
<1> QED
  BY <1>2, <1>3, <1>4 DEF IInv

-----------------------------------------------------------------------------
LEMMA NextIInv == IInv /\ [Next]_vars => IInv'
<1> SUFFICES ASSUME IInv, [Next]_vars
             PROVE  IInv'
  OBVIOUS
<1>1. CASE UNCHANGED vars
  <2>1. UNCHANGED <<active, settings, task, panel, acked, stale, alone, doubtful>>
    BY <1>1 DEF vars, dbVars, worldVars
  <2>2. UNCHANGED <<TaskInv, RowsInv, ToldInv, RemovedIsOff, AcksHold>>
    BY <2>1 DEF TaskInv, Shape, RowsInv, ToldInv, RemovedIsOff, AcksHold, Known, IsAt
  <2>3. UNCHANGED <<AloneInv, PanelInv>>
    BY <2>1 DEF AloneInv, PanelInv, ToShow, AtPanel, Busy, IsAt, Shown, Detail
  <2> QED
    BY <2>2, <2>3 DEF IInv
<1>2. CASE Handle
  <2>1. PICK h \in Handlers :
          \/ \E c \in Chats, op \in OnPanel \cup Creating : Arrives(h, op, c)
          \/ Refused(h)   \/ ToCreate(h)   \/ ReadChat(h)   \/ ReadSettings(h)
          \/ Insert(h)    \/ SetColumn(h)  \/ Deactivate(h) \/ Reactivate(h)
          \/ Fails(h)     \/ Edit(h)       \/ EditFails(h)
    BY <1>2 DEF Handle
  <2>2. CASE \E c \in Chats, op \in OnPanel \cup Creating : Arrives(h, op, c)
    BY <2>2, ArrivesPreserves
  <2>3. CASE Refused(h) \/ Fails(h)
    BY <2>3, EndsPreserve
  <2>4. CASE ToCreate(h)
    BY <2>4, ToCreatePreserves
  <2>5. CASE ReadChat(h)
    BY <2>5, ReadChatPreserves
  <2>6. CASE ReadSettings(h)
    BY <2>6, ReadSettingsPreserves
  <2>7. CASE Insert(h)
    BY <2>7, InsertPreserves
  <2>8. CASE SetColumn(h)
    BY <2>8, SetColumnPreserves
  <2>9. CASE Deactivate(h)
    BY <2>9, DeactivatePreserves
  <2>10. CASE Reactivate(h)
    BY <2>10, ReactivatePreserves
  <2>11. CASE Edit(h) \/ EditFails(h)
    BY <2>11, EditPreserves
  <2> QED
    BY <2>1, <2>2, <2>3, <2>4, <2>5, <2>6, <2>7, <2>8, <2>9, <2>10, <2>11
<1>3. CASE Crash
  BY <1>3, CrashPreserves
<1> QED
  BY <1>1, <1>2, <1>3 DEF Next

LEMMA IInvHolds == Spec => []IInv
<1> QED
  BY InitIInv, NextIInv, PTL DEF Spec

\* The variables keep their types.
THEOREM TypeCorrect == Spec => []TypeOK
<1>1. IInv => TypeOK
  <2> SUFFICES ASSUME IInv
               PROVE  TypeOK
    OBVIOUS
  <2>1. \A h \in Busy : /\ task[h].chat \in Chats
                        /\ IsAt(h, "write") => Known(task[h].chat)
    BY AtAStep DEF IInv, Busy, IsAt
  <2> QED
    BY <2>1 DEF IInv, RowsInv, TypeOK
<1> QED
  BY <1>1, IInvHolds, PTL

\* A removed chat does not post when it is added again, but for the races of
\* deactivate_chat with update_chat_settings and itself.
THEOREM RemovedChatsAreOff == Spec => []RemovedIsOff
<1>1. IInv => RemovedIsOff
  BY DEF IInv
<1> QED
  BY <1>1, IInvHolds, PTL

\* What on_admin_chat_shared and on_admin_chat_remove_yes tell the admin is so,
\* unless a handler decided on rows that were changing.
THEOREM AcksAreKept == Spec => []AcksHold
<1>1. IInv => AcksHold
  BY DEF IInv
<1> QED
  BY <1>1, IInvHolds, PTL

\* The panel of one chat shows its row, if the last to edit it was alone.
THEOREM PanelShowsTheRow == Spec => []PanelTruthful
<1>1. IInv => PanelTruthful
  <2> SUFFICES ASSUME IInv, AtPanel = {}, ~doubtful, panel.view = "detail"
               PROVE  panel.row = settings[panel.chat]
    BY DEF PanelTruthful
  <2>1. \A h \in Handlers : ~ToShow(h)
    BY OpsOf DEF ToShow, AtPanel, Busy, IsAt
  <2> QED
    BY <2>1 DEF IInv, PanelInv
<1> QED
  BY <1>1, IInvHolds, PTL

-----------------------------------------------------------------------------
(***************************************************************************)
(* The panel and the scheduler together, on one database.  AutoPost models *)
(* a handler as one write; here the handlers are those of this module, who *)
(* write on the strength of rows read earlier, and the scheduler's passes  *)
(* run between their steps.                                                *)
(***************************************************************************)
CONSTANTS NoChat, MaxTime

VARIABLES now, botEnabled, lastSent, pc, wakeAt, passNow, todo, current, sent,
          dirty, locked, lastPass, lost, lateUnwanted, latePower

\* The rows of a chat as list_auto_post_chats sees them; a chat that is not known
\* is as good as one that is not managed.  lastSent is the column last_sent_at.
PostRow(c) == [active   |-> c \in active,
               auto     |-> settings[c].auto,
               interval |-> IF Known(c) THEN settings[c].interval ELSE Default,
               last     |-> lastSent[c]]

P == INSTANCE AutoPostProofs WITH chat <- [c \in Chats |-> PostRow(c)]

\* What the two models take of their constants.
TogetherAssumption == /\ NoChat \notin Chats
                      /\ Intervals \subseteq Nat
                      /\ MaxTime \in Nat \ {0}

togetherVars == <<vars, lastSent, P!vars>>

\* A step of a handler: it writes only when no pass holds the lock, and a chat it
\* puts back on auto-posting is wanted again.
HandlerStep ==
  /\ Handle
  /\ <<active, settings>>' # <<active, settings>> => ~locked
  /\ UNCHANGED <<now, botEnabled, lastSent, P!passVars, lastPass, lost, latePower>>
  /\ lateUnwanted' = [c \in Chats |-> IF P!Wanted(c)' THEN P!None
                                                     ELSE lateUnwanted[c]]

\* A step of the scheduler, the clock or the power switch.
PassStep == /\ UNCHANGED vars
            /\ lastSent' \in [Chats -> 0..MaxTime]
            /\ P!Scheduler \/ P!Tick \/ P!TogglePower

\* There is one process: a crash ends the handlers and the pass.
CrashStep == Crash /\ UNCHANGED lastSent /\ P!Crash

Together == /\ Init /\ lastSent = [c \in Chats |-> 0] /\ P!Init
            /\ [][HandlerStep \/ PassStep \/ CrashStep]_togetherVars

\* A chat the admin was told is removed, no handler having decided on stale rows,
\* is not wanted by a pass and gets at most one more edit and one more message.
RemovedFallsSilent ==
  \A c \in Chats \ stale : acked[c] = "removed" =>
    ~P!Wanted(c) /\ \A way \in P!Ways : lateUnwanted[c][way] <= 1

\* No pass puts it on its list.
RemovedIsNotListed ==
  [][\A c \in todo' \ todo : acked[c] = "removed" => c \in stale]_togetherVars

-----------------------------------------------------------------------------
\* A step of a handler is about one chat.
LEMMA OneChat ==
  ASSUME IInv, Handle
  PROVE  \/ UNCHANGED <<active, settings>>
         \/ \E c \in Chats : /\ \A d \in Chats \ {c} : /\ d \in active' <=> d \in active
                                                       /\ settings'[d] = settings[d]
<1>1. PICK h \in Handlers :
        \/ \E c \in Chats, op \in OnPanel \cup Creating : Arrives(h, op, c)
        \/ Refused(h)   \/ ToCreate(h)   \/ ReadChat(h)   \/ ReadSettings(h)
        \/ Insert(h)    \/ SetColumn(h)  \/ Deactivate(h) \/ Reactivate(h)
        \/ Fails(h)     \/ Edit(h)       \/ EditFails(h)
  BY DEF Handle
<1>2. CASE \/ \E c \in Chats, op \in OnPanel \cup Creating : Arrives(h, op, c)
           \/ Refused(h) \/ ToCreate(h) \/ ReadChat(h) \/ ReadSettings(h)
           \/ Fails(h)   \/ Edit(h)     \/ EditFails(h)
  BY <1>2 DEF Arrives, Refused, ToCreate, ReadChat, ReadSettings, Fails, Edit, EditFails,
              dbVars
<1>3. ASSUME Insert(h) \/ SetColumn(h) \/ Deactivate(h) \/ Reactivate(h)
      PROVE  \E c \in Chats : \A d \in Chats \ {c} : /\ d \in active' <=> d \in active
                                                     /\ settings'[d] = settings[d]
  <2>1. PICK c : c = task[h].chat
    OBVIOUS
  <2>2. c \in Chats
    BY <1>3, <2>1, AtAStep DEF IInv, Insert, SetColumn, Deactivate, Reactivate, IsAt
  <2>3. \A d \in Chats \ {c} : settings'[d] = settings[d]
    BY <1>3, <2>1 DEF Insert, SetColumn, Deactivate, Reactivate, IInv, RowsInv
  <2>4. \A d \in Chats \ {c} : d \in active' <=> d \in active
    BY <1>3, <2>1 DEF Insert, SetColumn, Deactivate, Reactivate, Reactivated
  <2> QED
    BY <2>2, <2>3, <2>4
<1> QED
  BY <1>1, <1>2, <1>3

\* What auto-posting sees of a row is a row of AutoPost.
LEMMA PostRows ==
  ASSUME NEW s \in Rows \cup {NoRow}, NEW a \in BOOLEAN, NEW l \in 0..MaxTime
  PROVE  [active |-> a, auto |-> s.auto,
          interval |-> IF s # NoRow THEN s.interval ELSE Default, last |-> l] \in P!Row
<1>1. s.auto \in BOOLEAN
  <2>1. CASE s \in Rows
    BY <2>1 DEF Rows
  <2>2. CASE s = NoRow
    <3>1. s.auto = FALSE
      BY <2>2 DEF NoRow
    <3> QED
      BY Zenon, <3>1
  <2> QED
    BY <2>1, <2>2
<1>2. (IF s # NoRow THEN s.interval ELSE Default) \in Intervals
  BY ChatsAssumption DEF Rows
<1> QED
  BY <1>1, <1>2 DEF P!Row

\* So is a handler's step a step of the open AutoPost, or none.
LEMMA HandlerIsOpen ==
  ASSUME IInv, P!IInv, HandlerStep
  PROVE  [P!OpenNext]_(P!vars)
<1>1. IInv' /\ RowsInv'
  BY NextIInv DEF HandlerStep, Next, IInv
<1>2. /\ \A c \in Chats : lastSent[c] \in 0..MaxTime /\ lastSent'[c] = lastSent[c]
      /\ lateUnwanted \in [Chats -> P!Counts]
  BY DEF P!IInv, P!TypeOK, P!Row, PostRow, HandlerStep
<1>7. \A c \in Chats : P!Wanted(c) => lateUnwanted[c] = P!None
  <2> SUFFICES ASSUME NEW c \in Chats, P!Wanted(c)
               PROVE  lateUnwanted[c] = P!None
    OBVIOUS
  <2>1. \A way \in P!Ways : lateUnwanted[c][way] = 0
    BY DEF P!IInv, P!LateInv, P!Late
  <2>2. lateUnwanted[c] \in [P!Ways -> Nat]
    BY <1>2 DEF P!Counts
  <2> QED
    BY <2>1, <2>2 DEF P!None
<1>3. \A c \in Chats : P!Wanted(c) <=> c \in active /\ settings[c].auto
  BY DEF P!Wanted, PostRow
<1>4. \A c \in Chats : P!Wanted(c)' <=> c \in active' /\ settings'[c].auto
  BY DEF P!Wanted, PostRow
<1>5. CASE UNCHANGED <<active, settings>>
  <2>1. \A c \in Chats : PostRow(c)' = PostRow(c)
    BY <1>2, <1>5 DEF PostRow, Known
  <2>2. lateUnwanted' = lateUnwanted
    BY <1>2, <1>3, <1>4, <1>5, <1>7 DEF HandlerStep
  <2> QED
    BY <2>1, <2>2
       DEF HandlerStep, P!vars, P!dbVars, P!passVars, P!worldVars
<1>6. CASE ~UNCHANGED <<active, settings>>
  <2>1. PICK c \in Chats : \A d \in Chats \ {c} : /\ d \in active' <=> d \in active
                                                  /\ settings'[d] = settings[d]
    BY <1>6, OneChat DEF HandlerStep
  <2>2. PICK row : row = PostRow(c)'
    OBVIOUS
  <2>3. row \in P!Row /\ row.last = PostRow(c).last
    <3>1. settings'[c] \in Rows \cup {NoRow} /\ (c \in active') \in BOOLEAN
          /\ lastSent'[c] \in 0..MaxTime
      BY <1>1, <1>2 DEF RowsInv
    <3>2. row = [active |-> c \in active', auto |-> settings'[c].auto,
                 interval |-> IF settings'[c] # NoRow THEN settings'[c].interval
                                                      ELSE Default,
                 last |-> lastSent'[c]]
      BY <2>2 DEF PostRow, Known
    <3>3. row \in P!Row
      BY <3>1, <3>2, PostRows
    <3>4. row.last = PostRow(c).last
      BY <1>2, <3>2 DEF PostRow
    <3> QED
      BY <3>3, <3>4
  <2>4. [d \in Chats |-> PostRow(d)]' = [[d \in Chats |-> PostRow(d)] EXCEPT ![c] = row]
    <3>1. ASSUME NEW d \in Chats \ {c}
          PROVE  PostRow(d)' = PostRow(d)
      BY <1>2, <2>1 DEF PostRow, Known
    <3> QED
      BY <2>2, <3>1
  <2>5. lateUnwanted' = IF row.active /\ row.auto
                          THEN [lateUnwanted EXCEPT ![c] = P!None]
                          ELSE lateUnwanted
    BY <1>2, <1>3, <1>4, <1>7, <2>1, <2>2 DEF HandlerStep, PostRow
  <2>6. P!Write(c, row)
    BY <1>6, <2>4, <2>5 DEF P!Write, HandlerStep
  <2> QED
    BY <2>3, <2>6 DEF P!SetRow, P!OpenNext
<1> QED
  BY <1>5, <1>6

-----------------------------------------------------------------------------
\* The invariants of both models are kept by the two together.
LEMMA TogetherStep ==
  ASSUME IInv, P!IInv, TogetherAssumption,
         [HandlerStep \/ PassStep \/ CrashStep]_togetherVars
  PROVE  /\ [Next]_vars /\ IInv'
         /\ [P!OpenNext]_(P!vars) /\ P!IInv'
<1>1. [Next]_vars /\ [P!OpenNext]_(P!vars)
  <2>1. CASE HandlerStep
    BY <2>1, HandlerIsOpen DEF HandlerStep, Next
  <2>2. CASE PassStep
    BY <2>2 DEF PassStep, P!OpenNext
  <2>3. CASE CrashStep
    BY <2>3 DEF CrashStep, Next, P!OpenNext
  <2>4. CASE UNCHANGED togetherVars
    BY <2>4 DEF togetherVars
  <2> QED
    BY <2>1, <2>2, <2>3, <2>4
<1>2. P!AutoPostAssumption
  BY ChatsAssumption DEF TogetherAssumption, P!AutoPostAssumption
<1> QED
  BY <1>1, <1>2, NextIInv, P!NextIInv DEF TogetherAssumption

LEMMA TogetherInv ==
  ASSUME TogetherAssumption
  PROVE  Together => [](IInv /\ P!IInv)
<1>1. P!AutoPostAssumption
  BY ChatsAssumption DEF TogetherAssumption, P!AutoPostAssumption
<1>2. Init /\ P!Init => IInv /\ P!IInv
  BY <1>1, InitIInv, P!InitIInv DEF TogetherAssumption
<1>3. IInv /\ P!IInv /\ [HandlerStep \/ PassStep \/ CrashStep]_togetherVars
        => IInv' /\ P!IInv'
  BY TogetherStep
<1> QED
  BY <1>2, <1>3, PTL DEF Together

\* Seen from the scheduler, handlers that write on the strength of stale rows are
\* the open ones of AutoPost's proofs, so what is proved there of late and
\* recorded dashboards and their spacing holds with these handlers.
THEOREM TogetherIsAutoPost == TogetherAssumption => (Together => P!OpenSpec)
<1> SUFFICES ASSUME TogetherAssumption
             PROVE  Together => P!OpenSpec
  OBVIOUS
<1>1. IInv /\ P!IInv /\ [HandlerStep \/ PassStep \/ CrashStep]_togetherVars
        => [P!OpenNext]_(P!vars)
  BY TogetherStep
<1> QED
  BY <1>1, TogetherInv, PTL DEF Together, P!OpenSpec

\* What a pass may do to a chat whose removal the admin was told of
\* (on_admin_chat_remove_yes): at most one more edit and one more message, of the
\* turn under way or the list already made, unless a handler decided on stale
\* rows.
THEOREM RemovedChatsFallSilent == TogetherAssumption => (Together => []RemovedFallsSilent)
<1> SUFFICES ASSUME TogetherAssumption
             PROVE  Together => []RemovedFallsSilent
  OBVIOUS
<1>0. P!AutoPostAssumption
  BY ChatsAssumption DEF TogetherAssumption, P!AutoPostAssumption
<1>1. IInv /\ P!IInv => RemovedFallsSilent
  <2> SUFFICES ASSUME IInv, P!IInv, NEW c \in Chats \ stale, acked[c] = "removed"
               PROVE  ~P!Wanted(c) /\ \A way \in P!Ways : lateUnwanted[c][way] <= 1
    BY DEF RemovedFallsSilent
  <2>1. c \notin active
    BY DEF IInv, AcksHold
  <2>3. ~P!Wanted(c)
    <3>1. P!Wanted(c) <=> c \in active /\ settings[c].auto
      BY DEF P!Wanted, PostRow
    <3> QED
      BY <2>1, <3>1
  <2>4. \A way \in P!Ways : lateUnwanted[c][way] <= 1
    BY <1>0, P!LateIsOne DEF P!LatePostsBounded
  <2> QED
    BY <2>3, <2>4
<1> QED
  BY <1>1, TogetherInv, PTL

\* Nor does list_auto_post_chats return such a chat to any later pass.
THEOREM RemovedChatsAreNotListed ==
  TogetherAssumption => (Together => RemovedIsNotListed)
<1> SUFFICES ASSUME TogetherAssumption
             PROVE  Together => RemovedIsNotListed
  OBVIOUS
<1>0. P!AutoPostAssumption
  BY ChatsAssumption DEF TogetherAssumption, P!AutoPostAssumption
<1>1. ASSUME IInv, P!IInv, [HandlerStep \/ PassStep \/ CrashStep]_togetherVars,
             NEW c \in todo' \ todo, acked[c] = "removed"
      PROVE  c \in stale
  <2>0. \A d \in Chats : ~P!SendDashboard(d)
    <3> SUFFICES ASSUME NEW d \in Chats, P!SendDashboard(d)
                 PROVE  FALSE
      OBVIOUS
    <3>1. todo' = todo \ {d}
      BY <1>0, P!TurnIsTaken
    <3> QED
      BY <1>1, <3>1
  <2>1. P!ListChats
    BY <1>1, <2>0
       DEF togetherVars, P!vars, P!passVars, HandlerStep, PassStep, CrashStep,
           P!Scheduler, P!CheckEnabled, P!Flush, P!FlushFails, P!Commit, P!SleepAgain,
           P!EndPass, P!Crash, P!Tick, P!TogglePower
  <2>2. c \in Chats /\ P!Wanted(c)
    BY <1>1, <2>1 DEF P!ListChats
  <2>3. c \in active
    BY <2>2 DEF P!Wanted, PostRow
  <2> QED
    BY <1>1, <2>2, <2>3 DEF IInv, AcksHold
<1>2. IInv /\ P!IInv /\ [HandlerStep \/ PassStep \/ CrashStep]_togetherVars
        => [\A c \in todo' \ todo : acked[c] = "removed" => c \in stale]_togetherVars
  BY <1>1
<1> QED
  BY <1>2, TogetherInv, PTL DEF Together, RemovedIsNotListed
=============================================================================
