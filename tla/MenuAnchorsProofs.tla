-------------------------- MODULE MenuAnchorsProofs --------------------------
(***************************************************************************)
(* Proofs about MenuAnchors, for every set of chats and handlers and any   *)
(* number of messages.                                                     *)
(*                                                                         *)
(* A calm anchor has at most one handler at work on it, and where that     *)
(* handler stands says what is in the chat (StageInv): until it has found  *)
(* that nothing can be edited, the anchor is settled; from then on there   *)
(* is no menu, and at last the one just sent.  A prompt that is there has  *)
(* its handler, or is one of those kept (PromptsAreTimed).                 *)
(***************************************************************************)
EXTENDS MenuAnchors, TLAPS

\* What the handler of an update may be at.
Shape(t) ==
  /\ t \in Tasks /\ t.id \in 0..sent
  /\ t.pc = "wait" => t.id \in 1..sent
  /\ t.pc \in {"look", "clear"} => t.op = "restart"
  /\ t.pc \in {"read", "edit", "send", "store"} => t.op \in OnAnchor
  /\ t.pc \in {"add", "wait", "remember", "shared", "added", "pop"} => t.op \notin OnAnchor

\* Every id known is that of a message sent, or None.
KnownInv == /\ \A h \in Handlers : task[h] # Idle => Shape(task[h])
            /\ \A a \in Anchors : stored[a] \in 0..sent
            /\ pending \in 0..sent

Settled(a) == menus[a] = IF a \in due THEN {stored[a]} ELSE {}

CalmInv == \A a \in calm : \A g, h \in AtWork(a) : g = h

\* What the locals of the one handler say of its anchor.
Stage(t, a) ==
  /\ t.pc \in {"clear", "edit"} => t.id = stored[a]
  /\ t.pc = "send"  => menus[a] = {} /\ a \notin due
  /\ t.pc = "store" => menus[a] \subseteq {t.id} /\ a \notin due
  /\ t.pc \notin {"send", "store"} => Settled(a)

StageInv == \A a \in calm :
  /\ AtWork(a) = {} => Settled(a)
  /\ \A h \in AtWork(a) : Stage(task[h], a)

\* The messages with a Back button are among those sent (a part of TypeOK).
OthersInv == /\ others \in [Anchors -> SUBSET (1..sent)]
             /\ turned \in [Anchors -> SUBSET (1..sent)]

IInv == TypeOK /\ KnownInv /\ CalmInv /\ StageInv /\ PromptsAreTimed

-----------------------------------------------------------------------------
\* The bot starts with every invariant true.
LEMMA InitIInv == Init => IInv
<1> SUFFICES ASSUME Init
             PROVE  IInv
  OBVIOUS
<1>1. TypeOK
  BY ChatsAssumption DEF Init, TypeOK, Ids, None
<1>2. KnownInv
  BY DEF Init, KnownInv, None
<1>3. \A a \in Anchors : Settled(a) /\ AtWork(a) = {}
  BY DEF Init, Settled, AtWork, Busy, IsAt, Idle
<1>4. CalmInv /\ StageInv
  BY <1>3 DEF Init, CalmInv, StageInv
<1>5. PromptsAreTimed
  BY DEF Init, PromptsAreTimed, IsAt, Idle
<1> QED
  BY <1>1, <1>2, <1>4, <1>5 DEF IInv

\* No chat's id is that of a row, so that the look by rows finds nothing.
LEMMA FoundByChat ==
  ASSUME NEW c \in Chats
  PROVE  WithRow(c) = {} /\ Found(c) = {c}
BY ChatsAssumption DEF WithRow, Found

\* A handler at a step, its locals and its anchor.
LEMMA AtAStep ==
  ASSUME TypeOK, KnownInv, NEW h \in Handlers, task[h].pc # "idle"
  PROVE  /\ task[h] # Idle /\ Shape(task[h]) /\ task[h] \in Tasks
         /\ Mine(h) \in Anchors
         /\ task[h].op \in OnAnchor => h \in AtWork(Mine(h))
<1>1. task[h] # Idle
  BY DEF Idle
<1>2. Shape(task[h]) /\ task[h] \in Tasks
  BY <1>1 DEF KnownInv, Shape
<1>3. Mine(h) \in Anchors
  BY <1>2 DEF Mine, Anchor, Anchors, Tasks
<1> QED
  BY <1>1, <1>2, <1>3 DEF AtWork, Busy, IsAt, Mine

\* What a step of one handler must do for the invariants: leave other anchors as
\* they are, and its own, if that is still calm, as its next stage says.
Same(a) == stored'[a] = stored[a] /\ menus'[a] = menus[a] /\ (a \in due' <=> a \in due)

Leaves(h) ==
  /\ task' \in [Handlers -> Tasks \cup {Idle}]
  /\ \A g \in Handlers \ {h} : task'[g] = task[g]
  /\ task'[h] # Idle => /\ task'[h].op = task[h].op /\ task'[h].chat = task[h].chat
                        /\ Shape(task[h])'
  /\ sent' \in Ids /\ sent <= sent'
  /\ stored' \in [Anchors -> 0..sent'] /\ pending' \in 0..sent'
  /\ menus' \in [Anchors -> SUBSET (1..sent')]
  /\ prompts' \subseteq 1..sent' /\ kept' \subseteq 1..sent'
  /\ UNCHANGED otherVars \/ OthersInv'
  /\ calm' \subseteq calm /\ due' \subseteq Anchors
  /\ \A a \in Anchors : (task[h].op \in OnAnchor /\ a = Mine(h)) \/ Same(a)
  /\ task[h].op \in OnAnchor /\ Mine(h) \in calm' =>
       \A a \in Anchors : a = Mine(h) =>
         /\ task'[h] = Idle => Settled(a)'
         /\ task'[h] # Idle => Stage(task[h], a)'
  /\ PromptsAreTimed'

LEMMA LeavesPreserves ==
  ASSUME IInv, NEW h \in Handlers, task[h].pc # "idle", Leaves(h)
  PROVE  IInv'
<1>1. /\ task[h] # Idle /\ Shape(task[h]) /\ Mine(h) \in Anchors
      /\ task[h].op \in OnAnchor => h \in AtWork(Mine(h))
      /\ sent \in Ids /\ calm \subseteq Anchors
  BY AtAStep DEF IInv, TypeOK
<1>2. sent' \in Nat /\ sent' <= MaxMessages /\ sent \in Nat
  BY <1>1, ChatsAssumption DEF Leaves, Ids
<1>3. TypeOK'
  <2>1. 0..sent' \subseteq Ids
    BY <1>2, ChatsAssumption DEF Ids
  <2>2. OthersInv'
    <3>1. CASE UNCHANGED otherVars
      <4>1. SUBSET (1..sent) \subseteq SUBSET (1..sent')
        BY <1>2 DEF Leaves
      <4> QED
        BY <3>1, <4>1 DEF IInv, TypeOK, OthersInv, otherVars
    <3> QED
      BY <3>1 DEF Leaves
  <2> QED
    BY <1>1, <2>1, <2>2 DEF Leaves, TypeOK, OthersInv
<1>4. KnownInv'
  <2>1. ASSUME NEW g \in Handlers, task'[g] # Idle
        PROVE  Shape(task[g])'
    <3>1. CASE g = h
      BY <2>1, <3>1 DEF Leaves
    <3>2. CASE g # h
      <4>1. task'[g] = task[g] /\ Shape(task[g])
        BY <2>1, <3>2 DEF Leaves, IInv, KnownInv
      <4>2. 0..sent \subseteq 0..sent'
        BY <1>2 DEF Leaves
      <4> QED
        BY <4>1, <4>2 DEF Shape
    <3> QED
      BY <3>1, <3>2
  <2> QED
    BY <2>1 DEF Leaves, KnownInv
<1>5. \A a : \A g \in AtWork(a)' : g \in AtWork(a)
  BY <1>1 DEF AtWork, Busy, IsAt, Leaves, Idle
<1>6. \A a : \A g \in AtWork(a) : g # h => g \in AtWork(a)'
  BY DEF AtWork, Busy, IsAt, Leaves
<1>7. CalmInv'
  BY <1>5 DEF IInv, CalmInv, Leaves
<1>8. StageInv'
  <2> SUFFICES ASSUME NEW a \in calm'
               PROVE  /\ AtWork(a)' = {} => Settled(a)'
                      /\ \A g \in AtWork(a)' : Stage(task[g], a)'
    BY DEF StageInv
  <2>1. a \in calm /\ a \in Anchors
    BY <1>1 DEF Leaves
  <2>2. CASE task[h].op \in OnAnchor /\ a = Mine(h)
    <3>1. \A g \in AtWork(a)' : g = h /\ task'[h] # Idle
      BY <1>1, <1>5, <2>1, <2>2 DEF IInv, CalmInv, AtWork, Busy, IsAt, Idle
    <3>2. task'[h] # Idle => h \in AtWork(a)'
      <4>1. task'[h] # Idle => task'[h].pc # "idle"
        BY DEF Leaves, Shape, Tasks, Steps
      <4> QED
        BY <2>2, <4>1 DEF AtWork, Busy, IsAt, Mine, Leaves
    <3>3. /\ task'[h] = Idle => Settled(a)'
          /\ task'[h] # Idle => Stage(task[h], a)'
      BY <2>1, <2>2 DEF Leaves
    <3> QED
      BY <3>1, <3>2, <3>3
  <2>3. CASE ~(task[h].op \in OnAnchor /\ a = Mine(h))
    <3>1. Same(a) /\ h \notin AtWork(a)
      BY <2>1, <2>3 DEF Leaves, AtWork, Mine
    <3>2. AtWork(a)' = AtWork(a)
      BY <3>1, <1>5, <1>6
    <3>3. Settled(a)' <=> Settled(a)
      BY <3>1 DEF Settled, Same
    <3>4. ASSUME NEW g \in AtWork(a)
          PROVE  Stage(task[g], a)'
      <4>1. task'[g] = task[g] /\ Stage(task[g], a)
        BY <3>1, <3>4, <2>1 DEF IInv, StageInv, Leaves, AtWork, Busy
      <4> QED
        BY <4>1, <3>1, <3>3 DEF Stage, Same
    <3> QED
      BY <3>2, <3>3, <3>4, <2>1 DEF IInv, StageInv
  <2> QED
    BY <2>2, <2>3
<1> QED
  BY <1>3, <1>4, <1>7, <1>8 DEF IInv, Leaves

\* Handlers of menus leave the prompts alone.
LEMMA PromptsKept ==
  ASSUME IInv, NEW h \in Handlers, task[h].pc \notin {"idle", "wait"},
         \A g \in Handlers \ {h} : task'[g] = task[g],
         UNCHANGED <<prompts, kept>>
  PROVE  PromptsAreTimed'
BY DEF IInv, PromptsAreTimed, IsAt

-----------------------------------------------------------------------------
\* A handler goes on, or ends: its locals are known, the others' as they were.
LEMMA Holding ==
  ASSUME IInv, NEW h \in Handlers, task[h].pc # "idle",
         NEW p \in Steps, NEW id \in Ids, Holds(h, id, p)
  PROVE  /\ task' \in [Handlers -> Tasks \cup {Idle}]
         /\ \A g \in Handlers \ {h} : task'[g] = task[g]
         /\ task'[h] \in Tasks /\ task'[h].pc = p /\ task'[h].id = id
         /\ task'[h].op = task[h].op /\ task'[h].chat = task[h].chat
<1>1. task[h] \in Tasks /\ task \in [Handlers -> Tasks \cup {Idle}]
  BY AtAStep DEF IInv, TypeOK
<1>2. task'[h] = [task[h] EXCEPT !.id = id, !.pc = p]
  BY <1>1 DEF Holds, Tasks
<1> QED
  BY <1>1, <1>2 DEF Holds, Tasks

LEMMA Going ==
  ASSUME IInv, NEW h \in Handlers, task[h].pc # "idle",
         NEW p \in Steps, GoesOn(h, p)
  PROVE  /\ task' \in [Handlers -> Tasks \cup {Idle}]
         /\ \A g \in Handlers \ {h} : task'[g] = task[g]
         /\ task'[h] \in Tasks /\ task'[h].pc = p /\ task'[h].id = task[h].id
         /\ task'[h].op = task[h].op /\ task'[h].chat = task[h].chat
<1>1. task[h] \in Tasks /\ task \in [Handlers -> Tasks \cup {Idle}]
  BY AtAStep DEF IInv, TypeOK
<1>2. task'[h] = [task[h] EXCEPT !.pc = p]
  BY <1>1 DEF GoesOn, Tasks
<1> QED
  BY <1>1, <1>2 DEF GoesOn, Tasks

LEMMA Ending ==
  ASSUME IInv, NEW h \in Handlers, Ends(h)
  PROVE  /\ task' \in [Handlers -> Tasks \cup {Idle}]
         /\ \A g \in Handlers \ {h} : task'[g] = task[g]
         /\ task'[h] = Idle /\ task'[h].pc = "idle"
BY DEF IInv, TypeOK, Ends, Idle

\* What is known of a handler at work on a menu, which is alone with it if the
\* anchor is calm.
LEMMA OnMenu ==
  ASSUME IInv, NEW h \in Handlers,
         task[h].pc \in {"look", "clear", "read", "edit", "send", "store"}
  PROVE  /\ Shape(task[h]) /\ task[h].op \in OnAnchor /\ Mine(h) \in Anchors
         /\ task[h].pc \in {"look", "clear"} =>
              task[h].op = "restart" /\ Mine(h) = <<task[h].chat, "main">>
         /\ Mine(h) = <<task[h].chat, Mine(h)[2]>>
         /\ task[h].chat \in Chats /\ Mine(h)[2] \in {"main", "admin"}
         /\ Mine(h) \in calm => Stage(task[h], Mine(h))
<1>1. task[h].pc # "idle"
  OBVIOUS
<1>2. Shape(task[h]) /\ Mine(h) \in Anchors /\ task[h] \in Tasks
  BY <1>1, AtAStep DEF IInv
<1>3. task[h].op \in OnAnchor
  BY <1>2 DEF Shape, OnAnchor
<1>4. h \in AtWork(Mine(h))
  BY <1>1, <1>3, AtAStep DEF IInv
<1>5. Mine(h) \in calm => Stage(task[h], Mine(h))
  BY <1>4 DEF IInv, StageInv
<1> QED
  BY <1>2, <1>3, <1>5 DEF Shape, Mine, Anchor, Tasks

\* What the state keeps when a step says nothing of it.
LEMMA KnownTypes ==
  ASSUME IInv
  PROVE  /\ sent \in Ids /\ sent <= sent /\ sent \in Nat /\ 0 \in 0..sent
         /\ stored \in [Anchors -> 0..sent] /\ pending \in 0..sent
         /\ menus \in [Anchors -> SUBSET (1..sent)]
         /\ prompts \subseteq 1..sent /\ kept \subseteq 1..sent
         /\ calm \subseteq Anchors /\ due \subseteq Anchors
         /\ 0..sent \subseteq Ids /\ MaxMessages \in Nat
         /\ OthersInv
<1>1. TypeOK /\ KnownInv /\ sent \in Nat
  BY ChatsAssumption DEF IInv, TypeOK, Ids
<1>2. stored \in [Anchors -> 0..sent]
  BY <1>1 DEF TypeOK, KnownInv
<1> QED
  BY <1>1, <1>2, ChatsAssumption DEF TypeOK, KnownInv, OthersInv, Ids

\* An id is stored for one anchor.
LEMMA PutOne ==
  ASSUME IInv, NEW c \in Chats, NEW kind \in {"main", "admin"}, NEW v,
         v \in 0..sent', 0..sent \subseteq 0..sent',
         NEW a, a = <<c, kind>>, stored' = Put(Found(c), kind, v)
  PROVE  /\ stored' \in [Anchors -> 0..sent'] /\ stored'[a] = v
         /\ \A b \in Anchors : b # a => stored'[b] = stored[b]
<1>1. Found(c) = {c} /\ a \in Anchors
  BY FoundByChat DEF Anchors
<1>2. ASSUME NEW b \in Anchors
      PROVE  b[1] \in {c} /\ b[2] = kind <=> b = a
  BY <1>2 DEF Anchors
<1>3. stored' = [b \in Anchors |-> IF b = a THEN v ELSE stored[b]]
  BY <1>1, <1>2 DEF Put
<1> QED
  BY <1>1, <1>3, KnownTypes

-----------------------------------------------------------------------------
\* A handler that gives up leaves its anchor settled.
LEMMA FailsPreserves == ASSUME IInv, NEW h \in Handlers, Fails(h) PROVE IInv'
<1>1. /\ task[h].pc \in {"look", "clear", "read", "send", "add", "shared", "added"} /\ Ends(h)
      /\ UNCHANGED <<stored, pending, sent, menus, prompts, calm, due, otherVars, kept>>
  BY DEF Fails, chatVars, worldVars
<1>2. task[h].pc # "idle" /\ task[h].pc \notin {"idle", "wait"} /\ Shape(task[h])
  BY <1>1, AtAStep DEF IInv
<1>3. PromptsAreTimed'
  BY <1>1, <1>2, Ending, PromptsKept
<1>4. task[h].op \in OnAnchor /\ Mine(h) \in calm => Settled(Mine(h))
  <2>1. CASE task[h].pc \in {"add", "shared", "added"}
    BY <2>1, <1>2 DEF Shape
  <2>2. CASE task[h].pc \in {"look", "clear", "read", "send"}
    BY <2>2, OnMenu DEF Stage, Settled
  <2> QED
    BY <1>1, <2>1, <2>2
<1>5. Leaves(h)
  BY <1>1, <1>3, <1>4, Ending, KnownTypes DEF Leaves, Same, Settled
<1> QED
  BY <1>2, <1>5, LeavesPreserves

LEMMA LookUpPreserves == ASSUME IInv, NEW h \in Handlers, LookUp(h) PROVE IInv'
<1>1. /\ task[h].pc = "look"
      /\ \E c \in Found(task[h].chat) : Holds(h, stored[<<c, "main">>], "clear")
      /\ UNCHANGED <<stored, pending, sent, menus, prompts, calm, due, otherVars, kept>>
  BY DEF LookUp, chatVars, worldVars, IsAt
<1>2. /\ Shape(task[h]) /\ task[h].op = "restart" /\ Mine(h) \in Anchors
      /\ Mine(h) = <<task[h].chat, "main">> /\ task[h].chat \in Chats
      /\ Mine(h) \in calm => Stage(task[h], Mine(h))
      /\ task[h].pc # "idle" /\ task[h].pc \notin {"idle", "wait"}
  BY <1>1, OnMenu
<1>3. Holds(h, stored[Mine(h)], "clear") /\ stored[Mine(h)] \in 0..sent
  BY <1>1, <1>2, FoundByChat, KnownTypes
<1>4. /\ task' \in [Handlers -> Tasks \cup {Idle}]
      /\ \A g \in Handlers \ {h} : task'[g] = task[g]
      /\ task'[h] \in Tasks /\ task'[h].pc = "clear" /\ task'[h].id = stored[Mine(h)]
      /\ task'[h].op = task[h].op /\ task'[h].chat = task[h].chat
  <2>1. "clear" \in Steps /\ stored[Mine(h)] \in Ids
    BY <1>3, KnownTypes DEF Steps
  <2> QED
    BY <1>2, <1>3, <2>1, Holding
<1>5. PromptsAreTimed'
  BY <1>1, <1>2, <1>4, PromptsKept
<1>6. Shape(task[h])'
  BY <1>1, <1>2, <1>3, <1>4 DEF Shape
<1>7. Mine(h) \in calm => Stage(task'[h], Mine(h))
  BY <1>1, <1>2, <1>4 DEF Stage
<1>8. Leaves(h)
  BY <1>1, <1>4, <1>5, <1>6, <1>7, KnownTypes DEF Leaves, Same, Stage, Settled, Tasks, Steps, Idle
<1> QED
  BY <1>2, <1>8, LeavesPreserves

\* What /restart clears is not the id of a menu that is there, or the anchor is
\* not calm.
LEMMA ClearPreserves == ASSUME IInv, NEW h \in Handlers, Clear(h) PROVE IInv'
<1>0. PICK a : a = Mine(h)
  OBVIOUS
<1>1. /\ task[h].pc = "clear" /\ GoesOn(h, "read")
      /\ IF task[h].id = None THEN UNCHANGED <<stored, calm>>
         ELSE /\ stored' = Put(Found(task[h].chat), "main", None)
              /\ calm' = IF menus[a] # {} THEN calm \ {a} ELSE calm
      /\ UNCHANGED <<pending, sent, menus, prompts, due, otherVars, kept>>
  BY <1>0 DEF Clear, chatVars, IsAt
<1>2. /\ Shape(task[h]) /\ task[h].op = "restart" /\ a \in Anchors
      /\ task[h].op \in OnAnchor
      /\ a = <<task[h].chat, "main">> /\ task[h].chat \in Chats
      /\ a \in calm => Stage(task[h], a)
      /\ task[h].pc # "idle" /\ task[h].pc \notin {"idle", "wait"}
  BY <1>0, <1>1, OnMenu
<1>3. /\ task' \in [Handlers -> Tasks \cup {Idle}]
      /\ \A g \in Handlers \ {h} : task'[g] = task[g]
      /\ task'[h] \in Tasks /\ task'[h].pc = "read" /\ task'[h].id = task[h].id
      /\ task'[h].op = task[h].op /\ task'[h].chat = task[h].chat
  <2>1. "read" \in Steps
    BY DEF Steps
  <2> QED
    BY <1>1, <1>2, <2>1, Going
<1>4. PromptsAreTimed'
  BY <1>1, <1>2, <1>3, PromptsKept
<1>5. Shape(task[h])'
  BY <1>1, <1>2, <1>3 DEF Shape
<1>6. /\ stored' \in [Anchors -> 0..sent] /\ calm' \subseteq calm
      /\ \A b \in Anchors : b # a => stored'[b] = stored[b]
  <2>1. CASE task[h].id = None
    BY <2>1, <1>1, KnownTypes
  <2>2. CASE task[h].id # None
    <3>1. stored' = Put(Found(task[h].chat), "main", None) /\ calm' \subseteq calm
      BY <2>2, <1>1
    <3>2. None \in 0..sent' /\ 0..sent \subseteq 0..sent' /\ sent' = sent
      BY <1>1, KnownTypes DEF None
    <3>3. "main" \in {"main", "admin"}
      OBVIOUS
    <3> QED
      BY <3>1, <3>2, <3>3, <1>2, PutOne
  <2> QED
    BY <2>1, <2>2
<1>7. a \in calm' => Settled(a)'
  <2> SUFFICES ASSUME a \in calm'
               PROVE  menus[a] = IF a \in due THEN {stored'[a]} ELSE {}
    BY <1>1 DEF Settled
  <2>1. Settled(a)
    BY <1>1, <1>2, <1>6 DEF Stage
  <2>2. CASE task[h].id = None
    BY <2>1, <2>2, <1>1 DEF Settled
  <2>3. CASE task[h].id # None
    <3>1. menus[a] = {}
      BY <2>3, <1>1
    <3> QED
      BY <3>1, <2>1 DEF Settled
  <2> QED
    BY <2>2, <2>3
<1>8. a \in calm' => Stage(task[h], a)'
  BY <1>3, <1>7 DEF Stage
<1>9. \A b \in Anchors : b = a \/ Same(b)
  BY <1>1, <1>6 DEF Same
<1>10. /\ sent' \in Ids /\ sent <= sent' /\ pending' \in 0..sent'
       /\ stored' \in [Anchors -> 0..sent'] /\ menus' \in [Anchors -> SUBSET (1..sent')]
       /\ prompts' \subseteq 1..sent' /\ kept' \subseteq 1..sent' /\ due' \subseteq Anchors
  BY <1>1, <1>6, KnownTypes
<1>11. task'[h] # Idle
  BY <1>3 DEF Tasks, Idle
<1>12. Leaves(h)
  BY <1>0, <1>1, <1>2, <1>3, <1>4, <1>5, <1>6, <1>8, <1>9, <1>10, <1>11 DEF Leaves
<1> QED
  BY <1>2, <1>12, LeavesPreserves

\* If None is stored there is no menu to be edited, as ids are of messages.
LEMMA ReadPreserves == ASSUME IInv, NEW h \in Handlers, Read(h) PROVE IInv'
<1>0. PICK a : a = Mine(h)
  OBVIOUS
<1>1. /\ task[h].pc = "read"
      /\ Holds(h, stored[a], IF stored[a] = None THEN "send" ELSE "edit")
      /\ UNCHANGED <<stored, pending, sent, menus, prompts, calm, due, otherVars, kept>>
  BY <1>0 DEF Read, chatVars, worldVars, IsAt
<1>2. /\ Shape(task[h]) /\ task[h].op \in OnAnchor /\ a \in Anchors
      /\ a \in calm => Stage(task[h], a)
      /\ task[h].pc # "idle" /\ task[h].pc \notin {"idle", "wait"}
      /\ stored[a] \in 0..sent /\ stored[a] \in Ids
  BY <1>0, <1>1, OnMenu, KnownTypes
<1>3. PICK p \in {"send", "edit"} : /\ p = IF stored[a] = None THEN "send" ELSE "edit"
                                    /\ Holds(h, stored[a], p)
  BY <1>1
<1>4. /\ task' \in [Handlers -> Tasks \cup {Idle}]
      /\ \A g \in Handlers \ {h} : task'[g] = task[g]
      /\ task'[h] \in Tasks /\ task'[h].pc = p /\ task'[h].id = stored[a]
      /\ task'[h].op = task[h].op /\ task'[h].chat = task[h].chat
  <2>1. p \in Steps
    BY DEF Steps
  <2> QED
    BY <1>2, <1>3, <2>1, Holding
<1>5. PromptsAreTimed'
  BY <1>1, <1>2, <1>4, PromptsKept
<1>6. Shape(task[h])'
  BY <1>1, <1>2, <1>3, <1>4 DEF Shape
<1>7. a \in calm => Stage(task'[h], a)
  <2> SUFFICES ASSUME a \in calm
               PROVE  Stage(task'[h], a)
    OBVIOUS
  <2>1. Settled(a) /\ menus[a] \subseteq 1..sent
    BY <1>1, <1>2, KnownTypes DEF Stage
  <2>2. stored[a] = None => menus[a] = {} /\ a \notin due
    BY <2>1 DEF Settled, None
  <2> QED
    BY <2>1, <2>2, <1>3, <1>4 DEF Stage
<1>8. Leaves(h)
  BY <1>0, <1>1, <1>4, <1>5, <1>6, <1>7, KnownTypes DEF Leaves, Same, Stage, Settled, Tasks, Steps, Idle
<1> QED
  BY <1>2, <1>8, LeavesPreserves

LEMMA EditPreserves == ASSUME IInv, NEW h \in Handlers, Edit(h) PROVE IInv'
<1>0. PICK a : a = Mine(h)
  OBVIOUS
<1>1. /\ task[h].pc = "edit" /\ task[h].id \in menus[a] /\ Ends(h)
      /\ due' = due \cup {a}
      /\ UNCHANGED <<stored, pending, sent, menus, prompts, calm, otherVars, kept>>
  BY <1>0 DEF Edit, chatVars, IsAt
<1>2. /\ task[h].op \in OnAnchor /\ a \in Anchors
      /\ a \in calm => Stage(task[h], a)
      /\ task[h].pc # "idle" /\ task[h].pc \notin {"idle", "wait"}
  BY <1>0, <1>1, OnMenu
<1>3. PromptsAreTimed'
  BY <1>1, <1>2, Ending, PromptsKept
<1>4. a \in calm => Settled(a) /\ a \in due
  BY <1>1, <1>2 DEF Stage, Settled
<1>5. Leaves(h)
  BY <1>0, <1>1, <1>2, <1>3, <1>4, Ending, KnownTypes DEF Leaves, Same, Settled
<1> QED
  BY <1>2, <1>5, LeavesPreserves

\* The edit of a menu that is there fails: the anchor is not calm any more.
LEMMA EditFailsPreserves == ASSUME IInv, NEW h \in Handlers, EditFails(h) PROVE IInv'
<1>0. PICK a : a = Mine(h)
  OBVIOUS
<1>1. /\ task[h].pc = "edit" /\ GoesOn(h, "send")
      /\ calm' = (IF task[h].id \in menus[a] THEN calm \ {a} ELSE calm)
      /\ UNCHANGED <<stored, pending, sent, menus, prompts, due, otherVars, kept>>
  BY <1>0 DEF EditFails, chatVars, IsAt
<1>2. /\ Shape(task[h]) /\ task[h].op \in OnAnchor /\ a \in Anchors
      /\ a \in calm => Stage(task[h], a)
      /\ task[h].pc # "idle" /\ task[h].pc \notin {"idle", "wait"}
  BY <1>0, <1>1, OnMenu
<1>3. /\ task' \in [Handlers -> Tasks \cup {Idle}]
      /\ \A g \in Handlers \ {h} : task'[g] = task[g]
      /\ task'[h] \in Tasks /\ task'[h].pc = "send" /\ task'[h].id = task[h].id
      /\ task'[h].op = task[h].op /\ task'[h].chat = task[h].chat
  <2>1. "send" \in Steps
    BY DEF Steps
  <2> QED
    BY <1>1, <1>2, <2>1, Going
<1>4. PromptsAreTimed'
  BY <1>1, <1>2, <1>3, PromptsKept
<1>5. Shape(task[h])'
  BY <1>1, <1>2, <1>3 DEF Shape
<1>6. a \in calm' => a \in calm /\ menus[a] = {} /\ a \notin due
  BY <1>1, <1>2 DEF Stage, Settled
<1>7. a \in calm' => Stage(task[h], a)'
  BY <1>1, <1>3, <1>6 DEF Stage
<1>8. calm' \subseteq calm /\ task'[h] # Idle
  BY <1>1, <1>3 DEF Tasks, Idle
<1>9. Leaves(h)
  BY <1>0, <1>1, <1>2, <1>3, <1>4, <1>5, <1>7, <1>8, KnownTypes DEF Leaves, Same
<1> QED
  BY <1>2, <1>9, LeavesPreserves

\* One message more: the types, with its id.
LEMMA OneMore ==
  ASSUME IInv, Sends
  PROVE  /\ sent' = sent + 1 /\ sent' \in Ids /\ sent' \in Nat /\ sent <= sent'
         /\ NewId = sent' /\ NewId \in 1..sent' /\ NewId \in 0..sent'
         /\ NewId \notin 0..sent /\ NewId \in Ids
         /\ 0..sent \subseteq 0..sent' /\ 1..sent \subseteq 1..sent'
         /\ stored \in [Anchors -> 0..sent'] /\ pending \in 0..sent'
         /\ menus \in [Anchors -> SUBSET (1..sent')]
         /\ prompts \subseteq 1..sent' /\ kept \subseteq 1..sent'
<1>1. sent \in Nat /\ sent < MaxMessages /\ MaxMessages \in Nat /\ sent' = sent + 1
  BY KnownTypes DEF Sends, NewId
<1>2. /\ sent' \in Ids /\ sent' \in Nat /\ sent <= sent'
      /\ NewId = sent' /\ NewId \in 1..sent' /\ NewId \in 0..sent'
      /\ NewId \notin 0..sent /\ NewId \in Ids
  BY <1>1 DEF NewId, Ids
<1>3. 0..sent \subseteq 0..sent' /\ 1..sent \subseteq 1..sent'
  BY <1>1
<1>4. /\ stored \in [Anchors -> 0..sent'] /\ pending \in 0..sent'
      /\ prompts \subseteq 1..sent' /\ kept \subseteq 1..sent'
  BY <1>3, KnownTypes
<1>5. menus \in [Anchors -> SUBSET (1..sent')]
  <2>1. SUBSET (1..sent) \subseteq SUBSET (1..sent')
    BY <1>3
  <2> QED
    BY <2>1, KnownTypes
<1> QED
  BY <1>1, <1>2, <1>3, <1>4, <1>5

\* A menu is sent where there is none, or the anchor is not calm.
LEMMA SendPreserves == ASSUME IInv, NEW h \in Handlers, Send(h) PROVE IInv'
<1>0. PICK a : a = Mine(h)
  OBVIOUS
<1>1. /\ task[h].pc = "send" /\ Sends /\ Holds(h, NewId, "store")
      /\ menus' = [menus EXCEPT ![a] = @ \cup {NewId}]
      /\ UNCHANGED <<stored, pending, prompts, calm, due, otherVars, kept>>
  BY <1>0 DEF Send, worldVars, IsAt
<1>2. /\ Shape(task[h]) /\ task[h].op \in OnAnchor /\ a \in Anchors
      /\ a \in calm => Stage(task[h], a)
      /\ task[h].pc # "idle" /\ task[h].pc \notin {"idle", "wait"}
  BY <1>0, <1>1, OnMenu
<1>3. /\ task' \in [Handlers -> Tasks \cup {Idle}]
      /\ \A g \in Handlers \ {h} : task'[g] = task[g]
      /\ task'[h] \in Tasks /\ task'[h].pc = "store" /\ task'[h].id = NewId
      /\ task'[h].op = task[h].op /\ task'[h].chat = task[h].chat
  <2>1. "store" \in Steps /\ NewId \in Ids
    BY <1>1, OneMore DEF Steps
  <2> QED
    BY <1>1, <1>2, <2>1, Holding
<1>4. PromptsAreTimed'
  BY <1>1, <1>2, <1>3, PromptsKept
<1>5. Shape(task[h])'
  BY <1>1, <1>2, <1>3, OneMore DEF Shape
<1>6. /\ menus' \in [Anchors -> SUBSET (1..sent')]
      /\ menus'[a] = menus[a] \cup {NewId}
      /\ \A b \in Anchors : b # a => menus'[b] = menus[b]
  BY <1>1, <1>2, OneMore
<1>7. a \in calm => Stage(task[h], a)'
  BY <1>1, <1>2, <1>3, <1>6 DEF Stage
<1>8. task'[h] # Idle
  BY <1>3 DEF Tasks, Idle
<1>9. calm' \subseteq calm /\ due' \subseteq Anchors
  BY <1>1, KnownTypes
<1>10. Leaves(h)
  BY <1>0, <1>1, <1>2, <1>3, <1>4, <1>5, <1>6, <1>7, <1>8, <1>9, OneMore DEF Leaves, Same
<1> QED
  BY <1>2, <1>10, LeavesPreserves

LEMMA SendLostPreserves == ASSUME IInv, NEW h \in Handlers, SendLost(h) PROVE IInv'
<1>0. PICK a : a = Mine(h)
  OBVIOUS
<1>1. /\ task[h].pc = "send" /\ Sends /\ Ends(h) /\ calm' = calm \ {a}
      /\ menus' = [menus EXCEPT ![a] = @ \cup {NewId}]
      /\ UNCHANGED <<stored, pending, prompts, due, otherVars, kept>>
  BY <1>0 DEF SendLost, Spoils, IsAt
<1>2. /\ task[h].op \in OnAnchor /\ a \in Anchors
      /\ task[h].pc # "idle" /\ task[h].pc \notin {"idle", "wait"}
  BY <1>0, <1>1, OnMenu
<1>3. PromptsAreTimed'
  BY <1>1, <1>2, Ending, PromptsKept
<1>4. /\ menus' \in [Anchors -> SUBSET (1..sent')]
      /\ \A b \in Anchors : b # a => menus'[b] = menus[b]
  BY <1>1, <1>2, OneMore
<1>5. calm' \subseteq calm /\ due' \subseteq Anchors /\ a \notin calm'
  BY <1>1, KnownTypes
<1>6. Leaves(h)
  BY <1>0, <1>1, <1>2, <1>3, <1>4, <1>5, Ending, OneMore DEF Leaves, Same
<1> QED
  BY <1>2, <1>6, LeavesPreserves

\* What is stored is the id of the one menu that is there.
LEMMA StorePreserves == ASSUME IInv, NEW h \in Handlers, Store(h) PROVE IInv'
<1>0. PICK a : a = Mine(h)
  OBVIOUS
<1>1. /\ task[h].pc = "store" /\ Ends(h)
      /\ stored' = Put(Found(task[h].chat), a[2], task[h].id)
      /\ due' = (IF task[h].id \in menus[a] THEN due \cup {a} ELSE due)
      /\ UNCHANGED <<pending, sent, menus, prompts, calm, otherVars, kept>>
  BY <1>0 DEF Store, chatVars, IsAt
<1>2. /\ Shape(task[h]) /\ task[h].op \in OnAnchor /\ a \in Anchors
      /\ a = <<task[h].chat, a[2]>> /\ task[h].chat \in Chats /\ a[2] \in {"main", "admin"}
      /\ a \in calm => Stage(task[h], a)
      /\ task[h].pc # "idle" /\ task[h].pc \notin {"idle", "wait"}
  BY <1>0, <1>1, OnMenu
<1>3. PromptsAreTimed'
  BY <1>1, <1>2, Ending, PromptsKept
<1>4. /\ stored' \in [Anchors -> 0..sent'] /\ stored'[a] = task[h].id
      /\ \A b \in Anchors : b # a => stored'[b] = stored[b]
  <2>1. task[h].id \in 0..sent' /\ 0..sent \subseteq 0..sent'
    BY <1>1, <1>2 DEF Shape
  <2> QED
    BY <1>1, <1>2, <2>1, PutOne
<1>5. a \in calm => Settled(a)'
  <2> SUFFICES ASSUME a \in calm
               PROVE  menus[a] = IF a \in due' THEN {task[h].id} ELSE {}
    BY <1>1, <1>4 DEF Settled
  <2>1. menus[a] \subseteq {task[h].id} /\ a \notin due
    BY <1>1, <1>2 DEF Stage
  <2> QED
    BY <1>1, <2>1
<1>6. due' \subseteq Anchors
  BY <1>1, <1>2, KnownTypes
<1>7. Leaves(h)
  BY <1>0, <1>1, <1>2, <1>3, <1>4, <1>5, <1>6, Ending, KnownTypes DEF Leaves, Same
<1> QED
  BY <1>2, <1>7, LeavesPreserves

LEMMA StoreFailsPreserves == ASSUME IInv, NEW h \in Handlers, StoreFails(h) PROVE IInv'
<1>0. PICK a : a = Mine(h)
  OBVIOUS
<1>1. /\ task[h].pc = "store" /\ Ends(h) /\ calm' = calm \ {a}
      /\ UNCHANGED <<stored, pending, sent, menus, prompts, due, otherVars, kept>>
  BY <1>0 DEF StoreFails, Spoils, chatVars, IsAt
<1>2. /\ task[h].op \in OnAnchor
      /\ task[h].pc # "idle" /\ task[h].pc \notin {"idle", "wait"}
  BY <1>1, OnMenu
<1>3. PromptsAreTimed'
  BY <1>1, <1>2, Ending, PromptsKept
<1>4. calm' \subseteq calm /\ a \notin calm'
  BY <1>1
<1>5. Leaves(h)
  BY <1>0, <1>1, <1>2, <1>3, <1>4, Ending, KnownTypes DEF Leaves, Same
<1> QED
  BY <1>2, <1>5, LeavesPreserves

-----------------------------------------------------------------------------
\* A handler of the picker works on no menu.
LEMMA OffMenu ==
  ASSUME IInv, NEW h \in Handlers,
         task[h].pc \in {"add", "wait", "remember", "shared", "added", "pop"}
  PROVE  /\ Shape(task[h]) /\ task[h] \in Tasks /\ task[h].op \notin OnAnchor
         /\ task[h].pc # "idle"
BY AtAStep DEF IInv, Shape

LEMMA PromptPreserves == ASSUME IInv, NEW h \in Handlers, Prompt(h) PROVE IInv'
<1>1. /\ task[h].pc = "add" /\ Sends /\ Holds(h, NewId, "wait")
      /\ prompts' = prompts \cup {NewId}
      /\ UNCHANGED <<stored, pending, menus, calm, due, otherVars, kept>>
  BY DEF Prompt, worldVars, IsAt
<1>2. Shape(task[h]) /\ task[h].op \notin OnAnchor /\ task[h].pc # "idle"
  BY <1>1, OffMenu
<1>3. /\ task' \in [Handlers -> Tasks \cup {Idle}]
      /\ \A g \in Handlers \ {h} : task'[g] = task[g]
      /\ task'[h] \in Tasks /\ task'[h].pc = "wait" /\ task'[h].id = NewId
      /\ task'[h].op = task[h].op /\ task'[h].chat = task[h].chat
  <2>1. "wait" \in Steps /\ NewId \in Ids
    BY <1>1, OneMore DEF Steps
  <2> QED
    BY <1>1, <1>2, <2>1, Holding
<1>4. Shape(task[h])'
  BY <1>1, <1>2, <1>3, OneMore DEF Shape
<1>5. PromptsAreTimed'
  <2>1. ASSUME NEW p \in prompts' \ kept'
        PROVE  \E g \in Handlers : task'[g].pc = "wait" /\ task'[g].id = p
    <3>1. CASE p = NewId
      BY <3>1, <1>1, <1>3, OneMore, KnownTypes
    <3>2. CASE p \in prompts
      BY <3>2, <2>1, <1>1, <1>3 DEF IInv, PromptsAreTimed, IsAt
    <3> QED
      BY <3>1, <3>2, <1>1
  <2> QED
    BY <2>1 DEF PromptsAreTimed, IsAt
<1>6. prompts' \subseteq 1..sent' /\ calm' \subseteq calm /\ due' \subseteq Anchors
  BY <1>1, OneMore, KnownTypes
<1>7. Leaves(h)
  BY <1>1, <1>2, <1>3, <1>4, <1>5, <1>6, OneMore DEF Leaves, Same
<1> QED
  BY <1>2, <1>7, LeavesPreserves

LEMMA PromptLostPreserves == ASSUME IInv, NEW h \in Handlers, PromptLost(h) PROVE IInv'
<1>1. /\ task[h].pc = "add" /\ Sends /\ Ends(h)
      /\ prompts' = prompts \cup {NewId} /\ kept' = kept \cup {NewId}
      /\ UNCHANGED <<stored, pending, menus, otherVars, calm, due>>
  BY DEF PromptLost, IsAt
<1>2. Shape(task[h]) /\ task[h].op \notin OnAnchor /\ task[h].pc # "idle"
  BY <1>1, OffMenu
<1>3. PromptsAreTimed'
  BY <1>1, Ending DEF IInv, PromptsAreTimed, IsAt
<1>4. /\ prompts' \subseteq 1..sent' /\ kept' \subseteq 1..sent'
      /\ calm' \subseteq calm /\ due' \subseteq Anchors
  BY <1>1, OneMore, KnownTypes
<1>5. Leaves(h)
  BY <1>1, <1>2, <1>3, <1>4, Ending, OneMore DEF Leaves, Same
<1> QED
  BY <1>2, <1>5, LeavesPreserves

\* Two minutes later the prompt is gone, or will never be.
LEMMA CleanUpPreserves == ASSUME IInv, NEW h \in Handlers, CleanUp(h) PROVE IInv'
<1>1. /\ task[h].pc = "wait" /\ GoesOn(h, "remember")
      /\ \/ prompts' = prompts \ {task[h].id} /\ kept' = kept
         \/ kept' = kept \cup {task[h].id} /\ prompts' = prompts
      /\ UNCHANGED <<stored, pending, sent, menus, calm, otherVars, due>>
  BY DEF CleanUp, IsAt
<1>2. Shape(task[h]) /\ task[h].op \notin OnAnchor /\ task[h].pc # "idle"
  BY <1>1, OffMenu
<1>3. /\ task' \in [Handlers -> Tasks \cup {Idle}]
      /\ \A g \in Handlers \ {h} : task'[g] = task[g]
      /\ task'[h] \in Tasks /\ task'[h].pc = "remember" /\ task'[h].id = task[h].id
      /\ task'[h].op = task[h].op /\ task'[h].chat = task[h].chat
  <2>1. "remember" \in Steps
    BY DEF Steps
  <2> QED
    BY <1>1, <1>2, <2>1, Going
<1>4. Shape(task[h])'
  BY <1>1, <1>2, <1>3 DEF Shape
<1>5. prompts' \ kept' = (prompts \ kept) \ {task[h].id}
  BY <1>1
<1>6. PromptsAreTimed'
  BY <1>1, <1>3, <1>5 DEF IInv, PromptsAreTimed, IsAt
<1>7. kept' \subseteq 1..sent' /\ prompts' \subseteq 1..sent'
  <2>1. task[h].id \in 1..sent
    BY <1>1, <1>2 DEF Shape
  <2> QED
    BY <2>1, <1>1, KnownTypes
<1>8. Leaves(h)
  BY <1>1, <1>2, <1>3, <1>4, <1>6, <1>7, KnownTypes DEF Leaves, Same
<1> QED
  BY <1>2, <1>8, LeavesPreserves

LEMMA RememberPreserves == ASSUME IInv, NEW h \in Handlers, Remember(h) PROVE IInv'
<1>1. /\ task[h].pc = "remember" /\ Ends(h) /\ pending' = task[h].id
      /\ UNCHANGED <<stored, sent, menus, prompts, calm, due, otherVars, kept>>
  BY DEF Remember, chatVars, worldVars, IsAt
<1>2. Shape(task[h]) /\ task[h].op \notin OnAnchor /\ task[h].pc # "idle"
  BY <1>1, OffMenu
<1>3. PromptsAreTimed'
  BY <1>1, Ending DEF IInv, PromptsAreTimed, IsAt
<1>4. pending' \in 0..sent'
  BY <1>1, <1>2 DEF Shape
<1>5. Leaves(h)
  BY <1>1, <1>2, <1>3, <1>4, Ending, KnownTypes DEF Leaves, Same
<1> QED
  BY <1>2, <1>5, LeavesPreserves

\* The admin menu of the chat is not found, and stays.
LEMMA SharedPreserves == ASSUME IInv, NEW h \in Handlers, Shared(h) PROVE IInv'
<1>1. /\ task[h].pc = "shared" /\ GoesOn(h, "added")
      /\ stored' = Put(WithRow(task[h].chat), "admin", None)
      /\ menus' = [menus EXCEPT ![<<task[h].chat, "admin">>] =
                     @ \ {stored[<<c, "admin">>] : c \in WithRow(task[h].chat)}]
      /\ UNCHANGED <<pending, sent, prompts, calm, due, otherVars, kept>>
  BY DEF Shared, worldVars, IsAt
<1>2. /\ Shape(task[h]) /\ task[h] \in Tasks /\ task[h].op \notin OnAnchor
      /\ task[h].pc # "idle" /\ task[h].pc \notin {"idle", "wait"}
  BY <1>1, OffMenu
<1>3. WithRow(task[h].chat) = {}
  BY <1>2, FoundByChat DEF Tasks
<1>4. stored' = stored /\ menus' = menus
  <2>1. stored' = [a \in Anchors |-> stored[a]]
    BY <1>1, <1>3 DEF Put
  <2>2. {stored[<<c, "admin">>] : c \in WithRow(task[h].chat)} = {}
    BY <1>3
  <2> QED
    BY <1>1, <2>1, <2>2, KnownTypes
<1>5. /\ task' \in [Handlers -> Tasks \cup {Idle}]
      /\ \A g \in Handlers \ {h} : task'[g] = task[g]
      /\ task'[h] \in Tasks /\ task'[h].pc = "added" /\ task'[h].id = task[h].id
      /\ task'[h].op = task[h].op /\ task'[h].chat = task[h].chat
  <2>1. "added" \in Steps
    BY DEF Steps
  <2> QED
    BY <1>1, <1>2, <2>1, Going
<1>6. PromptsAreTimed'
  BY <1>1, <1>2, <1>5, PromptsKept
<1>7. Shape(task[h])'
  BY <1>1, <1>2, <1>5 DEF Shape
<1>8. Leaves(h)
  BY <1>1, <1>2, <1>4, <1>5, <1>6, <1>7, KnownTypes DEF Leaves, Same
<1> QED
  BY <1>2, <1>8, LeavesPreserves

\* A message with a Back button is one more.
LEMMA GivesOthers ==
  ASSUME IInv, NEW a \in Anchors, Gives(a)
  PROVE  /\ Sends /\ OthersInv'
         /\ UNCHANGED <<stored, pending, menus, prompts, calm, due, kept>>
<1>1. /\ Sends /\ others' = [others EXCEPT ![a] = @ \cup {NewId}] /\ turned' = turned
      /\ UNCHANGED <<stored, pending, menus, prompts, calm, due, kept>>
  BY DEF Gives, worldVars
<1>2. SUBSET (1..sent) \subseteq SUBSET (1..sent') /\ NewId \in 1..sent'
  BY <1>1, OneMore
<1> QED
  BY <1>1, <1>2, KnownTypes DEF OthersInv

LEMMA AddedPreserves ==
  ASSUME IInv, NEW h \in Handlers, Added(h) \/ AddedLost(h)
  PROVE  IInv'
<1>1. /\ task[h].pc = "added" /\ Gives(<<task[h].chat, "admin">>)
      /\ GoesOn(h, "pop") \/ Ends(h)
  BY DEF Added, AddedLost, IsAt
<1>2. /\ Shape(task[h]) /\ task[h] \in Tasks /\ task[h].op \notin OnAnchor
      /\ task[h].pc # "idle" /\ task[h].pc \notin {"idle", "wait"}
  BY <1>1, OffMenu
<1>3. <<task[h].chat, "admin">> \in Anchors
  BY <1>2 DEF Tasks, Anchors
<1>4. /\ Sends /\ OthersInv'
      /\ UNCHANGED <<stored, pending, menus, prompts, calm, due, kept>>
  BY <1>1, <1>3, GivesOthers
<1>5. /\ task' \in [Handlers -> Tasks \cup {Idle}]
      /\ \A g \in Handlers \ {h} : task'[g] = task[g]
      /\ \/ task'[h] = Idle
         \/ /\ task'[h] \in Tasks /\ task'[h].pc = "pop" /\ task'[h].id = task[h].id
            /\ task'[h].op = task[h].op /\ task'[h].chat = task[h].chat
  <2>1. "pop" \in Steps
    BY DEF Steps
  <2> QED
    BY <1>1, <1>2, <2>1, Going, Ending
<1>6. PromptsAreTimed'
  BY <1>2, <1>4, <1>5, PromptsKept
<1>7. task'[h] # Idle => Shape(task[h])'
  BY <1>2, <1>4, <1>5, OneMore DEF Shape
<1>8. calm' \subseteq calm /\ due' \subseteq Anchors
  BY <1>4, KnownTypes
<1>9. Leaves(h)
  BY <1>2, <1>4, <1>5, <1>6, <1>7, <1>8, OneMore DEF Leaves, Same
<1> QED
  BY <1>2, <1>9, LeavesPreserves

LEMMA PopPreserves == ASSUME IInv, NEW h \in Handlers, Pop(h) PROVE IInv'
<1>1. /\ task[h].pc = "pop" /\ Ends(h) /\ pending' = None
      /\ prompts' \subseteq prompts /\ kept \subseteq kept'
      /\ kept' \subseteq kept \cup prompts
      /\ UNCHANGED <<stored, sent, menus, otherVars, calm, due>>
  BY DEF Pop, IsAt
<1>2. Shape(task[h]) /\ task[h].op \notin OnAnchor /\ task[h].pc # "idle"
  BY <1>1, OffMenu
<1>3. PromptsAreTimed'
  BY <1>1, Ending DEF IInv, PromptsAreTimed, IsAt
<1>4. pending' \in 0..sent' /\ prompts' \subseteq 1..sent' /\ kept' \subseteq 1..sent'
  BY <1>1, KnownTypes DEF None
<1>5. Leaves(h)
  BY <1>1, <1>2, <1>3, <1>4, Ending, KnownTypes DEF Leaves, Same
<1> QED
  BY <1>2, <1>5, LeavesPreserves

\* What happens to messages with a Back button is nothing to the anchors.
LEMMA OthersPreserve ==
  ASSUME IInv, OthersInv', sent' \in Ids, sent <= sent',
         UNCHANGED <<stored, pending, task, menus, prompts, calm, due, kept>>
  PROVE  IInv'
<1>1. /\ 0..sent \subseteq 0..sent' /\ 1..sent \subseteq 1..sent'
      /\ SUBSET (1..sent) \subseteq SUBSET (1..sent')
  BY KnownTypes DEF Ids
<1>2. /\ menus' \in [Anchors -> SUBSET (1..sent')]
      /\ prompts' \subseteq 1..sent' /\ kept' \subseteq 1..sent'
  BY <1>1, KnownTypes
<1>3. TypeOK'
  BY <1>2 DEF IInv, TypeOK, OthersInv
<1>4. KnownInv'
  BY <1>1 DEF IInv, KnownInv, Shape
<1>5. CalmInv' /\ PromptsAreTimed'
  BY DEF IInv, CalmInv, PromptsAreTimed, AtWork, Busy, IsAt
<1>6. StageInv'
  <2>1. UNCHANGED StageInv
    BY DEF StageInv, Stage, Settled, AtWork, Busy, IsAt
  <2> QED
    BY <2>1 DEF IInv
<1> QED
  BY <1>3, <1>4, <1>5, <1>6 DEF IInv

LEMMA ListAlertsPreserves == ASSUME IInv, NEW c \in Chats, ListAlerts(c) PROVE IInv'
<1>1. <<c, "main">> \in Anchors /\ Gives(<<c, "main">>) /\ task' = task
  BY DEF Anchors, ListAlerts
<1> QED
  BY <1>1, GivesOthers, OneMore, OthersPreserve

LEMMA BackPreserves ==
  ASSUME IInv, NEW a \in Anchors, NEW id \in others[a] \cup turned[a],
         Back(a, id) \/ DeletesTurned(a, id)
  PROVE  IInv'
<1>1. UNCHANGED <<stored, pending, task, sent, menus, prompts, calm, due, kept>>
  BY DEF Back, DeletesTurned, worldVars
<1>2. \/ /\ others' = [others EXCEPT ![a] = @ \ {id}]
         /\ turned' = [turned EXCEPT ![a] = @ \cup {id}]
      \/ others' = others /\ turned' = [turned EXCEPT ![a] = @ \ {id}]
  BY DEF Back, DeletesTurned
<1>3. id \in 1..sent /\ OthersInv
  BY KnownTypes DEF OthersInv
<1>4. OthersInv'
  BY <1>1, <1>2, <1>3 DEF OthersInv
<1> QED
  BY <1>1, <1>4, KnownTypes, OthersPreserve

-----------------------------------------------------------------------------
\* A second handler of an anchor ends its calm; the first finds it settled.
LEMMA ArrivesPreserves ==
  ASSUME IInv, NEW h \in Handlers, NEW op \in OnAnchor \cup {"add", "shared"},
         NEW c \in Chats, Arrives(h, op, c)
  PROVE  IInv'
<1> DEFINE t == [pc |-> Entry(op), op |-> op, chat |-> c, id |-> None]
<1>0. PICK x : x = Anchor(op, c)
  OBVIOUS
<1>1. /\ task[h].pc = "idle" /\ task' = [task EXCEPT ![h] = t]
      /\ calm' = (IF op \in OnAnchor /\ AtWork(x) # {} THEN calm \ {x} ELSE calm)
      /\ UNCHANGED <<stored, pending, sent, menus, prompts, due, otherVars, kept>>
  BY <1>0 DEF Arrives, chatVars, IsAt
<1>2. /\ op = "restart" => Entry(op) = "look"
      /\ op \in OnAnchor /\ op # "restart" => Entry(op) = "read"
      /\ op \notin OnAnchor => Entry(op) = op /\ op \in {"add", "shared"}
  BY DEF Entry, OnAnchor
<1>3. t \in Tasks /\ t # Idle /\ Entry(op) \in {"look", "read", "add", "shared"}
  <2>1. Entry(op) \in {"look", "read", "add", "shared"}
    BY <1>2
  <2>2. Entry(op) \in Steps /\ None \in Ids
    BY <2>1, ChatsAssumption DEF Steps, None, Ids
  <2> QED
    BY <2>1, <2>2 DEF Tasks, Idle
<1>4. /\ task' \in [Handlers -> Tasks \cup {Idle}] /\ task \in [Handlers -> Tasks \cup {Idle}]
      /\ task'[h] = t /\ \A g \in Handlers \ {h} : task'[g] = task[g]
  BY <1>1, <1>3 DEF IInv, TypeOK
<1>5. task[h] = Idle
  <2>1. task[h] \in Tasks => task[h].pc # "idle"
    BY DEF Tasks, Steps
  <2> QED
    BY <2>1, <1>1, <1>4
<1>6. TypeOK'
  BY <1>1, <1>4 DEF IInv, TypeOK, otherVars
<1>7. Shape(t)
  <2>1. "restart" \in OnAnchor
    BY DEF OnAnchor
  <2> QED
    BY <1>2, <1>3, <2>1, KnownTypes DEF Shape, None
<1>8. KnownInv'
  <2>1. ASSUME NEW g \in Handlers, task'[g] # Idle
        PROVE  Shape(task[g])'
    <3>1. CASE g = h
      BY <3>1, <1>1, <1>4, <1>7 DEF Shape
    <3>2. CASE g # h
      BY <3>2, <2>1, <1>1, <1>4 DEF Shape, IInv, KnownInv
    <3> QED
      BY <3>1, <3>2
  <2> QED
    BY <2>1, <1>1 DEF IInv, KnownInv
<1>9. PromptsAreTimed'
  BY <1>1, <1>3, <1>4 DEF IInv, PromptsAreTimed, IsAt
<1>10. \A a : h \notin AtWork(a)
  BY <1>5 DEF AtWork, Busy, IsAt, Idle
<1>11. /\ \A a : \A g \in AtWork(a)' : g # h => g \in AtWork(a)
       /\ \A a : h \in AtWork(a)' => op \in OnAnchor /\ a = x
       /\ \A a : \A g \in AtWork(a) : g \in AtWork(a)'
  BY <1>0, <1>4, <1>10 DEF AtWork, Busy, IsAt
<1>12. \A a \in calm' : a \in calm /\ (h \in AtWork(a)' => AtWork(a) = {})
  BY <1>1, <1>11
<1>13. CalmInv'
  BY <1>11, <1>12 DEF IInv, CalmInv
<1>14. StageInv'
  <2> SUFFICES ASSUME NEW a \in calm'
               PROVE  /\ AtWork(a)' = {} => Settled(a)'
                      /\ \A g \in AtWork(a)' : Stage(task[g], a)'
    BY DEF StageInv
  <2>1. Settled(a)' <=> Settled(a)
    BY <1>1 DEF Settled
  <2>2. AtWork(a)' = {} => Settled(a)'
    BY <2>1, <1>11, <1>12 DEF IInv, StageInv
  <2>3. ASSUME NEW g \in AtWork(a)'
        PROVE  Stage(task[g], a)'
    <3>1. CASE g = h
      <4>1. Settled(a)
        BY <2>3, <3>1, <1>12 DEF IInv, StageInv
      <4>2. task'[g].pc \in {"look", "read", "add", "shared"}
        BY <3>1, <1>3, <1>4
      <4> QED
        BY <4>1, <4>2, <2>1 DEF Stage
    <3>2. CASE g # h
      <4>1. g \in AtWork(a) /\ task'[g] = task[g]
        BY <2>3, <3>2, <1>4, <1>11 DEF AtWork, Busy
      <4>2. Stage(task[g], a)
        BY <4>1, <1>12 DEF IInv, StageInv
      <4> QED
        BY <4>1, <4>2, <2>1, <1>1 DEF Stage
    <3> QED
      BY <3>1, <3>2
  <2> QED
    BY <2>2, <2>3
<1> QED
  BY <1>6, <1>8, <1>9, <1>13, <1>14 DEF IInv

\* Somebody deletes the one menu there is.
LEMMA DeletesPreserves ==
  ASSUME IInv, NEW a \in Anchors, NEW id \in menus[a], Deletes(a, id)
  PROVE  IInv'
<1>1. /\ menus' = [menus EXCEPT ![a] = @ \ {id}] /\ due' = due \ {a}
      /\ UNCHANGED <<stored, pending, task, sent, prompts, calm, otherVars, kept>>
  BY DEF Deletes
<1>2. /\ menus' \in [Anchors -> SUBSET (1..sent)] /\ menus'[a] = menus[a] \ {id}
      /\ \A b \in Anchors : b # a => menus'[b] = menus[b]
  BY <1>1, KnownTypes
<1>3. TypeOK' /\ KnownInv' /\ CalmInv' /\ PromptsAreTimed'
  BY <1>1, <1>2 DEF IInv, TypeOK, KnownInv, Shape, CalmInv, PromptsAreTimed,
                    AtWork, Busy, IsAt, otherVars
<1>4. ASSUME NEW b \in Anchors
      PROVE  Settled(b) => Settled(b)'
  BY <1>1, <1>2, <1>4 DEF Settled
<1>5. StageInv'
  <2> SUFFICES ASSUME NEW b \in calm
               PROVE  /\ AtWork(b) = {} => Settled(b)'
                      /\ \A g \in AtWork(b) : Stage(task[g], b)'
    BY <1>1 DEF StageInv, AtWork, Busy, IsAt
  <2>1. b \in Anchors
    BY KnownTypes
  <2>2. AtWork(b) = {} => Settled(b)'
    BY <2>1, <1>4 DEF IInv, StageInv
  <2>3. ASSUME NEW g \in AtWork(b)
        PROVE  Stage(task[g], b)'
    <3>1. Stage(task[g], b)
      BY DEF IInv, StageInv
    <3>2. menus'[b] \subseteq menus[b] /\ due' \subseteq due
      BY <2>1, <1>1, <1>2
    <3> QED
      BY <3>1, <3>2, <2>1, <1>1, <1>4 DEF Stage
  <2> QED
    BY <2>2, <2>3
<1> QED
  BY <1>3, <1>5 DEF IInv

\* Where a handler was cut off before it could store what it had sent, the anchor
\* is not calm; every other is settled.
LEMMA RestartPreserves == ASSUME IInv, Restart PROVE IInv'
<1>1. /\ task' = [h \in Handlers |-> Idle] /\ pending' = None
      /\ calm' = calm \ {Mine(h) : h \in {g \in Busy : IsAt(g, "store")}}
      /\ kept' = kept \cup {task[h].id : h \in {g \in Busy : IsAt(g, "wait")}}
      /\ UNCHANGED <<stored, sent, menus, prompts, otherVars, due>>
  BY DEF Restart, chatVars
<1>2. \A a : AtWork(a)' = {}
  BY <1>1 DEF AtWork, Busy, IsAt, Idle
<1>3. kept' \subseteq 1..sent
  <2>1. ASSUME NEW h \in {g \in Busy : IsAt(g, "wait")}
        PROVE  task[h].id \in 1..sent
    BY <2>1, OffMenu DEF Busy, IsAt, Shape
  <2> QED
    BY <2>1, <1>1, KnownTypes
<1>4. TypeOK' /\ KnownInv' /\ CalmInv'
  <2>1. pending' \in 0..sent /\ pending' \in Ids
    BY <1>1, KnownTypes DEF None
  <2>2. /\ TypeOK'
        /\ CalmInv'
    BY <1>1, <1>2, <1>3, <2>1 DEF IInv, TypeOK, CalmInv, otherVars
  <2> QED
    BY <1>1, <2>1, <2>2 DEF IInv, KnownInv
<1>5. PromptsAreTimed'
  <2>1. prompts' \ kept' = {}
    BY <1>1 DEF IInv, PromptsAreTimed, Busy, IsAt
  <2> QED
    BY <2>1 DEF PromptsAreTimed
<1>6. StageInv'
  <2> SUFFICES ASSUME NEW a \in calm'
               PROVE  Settled(a)
    BY <1>1, <1>2 DEF StageInv, Settled
  <2>1. a \in calm
    BY <1>1
  <2>2. CASE AtWork(a) = {}
    BY <2>1, <2>2 DEF IInv, StageInv
  <2>3. CASE \E h : h \in AtWork(a)
    <3>1. PICK h \in AtWork(a) : TRUE
      BY <2>3
    <3>2. Stage(task[h], a) /\ h \in Busy /\ a = Mine(h)
      BY <2>1, <3>1 DEF IInv, StageInv, AtWork, Mine
    <3>3. task[h].pc # "store"
      BY <3>2, <1>1 DEF IsAt
    <3> QED
      BY <3>2, <3>3 DEF Stage, Settled
  <2> QED
    BY <2>2, <2>3
<1> QED
  BY <1>4, <1>5, <1>6 DEF IInv

-----------------------------------------------------------------------------
LEMMA IInvHolds == Spec => []IInv
<1>1. ASSUME IInv, [Next]_vars
      PROVE  IInv'
  <2>1. CASE UNCHANGED vars
    <3>1. UNCHANGED <<stored, pending, task, sent, menus, prompts, calm, due, otherVars, kept>>
      BY <2>1 DEF vars, chatVars, worldVars
    <3>2. UNCHANGED <<TypeOK, KnownInv, CalmInv, PromptsAreTimed>>
      BY <3>1 DEF TypeOK, KnownInv, Shape, CalmInv, PromptsAreTimed, AtWork,
                  Busy, IsAt, otherVars
    <3>3. UNCHANGED StageInv
      BY <3>1 DEF StageInv, Stage, Settled, AtWork, Busy, IsAt
    <3> QED
      BY <3>2, <3>3, <1>1 DEF IInv
  <2>2. CASE Restart
    BY <2>2, <1>1, RestartPreserves
  <2>3. CASE \E a \in Anchors : \E id \in menus[a] : Deletes(a, id)
    BY <2>3, <1>1, DeletesPreserves
  <2>4. CASE \/ \E a \in Anchors : \E id \in turned[a] : DeletesTurned(a, id)
             \/ \E a \in Anchors : \E id \in others[a] : Back(a, id)
    BY <2>4, <1>1, BackPreserves
  <2>5. CASE \E c \in Chats : ListAlerts(c)
    BY <2>5, <1>1, ListAlertsPreserves
  <2>6. CASE \E h \in Handlers :
               \/ \E op \in OnAnchor \cup {"add", "shared"}, c \in Chats : Arrives(h, op, c)
               \/ LookUp(h) \/ Clear(h)    \/ Read(h)       \/ Edit(h)  \/ EditFails(h)
               \/ Send(h)   \/ SendLost(h) \/ Store(h)      \/ StoreFails(h)
               \/ Prompt(h) \/ PromptLost(h) \/ CleanUp(h)   \/ Remember(h)
               \/ Shared(h) \/ Added(h)      \/ AddedLost(h) \/ Pop(h) \/ Fails(h)
    <3>1. PICK h \in Handlers :
               \/ \E op \in OnAnchor \cup {"add", "shared"}, c \in Chats : Arrives(h, op, c)
               \/ LookUp(h) \/ Clear(h)    \/ Read(h)       \/ Edit(h)  \/ EditFails(h)
               \/ Send(h)   \/ SendLost(h) \/ Store(h)      \/ StoreFails(h)
               \/ Prompt(h) \/ PromptLost(h) \/ CleanUp(h)   \/ Remember(h)
               \/ Shared(h) \/ Added(h)      \/ AddedLost(h) \/ Pop(h) \/ Fails(h)
      BY <2>6
    <3>2. CASE \E op \in OnAnchor \cup {"add", "shared"}, c \in Chats : Arrives(h, op, c)
      BY <3>2, <1>1, ArrivesPreserves
    <3>3. CASE LookUp(h)
      BY <3>3, <1>1, LookUpPreserves
    <3>4. CASE Clear(h)
      BY <3>4, <1>1, ClearPreserves
    <3>5. CASE Read(h)
      BY <3>5, <1>1, ReadPreserves
    <3>6. CASE Edit(h)
      BY <3>6, <1>1, EditPreserves
    <3>7. CASE EditFails(h)
      BY <3>7, <1>1, EditFailsPreserves
    <3>8. CASE Send(h)
      BY <3>8, <1>1, SendPreserves
    <3>9. CASE SendLost(h)
      BY <3>9, <1>1, SendLostPreserves
    <3>10. CASE Store(h)
      BY <3>10, <1>1, StorePreserves
    <3>11. CASE StoreFails(h)
      BY <3>11, <1>1, StoreFailsPreserves
    <3>12. CASE Prompt(h)
      BY <3>12, <1>1, PromptPreserves
    <3>13. CASE PromptLost(h)
      BY <3>13, <1>1, PromptLostPreserves
    <3>14. CASE CleanUp(h)
      BY <3>14, <1>1, CleanUpPreserves
    <3>15. CASE Remember(h)
      BY <3>15, <1>1, RememberPreserves
    <3>16. CASE Shared(h)
      BY <3>16, <1>1, SharedPreserves
    <3>17. CASE Added(h) \/ AddedLost(h)
      BY <3>17, <1>1, AddedPreserves
    <3>18. CASE Pop(h)
      BY <3>18, <1>1, PopPreserves
    <3>19. CASE Fails(h)
      BY <3>19, <1>1, FailsPreserves
    <3> QED
      BY <3>1, <3>2, <3>3, <3>4, <3>5, <3>6, <3>7, <3>8, <3>9, <3>10, <3>11, <3>12,
         <3>13, <3>14, <3>15, <3>16, <3>17, <3>18, <3>19
  <2> QED
    BY <1>1, <2>1, <2>2, <2>3, <2>4, <2>5, <2>6 DEF Next
<1> QED
  BY InitIInv, <1>1, PTL DEF Spec

\* The variables keep their types.
THEOREM TypeCorrect == Spec => []TypeOK
<1>1. IInv => TypeOK
  BY DEF IInv
<1> QED
  BY <1>1, IInvHolds, PTL

\* As long as its handlers do not overlap and nothing is lost, a menu is the one
\* whose id is stored or a message that Back has turned into one, through deletions,
\* pickers and restarts (_edit_or_send_anchor and the anchors of ChatSettings).
THEOREM OneMenuPerAnchor == Spec => []OneMenu
<1>1. IInv => OneMenu
  BY DEF IInv, StageInv, Settled, OneMenu, MenusIn
<1> QED
  BY <1>1, IInvHolds, PTL

\* A prompt of the chat picker has a handler waiting to delete it, but for those
\* that could not be deleted, whose sending was not confirmed or whose handler a
\* restart ended (on_admin_add_group, on_admin_chat_shared).
THEOREM PromptsAreCleanedUp == Spec => []PromptsAreTimed
<1>1. IInv => PromptsAreTimed
  BY DEF IInv
<1> QED
  BY <1>1, IInvHolds, PTL
=============================================================================
