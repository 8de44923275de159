------------------------- MODULE UserHandlersProofs -------------------------
(***************************************************************************)
(* Proofs about UserHandlers, for every set of handlers, people and        *)
(* symbols.                                                                *)
(*                                                                         *)
(* The maintenance switch: of the rows of global_settings all readers and  *)
(* the toggle mean the first, so that what is read is what was committed   *)
(* last (SwitchInv).  The labels: what a thing is in the database changes  *)
(* only by handlers that are at work on it, and each of them ends with a   *)
(* label or its loss (ShownInv); one that has been alone knows what is     *)
(* there (KnowsInv).                                                       *)
(***************************************************************************)
EXTENDS UserHandlers, SequenceTheorems, TLAPS

\* Where the locals of a handler stand.
Shape(t) ==
  /\ t \in Tasks
  /\ t.op \in OfAdmin <=> t.thing = Power
  /\ t.op \notin OfAdmin => t.thing \in Pairs
  /\ t.pc = "gate" => t.op \in Gated
  /\ t.pc \in {"look", "insert"} => t.op \in Gated \cup OfAdmin
  /\ t.pc \in {"sync", "fetch", "session", "answer"} => t.op \notin OfAdmin
  /\ t.pc = "fetch" => t.op = "price"
  /\ t.pc = "session" => t.op \in OnLists \cup OnSymbol
  /\ t.pc = "write" => t.op \in {"toggle", "add", "remove"}
  /\ t.pc = "tell" => Shows(t.op)

ShapeInv == \A h \in Handlers :
  task[h] # Idle => /\ Shape(task[h])
                    /\ IsAt(h, "write") /\ task[h].op = "toggle" => rows # <<>>

\* The row that is read says what the last toggle committed, and whoever is
\* barred finds it there if he comes to a gate.
Shut(h) == task[h].op \in Gated => IsAt(h, "gate") /\ task[h].user # Admin /\ ~power

SwitchInv == /\ Switch = power
             /\ \A h \in barred : ~IsAt(h, "idle") /\ Shut(h)

\* A handler that is alone has company only on other things.
AloneInv == \A h \in alone : /\ task[h] # Idle /\ Shows(task[h].op)
                             /\ \A g \in AtWork(task[h].thing) : g = h

\* What one that is alone has read is so.
KnowsInv == \A h \in alone :
  /\ IsAt(h, "tell") => \A x \in Things : x = task[h].thing => Told(task[h]) = Actual(x)
  /\ IsAt(h, "write") /\ task[h].op = "remove" => task[h].seen = favorite[task[h].thing]
  /\ IsAt(h, "insert") /\ task[h].op \in OfAdmin => Switch

\* A label is right unless a handler is about to replace it.
ShownInv == \A x \in Things :
  shown[x] # "nothing" /\ (\A h \in AtWork(x) : ~IsAt(h, "tell"))
    => shown[x] = Actual(x)

IInv == TypeOK /\ ShapeInv /\ SwitchInv /\ AloneInv /\ KnowsInv /\ ShownInv

-----------------------------------------------------------------------------
\* The bot starts with every invariant true.
LEMMA InitIInv == Init => IInv
<1> SUFFICES ASSUME Init
             PROVE  IInv
  OBVIOUS
<1>1. Switch /\ power = TRUE
  BY DEF Init, Switch
<1>2. TypeOK
  <2>1. rows \in Seq(BOOLEAN)
    BY DEF Init
  <2>2. power \in BOOLEAN
    BY Zenon DEF Init
  <2>3. favorite \in [Pairs -> 0..MaxRow]
    BY UsersAssumption DEF Init
  <2> QED
    BY <2>1, <2>2, <2>3 DEF Init, TypeOK
<1>3. ShapeInv /\ AloneInv /\ KnowsInv /\ ShownInv
  BY DEF Init, ShapeInv, AloneInv, KnowsInv, ShownInv
<1>4. SwitchInv
  <2>1. Switch = power
    BY <1>1 DEF Init, Switch
  <2> QED
    BY <2>1 DEF Init, SwitchInv
<1> QED
  BY <1>2, <1>3, <1>4 DEF IInv

\* The bot's power is not a favorite.
LEMMA PowerIsNoPair == Power \notin Pairs /\ Things = Pairs \cup {Power}
BY UsersAssumption DEF Power, Pairs, Things

\* A handler at a step is not idle, and its locals have their shape.
LEMMA AtAStep ==
  ASSUME TypeOK, ShapeInv, NEW h \in Handlers, task[h].pc # "idle"
  PROVE  task[h] # Idle /\ Shape(task[h]) /\ task[h] \in Tasks
<1>1. task[h] # Idle
  BY DEF Idle
<1> QED
  BY <1>1 DEF ShapeInv, Shape

\* A handler goes on: its locals are known, the other handlers' are as they were.
LEMMA GoingOn ==
  ASSUME TypeOK, ShapeInv, NEW h \in Handlers, task[h].pc # "idle",
         NEW p \in Steps, GoesOn(h, p)
  PROVE  /\ task' \in [Handlers -> Tasks \cup {Idle}]
         /\ \A g \in Handlers \ {h} : task'[g] = task[g]
         /\ task'[h] = [task[h] EXCEPT !.pc = p]
         /\ task'[h] \in Tasks
<1>1. task[h] \in Tasks /\ task \in [Handlers -> Tasks \cup {Idle}]
  BY AtAStep DEF TypeOK
<1>2. task'[h] = [task[h] EXCEPT !.pc = p] /\ task'[h] \in Tasks
  BY <1>1 DEF GoesOn, Tasks
<1> QED
  BY <1>1, <1>2 DEF GoesOn

LEMMA ReadingOn ==
  ASSUME TypeOK, ShapeInv, NEW h \in Handlers, task[h].pc # "idle",
         NEW p \in Steps, NEW v \in 0..MaxRow, Reads(h, v, p)
  PROVE  /\ task' \in [Handlers -> Tasks \cup {Idle}]
         /\ \A g \in Handlers \ {h} : task'[g] = task[g]
         /\ task'[h] = [task[h] EXCEPT !.seen = v, !.pc = p]
         /\ task'[h] \in Tasks
<1>1. task[h] \in Tasks /\ task \in [Handlers -> Tasks \cup {Idle}]
  BY AtAStep DEF TypeOK
<1>2. task'[h] = [task[h] EXCEPT !.seen = v, !.pc = p] /\ task'[h] \in Tasks
  BY <1>1 DEF Reads, Tasks
<1> QED
  BY <1>1, <1>2 DEF Reads

LEMMA Ending ==
  ASSUME TypeOK, NEW h \in Handlers, Ends(h)
  PROVE  /\ task' \in [Handlers -> Tasks \cup {Idle}]
         /\ \A g \in Handlers \ {h} : task'[g] = task[g]
         /\ task'[h] = Idle
         /\ barred' = barred \ {h} /\ alone' = alone \ {h}
BY DEF TypeOK, Ends

\* What a step of one handler must do for the labels to stay right: leave every
\* thing but its own as it is, know what it found if it is alone, and show that
\* or nothing at the end.
Keeps(h) ==
  /\ \A g \in Handlers \ {h} : task'[g] = task[g]
  /\ task'[h] # Idle => /\ task'[h].op = task[h].op
                        /\ task'[h].thing = task[h].thing
  /\ alone' \subseteq alone /\ (task'[h] = Idle => h \notin alone')
  /\ \A p \in Pairs : \/ favorite'[p] = favorite[p]
                      \/ p = task[h].thing /\ Shows(task[h].op) /\ task'[h].pc = "tell"
  /\ \/ Switch' = Switch
     \/ Power = task[h].thing /\ Shows(task[h].op) /\ task'[h].pc = "tell"
  /\ h \in alone' =>
       /\ task'[h].pc = "tell" =>
            \A x \in Things : x = task[h].thing => Told(task'[h]) = Actual(x)'
       /\ task'[h].pc = "write" /\ task[h].op = "remove"
            => task'[h].seen = favorite'[task[h].thing]
       /\ task'[h].pc = "insert" /\ task[h].op \in OfAdmin => Switch'
  /\ \A x \in Things :
       \/ shown'[x] = shown[x] /\ (x = task[h].thing => task[h].pc # "tell")
       \/ x = task[h].thing /\ shown'[x] \in {"nothing", Actual(x)'}

LEMMA KeepsLabels ==
  ASSUME IInv, TypeOK', NEW h \in Handlers, task[h].pc # "idle", Keeps(h)
  PROVE  AloneInv' /\ KnowsInv' /\ ShownInv'
<1>1. /\ task[h] # Idle /\ Shape(task[h])
      /\ alone \subseteq Handlers /\ alone' \subseteq Handlers
  BY AtAStep DEF IInv, TypeOK
<1>2. \A x : \A g \in AtWork(x)' : g \in AtWork(x)
  <2> SUFFICES ASSUME NEW x, NEW g \in AtWork(x)'
               PROVE  g \in AtWork(x)
    OBVIOUS
  <2>1. CASE g = h
    BY <1>1, <2>1 DEF AtWork, Busy, IsAt, Keeps, Idle
  <2>2. CASE g # h
    BY <2>2 DEF AtWork, Busy, IsAt, Keeps
  <2> QED
    BY <2>1, <2>2
<1>3. ASSUME NEW g \in alone'
      PROVE  /\ task'[g] # Idle /\ task[g] # Idle /\ g \in alone
             /\ task'[g].op = task[g].op /\ task'[g].thing = task[g].thing
             /\ Shape(task[g]) /\ Shows(task[g].op)
             /\ g # h => /\ task'[g] = task[g]
                         /\ ~(Shows(task[h].op) /\ task[h].thing = task[g].thing)
  <2>1. g \in alone /\ g \in Handlers
    BY <1>1 DEF Keeps
  <2>2. /\ task[g] # Idle /\ Shows(task[g].op) /\ Shape(task[g])
        /\ \A k \in AtWork(task[g].thing) : k = g
    BY <2>1 DEF IInv, AloneInv, ShapeInv
  <2>3. Shows(task[h].op) /\ task[h].thing = task[g].thing => h = g
    BY <2>2 DEF AtWork, Busy, IsAt
  <2> QED
    BY <2>1, <2>2, <2>3 DEF Keeps
<1>4. AloneInv'
  <2> SUFFICES ASSUME NEW g \in alone'
               PROVE  /\ task'[g] # Idle /\ Shows(task'[g].op)
                      /\ \A k \in AtWork(task[g].thing)' : k = g
    BY <1>3 DEF AloneInv
  <2>1. \A k \in AtWork(task[g].thing) : k = g
    BY <1>3 DEF IInv, AloneInv
  <2>2. \A k \in AtWork(task[g].thing)' : k \in AtWork(task'[g].thing)
    BY <1>2
  <2> QED
    BY <2>1, <2>2, <1>3
<1>5. ASSUME NEW x \in Things, ~(x = task[h].thing /\ Shows(task[h].op))
      PROVE  /\ Actual(x)' = Actual(x)
             /\ x \in Pairs => favorite'[x] = favorite[x]
             /\ x = Power => Switch' = Switch
  BY <1>5, PowerIsNoPair DEF Keeps, Actual
<1>6. KnowsInv'
  <2> SUFFICES ASSUME NEW g \in alone'
               PROVE  /\ task'[g].pc = "tell" =>
                           \A x \in Things : x = task'[g].thing => Told(task'[g]) = Actual(x)'
                      /\ task'[g].pc = "write" /\ task'[g].op = "remove"
                           => task'[g].seen = favorite'[task'[g].thing]
                      /\ task'[g].pc = "insert" /\ task'[g].op \in OfAdmin => Switch'
    BY DEF KnowsInv, IsAt
  <2>1. CASE g = h
    BY <2>1, <1>3 DEF Keeps
  <2>2. CASE g # h
    <3>1. task[g].thing \in Things /\ task'[g] = task[g] /\ g \in alone
      BY <2>2, <1>3 DEF Shape, Tasks
    <3>2. /\ \A x \in Things : x = task[g].thing => Actual(x)' = Actual(x)
          /\ task[g].op \notin OfAdmin => favorite'[task[g].thing] = favorite[task[g].thing]
          /\ task[g].op \in OfAdmin => Switch' = Switch
      BY <3>1, <2>2, <1>3, <1>5 DEF Shape
    <3>3. "remove" \notin OfAdmin
      BY DEF OfAdmin
    <3> QED
      BY <3>1, <3>2, <3>3 DEF IInv, KnowsInv, IsAt
  <2> QED
    BY <2>1, <2>2
<1>7. ShownInv'
  <2> SUFFICES ASSUME NEW x \in Things, shown'[x] # "nothing",
                      \A g \in AtWork(x)' : task'[g].pc # "tell"
               PROVE  shown'[x] = Actual(x)'
    BY DEF ShownInv, IsAt
  <2>1. CASE x = task[h].thing /\ shown'[x] \in {"nothing", Actual(x)'}
    BY <2>1
  <2>2. CASE shown'[x] = shown[x] /\ (x = task[h].thing => task[h].pc # "tell")
    <3>1. ASSUME NEW g \in AtWork(x), task[g].pc = "tell"
          PROVE  FALSE
      <4>1. g # h
        BY <3>1, <2>2 DEF AtWork
      <4>2. g \in AtWork(x)' /\ task'[g] = task[g]
        BY <4>1 DEF AtWork, Busy, IsAt, Keeps
      <4> QED
        BY <4>2, <3>1
    <3>2. shown[x] = Actual(x)
      BY <2>2, <3>1 DEF IInv, ShownInv, IsAt
    <3>3. Actual(x)' = Actual(x)
      <4>1. CASE ~(x = task[h].thing /\ Shows(task[h].op))
        BY <4>1, <1>5
      <4>2. CASE x = task[h].thing /\ Shows(task[h].op)
        <5>1. task'[h].pc # "tell"
          <6>1. CASE task'[h] = Idle
            BY <6>1 DEF Idle
          <6>2. CASE task'[h] # Idle /\ task'[h].pc = "tell"
            <7>1. h \in AtWork(x)'
              BY <6>2, <4>2 DEF AtWork, Busy, IsAt, Keeps
            <7> QED
              BY <7>1, <6>2
          <6> QED
            BY <6>1, <6>2
        <5> QED
          BY <5>1, <4>2, PowerIsNoPair DEF Keeps, Actual
      <4> QED
        BY <4>1, <4>2
    <3> QED
      BY <3>2, <3>3, <2>2
  <2> QED
    BY <2>1, <2>2 DEF Keeps
<1> QED
  BY <1>4, <1>6, <1>7

\* The shape of all locals follows from that of the handler at work, as rows are
\* never deleted.
LEMMA KeepsShape ==
  ASSUME ShapeInv, NEW h \in Handlers,
         \A g \in Handlers \ {h} : task'[g] = task[g],
         rows # <<>> => rows' # <<>>,
         task'[h] # Idle => /\ Shape(task'[h])
                            /\ task'[h].pc = "write" /\ task'[h].op = "toggle"
                                 => rows' # <<>>
  PROVE  ShapeInv'
<1> SUFFICES ASSUME NEW g \in Handlers, task'[g] # Idle
             PROVE  /\ Shape(task'[g])
                    /\ task'[g].pc = "write" /\ task'[g].op = "toggle" => rows' # <<>>
  BY DEF ShapeInv, IsAt
<1>1. CASE g = h
  BY <1>1
<1>2. CASE g # h
  BY <1>2 DEF ShapeInv, IsAt
<1> QED
  BY <1>1, <1>2

\* A handler that ends and changes nothing.
LEMMA EndsPreserve ==
  ASSUME IInv, NEW h \in Handlers,
         Barred(h) \/ NotFound(h) \/ Answer(h) \/ Fails(h)
  PROVE  IInv'
<1>1. /\ task[h].pc \notin {"idle", "tell"} /\ Ends(h)
      /\ UNCHANGED <<rows, users, favorite, power, shown>>
  BY DEF Barred, NotFound, Answer, Fails, IsAt, dbVars
<1>2. /\ task' \in [Handlers -> Tasks \cup {Idle}]
      /\ \A g \in Handlers \ {h} : task'[g] = task[g]
      /\ task'[h] = Idle
      /\ barred' = barred \ {h} /\ alone' = alone \ {h}
  BY <1>1, Ending DEF IInv
<1>3. TypeOK'
  BY <1>1, <1>2 DEF IInv, TypeOK
<1>4. ShapeInv'
  BY <1>1, <1>2, KeepsShape DEF IInv
<1>5. SwitchInv'
  BY <1>1, <1>2 DEF IInv, SwitchInv, Shut, Switch, IsAt, Idle, TypeOK
<1>6. Keeps(h)
  BY <1>1, <1>2 DEF Keeps, Switch
<1>7. AloneInv' /\ KnowsInv' /\ ShownInv'
  BY <1>1, <1>3, <1>6, KeepsLabels
<1> QED
  BY <1>3, <1>4, <1>5, <1>7 DEF IInv

\* What a handler must read to go on with the labels right, when it changes
\* nothing that others see but the registered users.
LEMMA GoesOnPreserves ==
  ASSUME IInv, NEW h \in Handlers, task[h].pc \notin {"idle", "tell"}, h \notin barred \/ task[h].op \notin Gated,
         task' \in [Handlers -> Tasks \cup {Idle}],
         \A g \in Handlers \ {h} : task'[g] = task[g],
         task'[h].op = task[h].op, task'[h].thing = task[h].thing,
         Shape(task'[h]), users' \subseteq People,
         UNCHANGED <<rows, favorite, worldVars>>,
         task'[h].pc = "write" /\ task'[h].op = "toggle" => rows # <<>>,
         h \in alone =>
           /\ task'[h].pc = "tell" =>
                \A x \in Things : x = task[h].thing => Told(task'[h]) = Actual(x)
           /\ task'[h].pc = "write" /\ task[h].op = "remove"
                => task'[h].seen = favorite[task[h].thing]
           /\ task'[h].pc = "insert" /\ task[h].op \in OfAdmin => Switch
  PROVE  IInv'
<1>1. UNCHANGED <<power, barred, alone, shown>>
  BY DEF worldVars
<1>2. TypeOK'
  BY <1>1 DEF IInv, TypeOK
<1>3. ShapeInv'
  BY KeepsShape DEF IInv
<1>4. SwitchInv'
  <2>1. task'[h].pc # "idle"
    BY DEF Shape, Tasks, Steps
  <2> QED
    BY <1>1, <2>1 DEF IInv, SwitchInv, Shut, Switch, IsAt, TypeOK
<1>5. \A x \in Things : Actual(x)' = Actual(x)
  BY DEF Actual, Switch
<1>6. Keeps(h)
  <2>1. task'[h] # Idle
    BY DEF Shape, Tasks, Steps, Idle
  <2> QED
    BY <1>1, <1>5, <2>1 DEF Keeps, Switch
<1>7. AloneInv' /\ KnowsInv' /\ ShownInv'
  BY <1>2, <1>6, KeepsLabels
<1> QED
  BY <1>2, <1>3, <1>4, <1>7 DEF IInv

\* Whoever is barred goes no further: the switch he finds is off.
LEMMA BarredIsBarred ==
  ASSUME IInv, NEW h \in Handlers, ~IsAt(h, "gate") \/ Admits(h)
  PROVE  h \notin barred \/ task[h].op \notin Gated
BY DEF IInv, SwitchInv, Shut, Admits

\* The sets of updates, spelt out.
LEMMA OpsOf == /\ "price" \in OnSymbol /\ "remove" \notin OfAdmin /\ "add" \notin OfAdmin /\ "toggle" \in OfAdmin
               /\ \A op \in OfAdmin : AfterLook(op) = (IF op = "power" THEN "tell" ELSE "write")
               /\ \A op \in Gated : op \notin OfAdmin /\ AfterLook(op) = "sync"
               /\ \A op \in OfAdmin : op = "power" \/ op = "toggle"
               /\ "power" \in OfAdmin /\ Shows("power") /\ ~("sync" \in OfAdmin)
               /\ \A op \in OnLists : ~(op \in OnSymbol) /\ op \notin OfAdmin
               /\ \A op \in OnSymbol : op \in {"price", "add", "remove"}
               /\ \A op \in OnSymbol \cup OfAdmin : Shows(op)
BY DEF OfAdmin, Gated, OnLists, OnSymbol, AfterLook, Shows

LEMMA AdmittedPreserves == ASSUME IInv, NEW h \in Handlers, Admitted(h) PROVE IInv'
<1>1. /\ task[h].pc = "gate" /\ UNCHANGED <<rows, users, favorite, worldVars>>
      /\ (h \notin barred \/ task[h].op \notin Gated)
  BY BarredIsBarred DEF Admitted, IsAt, dbVars
<1>2. PICK p \in {"look", "sync"} : GoesOn(h, p)
  BY DEF Admitted
<1>3. Shape(task[h]) /\ task[h] \in Tasks
  BY <1>1, AtAStep DEF IInv
<1>4. /\ task' \in [Handlers -> Tasks \cup {Idle}]
      /\ \A g \in Handlers \ {h} : task'[g] = task[g]
      /\ task'[h] = [task[h] EXCEPT !.pc = p] /\ task'[h] \in Tasks
  <2>1. p \in Steps
    BY DEF Steps
  <2> QED
    BY <1>1, <1>2, <2>1, GoingOn DEF IInv
<1>5. /\ task'[h].op = task[h].op /\ task'[h].thing = task[h].thing
      /\ task'[h].pc = p
  BY <1>3, <1>4 DEF Tasks
<1>6. Shape(task'[h])
  BY <1>1, <1>3, <1>4, <1>5, OpsOf DEF Shape
<1>7. users' \subseteq People
  BY <1>1 DEF IInv, TypeOK
<1> QED
  BY <1>1, <1>4, <1>5, <1>6, <1>7, GoesOnPreserves

LEMMA FetchedPreserves == ASSUME IInv, NEW h \in Handlers, Fetched(h) PROVE IInv'
<1>1. /\ task[h].pc = "fetch" /\ UNCHANGED <<rows, users, favorite, worldVars>>
      /\ (h \notin barred \/ task[h].op \notin Gated) /\ GoesOn(h, "session")
  BY BarredIsBarred DEF Fetched, IsAt, dbVars
<1>2. Shape(task[h]) /\ task[h] \in Tasks
  BY <1>1, AtAStep DEF IInv
<1>3. /\ task' \in [Handlers -> Tasks \cup {Idle}]
      /\ \A g \in Handlers \ {h} : task'[g] = task[g]
      /\ task'[h] = [task[h] EXCEPT !.pc = "session"] /\ task'[h] \in Tasks
  <2>1. "session" \in Steps
    BY DEF Steps
  <2> QED
    BY <1>1, <2>1, GoingOn DEF IInv
<1>4. /\ task'[h].op = task[h].op /\ task'[h].thing = task[h].thing
      /\ task'[h].pc = "session"
  BY <1>2, <1>3 DEF Tasks
<1>5. Shape(task'[h])
  BY <1>1, <1>2, <1>3, <1>4, OpsOf DEF Shape
<1>6. users' \subseteq People
  BY <1>1 DEF IInv, TypeOK
<1> QED
  BY <1>1, <1>3, <1>4, <1>5, <1>6, GoesOnPreserves

LEMMA SyncPreserves == ASSUME IInv, NEW h \in Handlers, Sync(h) PROVE IInv'
<1>1. /\ task[h].pc = "sync" /\ UNCHANGED <<rows, favorite, worldVars>>
      /\ (h \notin barred \/ task[h].op \notin Gated) /\ users' = users \cup Registered(task[h])
  BY BarredIsBarred DEF Sync, IsAt
<1>2. Shape(task[h]) /\ task[h] \in Tasks
  BY <1>1, AtAStep DEF IInv
<1>3. PICK p : /\ GoesOn(h, p)
               /\ p = IF task[h].op \in OnLists THEN "session"
                      ELSE IF task[h].op = "price" THEN "fetch" ELSE "answer"
  BY DEF Sync
<1>4. /\ task' \in [Handlers -> Tasks \cup {Idle}]
      /\ \A g \in Handlers \ {h} : task'[g] = task[g]
      /\ task'[h] = [task[h] EXCEPT !.pc = p] /\ task'[h] \in Tasks
  <2>1. p \in Steps
    BY <1>3 DEF Steps
  <2> QED
    BY <1>1, <1>3, <2>1, GoingOn DEF IInv
<1>5. /\ task'[h].op = task[h].op /\ task'[h].thing = task[h].thing
      /\ task'[h].pc = p
  BY <1>2, <1>4 DEF Tasks
<1>6. Shape(task'[h])
  BY <1>1, <1>2, <1>3, <1>4, <1>5, OpsOf DEF Shape
<1>7. users' \subseteq People
  BY <1>1, <1>2 DEF IInv, TypeOK, Registered, Tasks
<1>8. p \in {"session", "fetch", "answer"}
  BY <1>3
<1> QED
  BY <1>1, <1>4, <1>5, <1>6, <1>7, <1>8, GoesOnPreserves

LEMMA LookPreserves == ASSUME IInv, NEW h \in Handlers, Look(h) PROVE IInv'
<1>1. /\ task[h].pc = "look" /\ UNCHANGED <<rows, users, favorite, worldVars>>
      /\ (h \notin barred \/ task[h].op \notin Gated)
  BY BarredIsBarred DEF Look, IsAt, dbVars
<1>2. Shape(task[h]) /\ task[h] \in Tasks /\ task[h].op \in Gated \cup OfAdmin
  BY <1>1, AtAStep DEF IInv, Shape
<1>3. users' \subseteq People
  BY <1>1 DEF IInv, TypeOK
<1>4. CASE rows = <<>> /\ GoesOn(h, "insert")
  <2>1. /\ task' \in [Handlers -> Tasks \cup {Idle}]
        /\ \A g \in Handlers \ {h} : task'[g] = task[g]
        /\ task'[h] = [task[h] EXCEPT !.pc = "insert"] /\ task'[h] \in Tasks
    <3>1. "insert" \in Steps
      BY DEF Steps
    <3> QED
      BY <1>1, <1>4, <3>1, GoingOn DEF IInv
  <2>2. /\ task'[h].op = task[h].op /\ task'[h].thing = task[h].thing
        /\ task'[h].pc = "insert"
    BY <1>2, <2>1 DEF Tasks
  <2>3. Shape(task'[h])
    BY <1>2, <2>1, <2>2 DEF Shape
  <2>4. Switch
    BY <1>4 DEF Switch
  <2> QED
    BY <1>1, <1>3, <2>1, <2>2, <2>3, <2>4, GoesOnPreserves
<1>5. CASE rows # <<>> /\ Reads(h, IF Switch THEN 1 ELSE 0, AfterLook(task[h].op))
  <2>1. PICK p \in {"sync", "tell", "write"}, v \in {0, 1} :
          /\ p = AfterLook(task[h].op) /\ v = IF Switch THEN 1 ELSE 0
          /\ Reads(h, v, p)
    BY <1>2, <1>5, OpsOf
  <2>2. p \in Steps /\ v \in 0..MaxRow
    BY UsersAssumption DEF Steps
  <2>3. /\ task' \in [Handlers -> Tasks \cup {Idle}]
        /\ \A g \in Handlers \ {h} : task'[g] = task[g]
        /\ task'[h] = [task[h] EXCEPT !.seen = v, !.pc = p] /\ task'[h] \in Tasks
    <3>1. TypeOK /\ ShapeInv /\ task[h].pc # "idle" /\ Reads(h, v, p)
      BY <1>1, <2>1 DEF IInv
    <3> QED
      BY <3>1, <2>2, ReadingOn
  <2>4. /\ task'[h].op = task[h].op /\ task'[h].thing = task[h].thing
        /\ task'[h].pc = p /\ task'[h].seen = v
    BY <1>2, <2>3 DEF Tasks
  <2>5. \/ p = "sync" /\ task[h].op \notin OfAdmin
        \/ p = "tell" /\ task[h].op = "power" /\ task[h].op \in OfAdmin
        \/ p = "write" /\ task[h].op = "toggle" /\ task[h].op \in OfAdmin
    <3>1. CASE task[h].op \in Gated
      BY <3>1, <2>1, OpsOf
    <3>2. CASE task[h].op = "power"
      BY <3>2, <2>1, OpsOf
    <3>3. CASE task[h].op = "toggle"
      BY <3>3, <2>1, OpsOf
    <3> QED
      BY <3>1, <3>2, <3>3, <1>2, OpsOf
  <2>6. Shape(task'[h])
    BY <1>2, <2>3, <2>4, <2>5, OpsOf DEF Shape
  <2>7. p = "tell" => \A x \in Things : x = task[h].thing => Told(task'[h]) = Actual(x)
    <3> SUFFICES ASSUME p = "tell"
                 PROVE  Told(task'[h]) = Actual(Power) /\ task[h].thing = Power
      OBVIOUS
    <3>1. task'[h].op = "power" /\ task[h].thing = Power
      BY <1>2, <2>4, <2>5 DEF Shape
    <3>2. Told(task'[h]) = Label(v # 0)
      BY <3>1, <2>4 DEF Told
    <3>3. Actual(Power) = Label(Switch)
      BY DEF Actual
    <3>4. CASE Switch
      <4>1. v # 0
        BY <3>4, <2>1
      <4> QED
        BY <3>4, <4>1, <3>1, <3>2, <3>3 DEF Label
    <3>5. CASE ~Switch
      <4>1. ~(v # 0)
        BY <3>5, <2>1
      <4> QED
        BY <3>5, <4>1, <3>1, <3>2, <3>3 DEF Label
    <3> QED
      BY <3>4, <3>5
  <2>8. task[h].op = "toggle" => task[h].op # "remove"
    OBVIOUS
  <2>9. p # "insert"
    BY <2>1
  <2> QED
    BY <1>1, <1>3, <1>5, <2>3, <2>4, <2>5, <2>6, <2>7, <2>8, <2>9, GoesOnPreserves
<1> QED
  BY <1>4, <1>5 DEF Look

LEMMA FoundPreserves == ASSUME IInv, NEW h \in Handlers, Found(h) PROVE IInv'
<1>1. /\ task[h].pc = "session" /\ UNCHANGED <<rows, users, favorite, worldVars>>
      /\ (h \notin barred \/ task[h].op \notin Gated) /\ TypeOK /\ ShapeInv
  BY BarredIsBarred DEF Found, IsAt, dbVars, IInv
<1>2. /\ Shape(task[h]) /\ task[h] \in Tasks /\ task[h].op \notin OfAdmin
      /\ task[h].thing \in Pairs
      /\ task[h].op \in OnLists \cup OnSymbol
  BY <1>1, AtAStep DEF IInv, Shape
<1>3. users' \subseteq People
  BY <1>1 DEF TypeOK
<1>4. CASE task[h].op \in OnLists /\ GoesOn(h, "answer")
  <2>1. /\ task' \in [Handlers -> Tasks \cup {Idle}]
        /\ \A g \in Handlers \ {h} : task'[g] = task[g]
        /\ task'[h] = [task[h] EXCEPT !.pc = "answer"] /\ task'[h] \in Tasks
    <3>1. "answer" \in Steps
      BY DEF Steps
    <3>2. task[h].pc # "idle"
      BY <1>1
    <3> QED
      BY <1>1, <1>4, <3>1, <3>2, GoingOn
  <2>2. /\ task'[h].op = task[h].op /\ task'[h].thing = task[h].thing
        /\ task'[h].pc = "answer"
    BY <1>2, <2>1 DEF Tasks
  <2>3. Shape(task'[h])
    BY <1>2, <2>1, <2>2 DEF Shape
  <2> QED
    BY <1>1, <1>3, <2>1, <2>2, <2>3, GoesOnPreserves
<1>5. CASE /\ task[h].op \notin OnLists
           /\ Reads(h, favorite[task[h].thing],
                    IF task[h].op = (IF favorite[task[h].thing] = 0 THEN "add" ELSE "remove")
                      THEN "write" ELSE "tell")
  <2>1. PICK p \in {"write", "tell"}, v \in 0..MaxRow :
          /\ p = IF task[h].op = (IF v = 0 THEN "add" ELSE "remove") THEN "write" ELSE "tell"
          /\ v = favorite[task[h].thing]
          /\ Reads(h, v, p)
    <3>1. favorite[task[h].thing] \in 0..MaxRow
      BY <1>1, <1>2 DEF TypeOK
    <3> QED
      BY <3>1, <1>5
  <2>2. p \in Steps /\ v \in 0..MaxRow
    BY DEF Steps
  <2>3. /\ task' \in [Handlers -> Tasks \cup {Idle}]
        /\ \A g \in Handlers \ {h} : task'[g] = task[g]
        /\ task'[h] = [task[h] EXCEPT !.seen = v, !.pc = p] /\ task'[h] \in Tasks
    <3>1. TypeOK /\ ShapeInv /\ task[h].pc # "idle" /\ Reads(h, v, p)
      BY <1>1, <2>1
    <3> QED
      BY <3>1, <2>2, ReadingOn
  <2>4. /\ task'[h].op = task[h].op /\ task'[h].thing = task[h].thing
        /\ task'[h].pc = p /\ task'[h].seen = v
    BY <1>2, <2>3 DEF Tasks
  <2>5. /\ task[h].op \in {"price", "add", "remove"} /\ Shows(task[h].op)
        /\ p = "write" => task[h].op \in {"add", "remove"}
    BY <1>2, <1>5, <2>1, OpsOf
  <2>6. Shape(task'[h])
    BY <1>2, <2>3, <2>4, <2>5 DEF Shape
  <2>7. p = "tell" => \A x \in Things : x = task[h].thing => Told(task'[h]) = Actual(x)
    <3> SUFFICES ASSUME p = "tell"
                 PROVE  Told(task'[h]) = Label(v # 0) /\ Actual(task[h].thing) = Label(v # 0)
      BY <1>2, PowerIsNoPair
    <3>1. Actual(task[h].thing) = Label(v # 0)
      BY <1>2, <2>1, PowerIsNoPair DEF Actual
    <3>2. CASE task[h].op = "price"
      BY <3>1, <3>2, <2>4 DEF Told
    <3>3. CASE task[h].op = "add"
      <4>1. v # 0 /\ Told(task'[h]) = Label(TRUE)
        BY <3>3, <2>1, <2>4 DEF Told
      <4> QED
        BY <4>1, <3>1 DEF Label
    <3>4. CASE task[h].op = "remove"
      <4>1. ~(v # 0) /\ Told(task'[h]) = Label(FALSE)
        BY <3>4, <2>1, <2>4 DEF Told
      <4> QED
        BY <4>1, <3>1 DEF Label
    <3> QED
      BY <2>5, <3>1, <3>2, <3>3, <3>4
  <2>8. p = "write" => task[h].op # "toggle"
    BY <2>5
  <2> QED
    BY <1>1, <1>3, <2>1, <2>3, <2>4, <2>6, <2>7, <2>8, GoesOnPreserves
<1> QED
  BY <1>4, <1>5 DEF Found

\* A handler that writes about its thing and is to tell what is there now.
LEMMA WritingPreserves ==
  ASSUME IInv, NEW h \in Handlers, task[h].pc \notin {"idle", "tell"},
         TypeOK', SwitchInv',
         \A g \in Handlers \ {h} : task'[g] = task[g],
         task'[h].op = task[h].op, task'[h].thing = task[h].thing,
         task'[h].pc = "tell", Shape(task'[h]), Shows(task[h].op),
         rows # <<>> => rows' # <<>>, alone' = alone, shown' = shown,
         \A p \in Pairs : p # task[h].thing => favorite'[p] = favorite[p],
         Switch' = Switch \/ Power = task[h].thing,
         h \in alone =>
           \A x \in Things : x = task[h].thing => Told(task'[h]) = Actual(x)'
  PROVE  IInv'
<1>1. ShapeInv'
  BY KeepsShape DEF IInv
<1>2. Keeps(h)
  <2>1. task'[h] # Idle
    BY DEF Shape, Tasks, Steps, Idle
  <2>2. \A p \in Pairs : \/ favorite'[p] = favorite[p]
                         \/ p = task[h].thing /\ Shows(task[h].op) /\ task'[h].pc = "tell"
    OBVIOUS
  <2> QED
    BY <2>1, <2>2 DEF Keeps
<1>3. AloneInv' /\ KnowsInv' /\ ShownInv'
  BY <1>2, KeepsLabels
<1> QED
  BY <1>1, <1>3 DEF IInv

\* The first half of adding and removing a favorite, which are alike in all but
\* the row.
LEMMA FavoritePreserves ==
  ASSUME IInv, NEW h \in Handlers, task[h].pc = "write",
         task[h].op \in {"add", "remove"}, GoesOn(h, "tell"),
         UNCHANGED <<rows, users, worldVars>>,
         NEW id \in 0..MaxRow, favorite' = [favorite EXCEPT ![task[h].thing] = id],
         h \in alone => (task[h].op = "add" <=> id # 0)
  PROVE  IInv'
<1>1. /\ UNCHANGED <<rows, users, power, barred, alone, shown>>
      /\ (h \notin barred \/ task[h].op \notin Gated) /\ TypeOK /\ ShapeInv /\ task[h].pc # "idle"
  BY BarredIsBarred DEF IsAt, worldVars, IInv
<1>2. /\ Shape(task[h]) /\ task[h] \in Tasks /\ task[h].op \notin OfAdmin
      /\ task[h].thing \in Pairs /\ Shows(task[h].op)
  BY <1>1, AtAStep, OpsOf DEF Shape, Shows, OnSymbol
<1>3. /\ task' \in [Handlers -> Tasks \cup {Idle}]
      /\ \A g \in Handlers \ {h} : task'[g] = task[g]
      /\ task'[h] = [task[h] EXCEPT !.pc = "tell"] /\ task'[h] \in Tasks
  <2>1. "tell" \in Steps
    BY DEF Steps
  <2> QED
    BY <1>1, <2>1, GoingOn
<1>4. /\ task'[h].op = task[h].op /\ task'[h].thing = task[h].thing
      /\ task'[h].pc = "tell"
  BY <1>2, <1>3 DEF Tasks
<1>5. Shape(task'[h])
  BY <1>2, <1>3, <1>4 DEF Shape
<1>6. favorite \in [Pairs -> 0..MaxRow] /\ favorite' \in [Pairs -> 0..MaxRow]
  BY <1>1, <1>2 DEF TypeOK
<1>7. TypeOK'
  BY <1>1, <1>3, <1>6 DEF TypeOK
<1>8. Switch' = Switch
  BY <1>1 DEF Switch
<1>9. SwitchInv'
  BY <1>1, <1>3, <1>4, <1>8 DEF IInv, SwitchInv, Shut, IsAt, TypeOK
<1>10. \A p \in Pairs : p # task[h].thing => favorite'[p] = favorite[p]
  BY <1>6
<1>11. h \in alone =>
         \A x \in Things : x = task[h].thing => Told(task'[h]) = Actual(x)'
  <2> SUFFICES ASSUME h \in alone, NEW x \in Things, x = task[h].thing
               PROVE  Told(task'[h]) = Actual(x)'
    OBVIOUS
  <2>1. Actual(x)' = Label(id # 0)
    BY <1>2, <1>6, PowerIsNoPair DEF Actual
  <2>2. CASE task[h].op = "add"
    <3>1. id # 0 /\ Told(task'[h]) = Label(TRUE)
      BY <2>2, <1>4 DEF Told
    <3> QED
      BY <3>1, <2>1 DEF Label
  <2>3. CASE task[h].op = "remove"
    <3>1. ~(id # 0) /\ Told(task'[h]) = Label(FALSE)
      BY <2>3, <1>4 DEF Told
    <3> QED
      BY <3>1, <2>1 DEF Label
  <2> QED
    BY <2>2, <2>3
<1> QED
  BY <1>1, <1>2, <1>3, <1>4, <1>5, <1>7, <1>8, <1>9, <1>10, <1>11, WritingPreserves

LEMMA AddFavoritePreserves ==
  ASSUME IInv, NEW h \in Handlers, AddFavorite(h) PROVE IInv'
<1>1. PICK id \in 1..MaxRow : favorite' = [favorite EXCEPT ![task[h].thing] = id]
  BY DEF AddFavorite
<1>2. /\ task[h].pc = "write" /\ task[h].op = "add" /\ GoesOn(h, "tell")
      /\ UNCHANGED <<rows, users, worldVars>>
  BY DEF AddFavorite, IsAt
<1>3. id \in 0..MaxRow /\ id # 0
  BY UsersAssumption
<1> QED
  BY <1>1, <1>2, <1>3, FavoritePreserves

\* One that is alone deletes the row that is there.
LEMMA RemoveFavoritePreserves ==
  ASSUME IInv, NEW h \in Handlers, RemoveFavorite(h) PROVE IInv'
<1>1. /\ task[h].pc = "write" /\ task[h].op = "remove" /\ GoesOn(h, "tell")
      /\ UNCHANGED <<rows, users, worldVars>> /\ TypeOK /\ ShapeInv
      /\ favorite' = [favorite EXCEPT ![task[h].thing] =
                        IF @ = task[h].seen THEN 0 ELSE @]
  BY DEF RemoveFavorite, IsAt, IInv
<1>2. task[h].thing \in Pairs
  BY <1>1, AtAStep, OpsOf DEF Shape
<1>3. favorite[task[h].thing] \in 0..MaxRow
  BY <1>1, <1>2 DEF TypeOK
<1>4. h \in alone => task[h].seen = favorite[task[h].thing]
  BY <1>1 DEF IInv, KnowsInv, IsAt
<1>5. PICK id \in 0..MaxRow :
        /\ id = IF favorite[task[h].thing] = task[h].seen THEN 0
                                                          ELSE favorite[task[h].thing]
        /\ favorite' = [favorite EXCEPT ![task[h].thing] = id]
  <2>1. 0 \in 0..MaxRow
    BY UsersAssumption
  <2> QED
    BY <1>1, <1>2, <1>3, <2>1 DEF TypeOK
<1>6. h \in alone => id = 0
  BY <1>4, <1>5
<1> QED
  BY <1>1, <1>5, <1>6, FavoritePreserves

-----------------------------------------------------------------------------
\* The head of a sequence is its first element.
LEMMA HeadIsFirst ==
  ASSUME NEW table \in Seq(BOOLEAN), table # <<>>
  PROVE  Head(table) = table[1] /\ 1 \in 1..Len(table)
<1>1. 1 \in 1..Len(table) /\ Len(table) \in 1..Len(table)
  BY EmptySeq
<1> QED
  BY <1>1, HeadTailOfSubSeq, SubSeqFull

\* The first row stays the first when another is inserted, and there is one.
LEMMA RowInserted ==
  ASSUME NEW table \in Seq(BOOLEAN)
  PROVE  /\ Append(table, TRUE) \in Seq(BOOLEAN) /\ Append(table, TRUE) # <<>>
         /\ Head(Append(table, TRUE)) = IF table = <<>> THEN TRUE ELSE Head(table)
<1>1. /\ Append(table, TRUE) \in Seq(BOOLEAN)
      /\ Len(Append(table, TRUE)) = Len(table) + 1
  BY AppendProperties
<1>2. Len(table) \in Nat /\ Len(<<>>) = 0
  BY LenProperties, EmptySeq
<1>3. Append(table, TRUE) # <<>>
  <2>1. ASSUME NEW t, t = <<>>
        PROVE  Len(t) = 0
    BY <1>2, <2>1
  <2>2. Len(Append(table, TRUE)) # 0
    BY <1>1, <1>2
  <2> QED
    BY <2>1, <2>2
<1>4. Head(Append(table, TRUE)) = IF table = <<>> THEN TRUE ELSE Head(table)
  BY HeadTailAppend
<1> QED
  BY <1>1, <1>3, <1>4

\* Turning the first row turns the switch.
LEMMA RowTurned ==
  ASSUME NEW table \in Seq(BOOLEAN), table # <<>>, NEW value \in BOOLEAN
  PROVE  /\ Turned(table, value) \in Seq(BOOLEAN) /\ Turned(table, value) # <<>>
         /\ Head(Turned(table, value)) = value
<1>1. 1 \in 1..Len(table) /\ Len(table) \in Nat
  BY HeadIsFirst, LenProperties
<1>2. /\ Turned(table, value) \in Seq(BOOLEAN)
      /\ Len(Turned(table, value)) = Len(table)
      /\ Turned(table, value)[1] = value
  BY <1>1, ExceptSeq DEF Turned
<1>3. Turned(table, value) # <<>>
  BY <1>1, <1>2, EmptySeq
<1> QED
  BY <1>2, <1>3, HeadIsFirst

\* A reader that finds no row makes one that says what none said.
LEMMA InsertSettingsPreserves ==
  ASSUME IInv, NEW h \in Handlers, InsertSettings(h) PROVE IInv'
<1>1. /\ task[h].pc = "insert" /\ task[h].op # "toggle"
      /\ (h \notin barred \/ task[h].op \notin Gated)
      /\ UNCHANGED <<users, favorite, power, barred, alone, shown>>
      /\ rows' = Append(rows, TRUE) /\ Reads(h, 1, AfterLook(task[h].op))
      /\ TypeOK /\ ShapeInv /\ task[h].pc # "idle"
  BY BarredIsBarred DEF InsertSettings, IsAt, worldVars, IInv
<1>2. /\ Shape(task[h]) /\ task[h] \in Tasks
      /\ task[h].op \in Gated \/ task[h].op = "power"
  BY <1>1, AtAStep, OpsOf DEF Shape
<1>3. /\ rows' \in Seq(BOOLEAN) /\ rows' # <<>> /\ Switch' = Switch
  BY <1>1, RowInserted DEF Switch, TypeOK
<1>4. PICK p \in {"sync", "tell"} :
        /\ Reads(h, 1, p)
        /\ \/ p = "sync" /\ task[h].op \notin OfAdmin
           \/ p = "tell" /\ task[h].op = "power" /\ task[h].thing = Power
  BY <1>1, <1>2, OpsOf DEF Shape
<1>5. /\ task' \in [Handlers -> Tasks \cup {Idle}]
      /\ \A g \in Handlers \ {h} : task'[g] = task[g]
      /\ task'[h] = [task[h] EXCEPT !.seen = 1, !.pc = p] /\ task'[h] \in Tasks
  <2>1. p \in Steps /\ 1 \in 0..MaxRow
    BY UsersAssumption DEF Steps
  <2> QED
    BY <1>1, <1>4, <2>1, ReadingOn
<1>6. /\ task'[h].op = task[h].op /\ task'[h].thing = task[h].thing
      /\ task'[h].pc = p /\ task'[h].seen = 1
  BY <1>2, <1>5 DEF Tasks
<1>7. Shape(task'[h])
  BY <1>2, <1>4, <1>5, <1>6, OpsOf DEF Shape
<1>8. TypeOK'
  BY <1>1, <1>3, <1>5 DEF TypeOK
<1>9. ShapeInv'
  BY <1>1, <1>3, <1>4, <1>5, <1>7, KeepsShape
<1>10. SwitchInv'
  <2>1. task'[h].pc # "idle"
    BY <1>7 DEF Shape, Tasks, Steps
  <2>2. (Switch = power)'
    BY <1>1, <1>3 DEF IInv, SwitchInv
  <2>3. ASSUME NEW g \in barred'
        PROVE  ~IsAt(g, "idle")' /\ Shut(g)'
    <3>1. g \in barred /\ g \in Handlers /\ power' = power
      BY <1>1 DEF TypeOK
    <3>2. CASE g = h
      BY <3>1, <3>2, <1>1, <1>6, <2>1 DEF Shut, IsAt
    <3>3. CASE g # h
      BY <3>1, <3>3, <1>5 DEF IInv, SwitchInv, Shut, IsAt
    <3> QED
      BY <3>2, <3>3
  <2> QED
    BY <2>2, <2>3 DEF SwitchInv
<1>11. \A x \in Things : Actual(x)' = Actual(x)
  BY <1>1, <1>3 DEF Actual
<1>12. Keeps(h)
  <2>1. task'[h] # Idle
    BY <1>7 DEF Shape, Tasks, Steps, Idle
  <2>2. h \in alone /\ p = "tell" =>
          \A x \in Things : x = task[h].thing => Told(task'[h]) = Actual(x)'
    <3> SUFFICES ASSUME h \in alone, p = "tell", NEW x \in Things, x = task[h].thing
                 PROVE  Told(task'[h]) = Actual(x)'
      OBVIOUS
    <3>1. task'[h].op = "power" /\ x = Power /\ "power" \in OfAdmin
      BY <1>4, <1>6, OpsOf
    <3>2. Switch
      BY <1>1, <1>6, <3>1 DEF IInv, KnowsInv, IsAt
    <3>3. Told(task'[h]) = Label(TRUE)
      <4>1. Told(task'[h]) = Label(1 # 0)
        BY <3>1, <1>6 DEF Told
      <4> QED
        BY <4>1 DEF Label
    <3>4. Actual(Power) = Label(TRUE)
      BY <3>2 DEF Actual, Label
    <3> QED
      BY <3>1, <3>3, <3>4, <1>11
  <2> QED
    BY <1>1, <1>3, <1>4, <1>5, <1>6, <2>1, <2>2 DEF Keeps
<1>13. AloneInv' /\ KnowsInv' /\ ShownInv'
  BY <1>1, <1>8, <1>12, KeepsLabels
<1> QED
  BY <1>8, <1>9, <1>10, <1>13 DEF IInv

\* The toggle turns the row that is read, whoever made it.
LEMMA TurnsPreserves ==
  ASSUME IInv, NEW h \in Handlers, task[h].pc \in {"write", "insert"},
         task[h].op = "toggle", NEW table \in Seq(BOOLEAN), table # <<>>,
         NEW value \in BOOLEAN, Turns(h, table, value)
  PROVE  IInv'
<1>1. /\ UNCHANGED <<users, favorite, alone, shown>> /\ power' = value
      /\ barred' = (IF value THEN {} ELSE barred)
      /\ rows' = Turned(table, value) /\ TypeOK /\ ShapeInv
      /\ (h \notin barred \/ task[h].op \notin Gated) /\ task[h].pc \notin {"idle", "tell"}
  BY BarredIsBarred DEF Turns, IsAt, IInv
<1>2. PICK v \in {0, 1} : v = (IF value THEN 1 ELSE 0) /\ Reads(h, v, "tell")
  BY DEF Turns
<1>3. /\ Shape(task[h]) /\ task[h] \in Tasks /\ task[h].op \in OfAdmin
      /\ task[h].thing = Power /\ Shows(task[h].op)
  BY <1>1, AtAStep, OpsOf DEF Shape
<1>4. /\ task' \in [Handlers -> Tasks \cup {Idle}]
      /\ \A g \in Handlers \ {h} : task'[g] = task[g]
      /\ task'[h] = [task[h] EXCEPT !.seen = v, !.pc = "tell"] /\ task'[h] \in Tasks
  <2>1. "tell" \in Steps /\ v \in 0..MaxRow
    BY UsersAssumption DEF Steps
  <2>2. TypeOK /\ ShapeInv /\ task[h].pc # "idle" /\ Reads(h, v, "tell")
    BY <1>1, <1>2
  <2> QED
    BY <2>1, <2>2, ReadingOn
<1>5. /\ task'[h].op = task[h].op /\ task'[h].thing = task[h].thing
      /\ task'[h].pc = "tell" /\ task'[h].seen = v
  BY <1>3, <1>4 DEF Tasks
<1>6. Shape(task'[h])
  BY <1>3, <1>4, <1>5, OpsOf DEF Shape
<1>7. rows' \in Seq(BOOLEAN) /\ rows' # <<>> /\ Switch' = value
  BY <1>1, RowTurned DEF Switch
<1>8. TypeOK'
  BY <1>1, <1>4, <1>7 DEF TypeOK
<1>9. SwitchInv'
  <2>1. (Switch = power)'
    BY <1>1, <1>7
  <2>2. task[h].op \notin Gated
    BY <1>3, OpsOf
  <2>3. \A g \in barred' : ~IsAt(g, "idle")' /\ Shut(g)'
    <3> SUFFICES ASSUME NEW g \in barred'
                 PROVE  ~IsAt(g, "idle")' /\ Shut(g)'
      OBVIOUS
    <3>1. g \in barred /\ g \in Handlers /\ ~power'
      BY <1>1 DEF TypeOK
    <3>2. CASE g = h
      BY <3>2, <1>5, <2>2 DEF Shut, IsAt
    <3>3. CASE g # h
      BY <3>1, <3>3, <1>4 DEF IInv, SwitchInv, Shut, IsAt
    <3> QED
      BY <3>2, <3>3
  <2> QED
    BY <2>1, <2>3 DEF SwitchInv
<1>10. \A x \in Things : x = task[h].thing => Told(task'[h]) = Actual(x)'
  <2>1. Told(task'[h]) = Label(v # 0)
    BY <1>5 DEF Told
  <2>2. Actual(Power)' = Label(value)
    BY <1>7 DEF Actual
  <2>3. CASE value
    <3>1. v # 0
      BY <2>3, <1>2
    <3> QED
      BY <2>1, <2>2, <2>3, <3>1, <1>3 DEF Label
  <2>4. CASE ~value
    <3>1. ~(v # 0)
      BY <2>4, <1>2
    <3> QED
      BY <2>1, <2>2, <2>4, <3>1, <1>3 DEF Label
  <2> QED
    BY <2>3, <2>4
<1> QED
  BY <1>1, <1>3, <1>4, <1>5, <1>6, <1>7, <1>8, <1>9, <1>10, WritingPreserves

LEMMA TogglePreserves ==
  ASSUME IInv, NEW h \in Handlers, Toggle(h) \/ InsertAndToggle(h) PROVE IInv'
<1>1. rows \in Seq(BOOLEAN) /\ ShapeInv /\ (task[h].seen = 0) \in BOOLEAN
  BY DEF IInv, TypeOK
<1>2. CASE Toggle(h)
  <2>1. task[h].pc = "write" /\ task[h].op = "toggle" /\ Turns(h, rows, task[h].seen = 0)
    BY <1>2 DEF Toggle, IsAt
  <2>2. rows # <<>>
    BY <1>1, <2>1 DEF ShapeInv, IsAt, Idle
  <2> QED
    BY <1>1, <2>1, <2>2, TurnsPreserves
<1>3. CASE InsertAndToggle(h)
  <2>1. /\ task[h].pc = "insert" /\ task[h].op = "toggle"
        /\ Turns(h, Append(rows, TRUE), FALSE)
    BY <1>3 DEF InsertAndToggle, IsAt
  <2>2. Append(rows, TRUE) \in Seq(BOOLEAN) /\ Append(rows, TRUE) # <<>>
    BY <1>1, RowInserted
  <2> QED
    BY <2>1, <2>2, TurnsPreserves
<1> QED
  BY <1>2, <1>3

-----------------------------------------------------------------------------
\* A handler that ends with a label shows what it has found if it was alone, and
\* otherwise nobody relies on it.
LEMMA TellsPreserve ==
  ASSUME IInv, NEW h \in Handlers, Tell(h) \/ TellFails(h) PROVE IInv'
<1>1. /\ task[h].pc = "tell" /\ task[h].pc # "idle" /\ Ends(h)
      /\ UNCHANGED <<rows, users, favorite, power>> /\ TypeOK /\ ShapeInv
  BY DEF Tell, TellFails, IsAt, dbVars, IInv
<1>2. /\ task' \in [Handlers -> Tasks \cup {Idle}]
      /\ \A g \in Handlers \ {h} : task'[g] = task[g]
      /\ task'[h] = Idle
      /\ barred' = barred \ {h} /\ alone' = alone \ {h}
  BY <1>1, Ending
<1>3. Shape(task[h]) /\ task[h].thing \in Things
  BY <1>1, AtAStep DEF Shape, Tasks
<1>4. PICK label \in {"nothing", Told(task[h])} :
        /\ shown' = [shown EXCEPT ![task[h].thing] = label]
        /\ label # "nothing" => h \in alone
  BY DEF Tell, TellFails
<1>5. Told(task[h]) \in {"yes", "no"}
  BY DEF Told, Label
<1>6. TypeOK'
  BY <1>1, <1>2, <1>3, <1>4, <1>5 DEF TypeOK
<1>7. ShapeInv'
  BY <1>1, <1>2, KeepsShape
<1>8. Switch' = Switch /\ \A x \in Things : Actual(x)' = Actual(x)
  BY <1>1 DEF Switch, Actual
<1>9. SwitchInv'
  BY <1>1, <1>2, <1>8 DEF IInv, SwitchInv, Shut, IsAt, TypeOK
<1>10. \A x \in Things :
         \/ shown'[x] = shown[x] /\ x # task[h].thing
         \/ x = task[h].thing /\ shown'[x] \in {"nothing", Actual(x)'}
  <2> SUFFICES ASSUME NEW x \in Things
               PROVE  \/ shown'[x] = shown[x] /\ x # task[h].thing
                      \/ x = task[h].thing /\ shown'[x] \in {"nothing", Actual(x)'}
    OBVIOUS
  <2>1. CASE x # task[h].thing
    BY <2>1, <1>1, <1>4 DEF TypeOK
  <2>2. CASE x = task[h].thing
    <3>1. shown'[x] = label
      BY <2>2, <1>1, <1>4 DEF TypeOK
    <3>2. CASE label = "nothing"
      BY <3>1, <3>2, <2>2
    <3>3. CASE label = Told(task[h]) /\ h \in alone
      <4>1. Told(task[h]) = Actual(x)
        BY <3>3, <2>2, <1>1 DEF IInv, KnowsInv, IsAt
      <4> QED
        BY <4>1, <3>1, <3>3, <2>2, <1>8
    <3> QED
      BY <3>2, <3>3, <1>4
  <2> QED
    BY <2>1, <2>2
<1>11. Keeps(h)
  <2>1. h \notin alone'
    BY <1>2
  <2> QED
    BY <1>1, <1>2, <1>8, <1>10, <2>1 DEF Keeps
<1>12. AloneInv' /\ KnowsInv' /\ ShownInv'
  BY <1>1, <1>6, <1>11, KeepsLabels
<1> QED
  BY <1>6, <1>7, <1>9, <1>12 DEF IInv

-----------------------------------------------------------------------------
\* An update that arrives is alone if nobody is at work on its thing, and whoever
\* was is so no more.
LEMMA ArrivesPreserves ==
  ASSUME IInv, NEW h \in Handlers, NEW op \in Updates, NEW u \in People,
         NEW s \in Symbols, Arrives(h, op, u, s)
  PROVE  IInv'
<1> DEFINE x == IF op \in OfAdmin THEN Power ELSE <<u, s>>
           t == [pc |-> Entry(op), op |-> op, user |-> u, thing |-> x, seen |-> 0]
<1>1. /\ task[h].pc = "idle" /\ task' = [task EXCEPT ![h] = t]
      /\ op \in OfAdmin => u = Admin
      /\ barred' = (IF u # Admin /\ ~power THEN barred \cup {h} ELSE barred)
      /\ alone' = (IF ~Shows(op) THEN alone
                     ELSE (alone \ AtWork(x)) \cup {g \in {h} : AtWork(x) = {}})
      /\ UNCHANGED <<rows, users, favorite, power, shown>> /\ TypeOK /\ ShapeInv
  BY DEF Arrives, IsAt, dbVars, IInv
<1>2. Entry(op) \in {"gate", "look", "sync", "session"}
  BY DEF Entry
<1>3. x \in Things /\ (op \in OfAdmin <=> x = Power) /\ (op \notin OfAdmin => x \in Pairs)
  <2>1. <<u, s>> \in Pairs
    BY DEF Pairs
  <2> QED
    BY <2>1, PowerIsNoPair
<1>4. t \in Tasks /\ t # Idle
  BY <1>2, <1>3, UsersAssumption DEF Tasks, Steps, Idle
<1>5. Shape(t)
  <2>1. op \in Gated \/ op \in OfAdmin \/ op \in OnSymbol \/ op \in OnLists
    BY DEF Updates
  <2>2. /\ Entry(op) = "gate" => op \in Gated
        /\ Entry(op) = "look" => op \in OfAdmin
        /\ Entry(op) \in {"sync", "session"} => op \notin OfAdmin /\ op \notin Gated
    BY DEF Entry, Gated, OfAdmin
  <2> QED
    BY <1>2, <1>3, <1>4, <2>1, <2>2 DEF Shape
<1>6. /\ task \in [Handlers -> Tasks \cup {Idle}] /\ task' \in [Handlers -> Tasks \cup {Idle}]
      /\ task'[h] = t /\ \A g \in Handlers \ {h} : task'[g] = task[g]
  BY <1>1, <1>4 DEF TypeOK
<1>7. task[h] = Idle
  <2>1. task[h] \in Tasks => task[h].pc # "idle"
    BY DEF Tasks, Steps
  <2> QED
    BY <2>1, <1>1, <1>6
<1>8. TypeOK'
  BY <1>1, <1>6 DEF TypeOK
<1>9. ShapeInv'
  BY <1>1, <1>2, <1>5, <1>6, KeepsShape
<1>10. Switch' = Switch /\ \A y \in Things : Actual(y)' = Actual(y)
  BY <1>1 DEF Switch, Actual
<1>11. SwitchInv'
  <2>1. h \in barred' => u # Admin /\ ~power
    BY <1>1 DEF IInv, SwitchInv, IsAt
  <2>2. op \in Gated => Entry(op) = "gate"
    <3>1. op \in Gated => op \notin OfAdmin /\ op \notin {"open", "alerts"}
      BY DEF Gated, OfAdmin
    <3> QED
      BY <3>1 DEF Entry
  <2> QED
    BY <1>1, <1>2, <1>6, <1>10, <2>1, <2>2 DEF IInv, SwitchInv, Shut, IsAt, TypeOK
<1>12. h \notin alone /\ \A y : h \notin AtWork(y)
  BY <1>1, <1>7 DEF IInv, AloneInv, AtWork, Busy, IsAt
<1>13. /\ \A y : \A g \in AtWork(y)' : g # h => g \in AtWork(y)
       /\ \A y : h \in AtWork(y)' => Shows(op) /\ y = x
       /\ Shows(op) => h \in AtWork(x)'
       /\ \A y : \A g \in AtWork(y) : g \in AtWork(y)'
  BY <1>1, <1>2, <1>6, <1>12 DEF AtWork, Busy, IsAt
<1>14. AloneInv'
  <2> SUFFICES ASSUME NEW g \in alone'
               PROVE  /\ task'[g] # Idle /\ Shows(task'[g].op)
                      /\ \A k \in AtWork(task[g].thing)' : k = g
    BY DEF AloneInv
  <2>1. CASE g = h
    <3>1. Shows(op) /\ AtWork(x) = {}
      BY <2>1, <1>1, <1>12
    <3>2. task'[g].op = op /\ task'[g].thing = x
      BY <2>1, <1>6
    <3> QED
      BY <2>1, <3>1, <3>2, <1>4, <1>6, <1>13
  <2>2. CASE g # h
    <3>1. g \in alone /\ g \in Handlers /\ task'[g] = task[g]
      BY <2>2, <1>1, <1>6 DEF TypeOK
    <3>2. /\ task[g] # Idle /\ Shows(task[g].op)
          /\ \A k \in AtWork(task[g].thing) : k = g
      BY <3>1 DEF IInv, AloneInv
    <3>3. Shows(op) => task[g].thing # x
      <4>1. g \in AtWork(task[g].thing)
        BY <3>1, <3>2, <1>6 DEF AtWork, Busy, IsAt, Tasks, Steps
      <4> QED
        BY <4>1, <2>2, <1>1
    <3> QED
      BY <3>1, <3>2, <3>3, <1>13
  <2> QED
    BY <2>1, <2>2
<1>15. KnowsInv'
  <2> SUFFICES ASSUME NEW g \in alone'
               PROVE  /\ task'[g].pc = "tell" =>
                           \A y \in Things : y = task'[g].thing => Told(task'[g]) = Actual(y)'
                      /\ task'[g].pc = "write" /\ task'[g].op = "remove"
                           => task'[g].seen = favorite'[task'[g].thing]
                      /\ task'[g].pc = "insert" /\ task'[g].op \in OfAdmin => Switch'
    BY DEF KnowsInv, IsAt
  <2>1. CASE g = h
    BY <2>1, <1>2, <1>6
  <2>2. CASE g # h
    <3>1. g \in alone /\ g \in Handlers /\ task'[g] = task[g]
      BY <2>2, <1>1, <1>6 DEF TypeOK
    <3> QED
      BY <3>1, <1>1, <1>10 DEF IInv, KnowsInv, IsAt
  <2> QED
    BY <2>1, <2>2
<1>16. ShownInv'
  <2> SUFFICES ASSUME NEW y \in Things, shown'[y] # "nothing",
                      \A g \in AtWork(y)' : task'[g].pc # "tell"
               PROVE  shown'[y] = Actual(y)'
    BY DEF ShownInv, IsAt
  <2>1. \A g \in AtWork(y) : task[g].pc # "tell"
    BY <1>6, <1>12, <1>13 DEF AtWork, Busy
  <2> QED
    BY <2>1, <1>1, <1>10 DEF IInv, ShownInv, IsAt
<1> QED
  BY <1>8, <1>9, <1>11, <1>14, <1>15, <1>16 DEF IInv

-----------------------------------------------------------------------------
LEMMA IInvHolds == Spec => []IInv
<1>1. ASSUME IInv, [Next]_vars
      PROVE  IInv'
  <2>1. CASE UNCHANGED vars
    <3>1. UNCHANGED <<rows, users, favorite, task, power, barred, alone, shown>>
      BY <2>1 DEF vars, dbVars, worldVars
    <3>2. /\ \A x \in Things : Actual(x)' = Actual(x)
          /\ \A x : AtWork(x)' = AtWork(x) 
          /\ Switch' = Switch
      BY <3>1 DEF Actual, Switch, AtWork, Busy, IsAt
    <3> QED
      BY <3>1, <3>2, <1>1 DEF IInv, TypeOK, ShapeInv, SwitchInv, Shut, AloneInv,
                              KnowsInv, ShownInv, IsAt
  <2>2. CASE Next
    <3>1. PICK h \in Handlers :
            \/ \E op \in Updates, u \in People, s \in Symbols : Arrives(h, op, u, s)
            \/ Barred(h)      \/ Admitted(h)       \/ Look(h)   \/ InsertSettings(h)
            \/ Toggle(h)      \/ InsertAndToggle(h)
            \/ Sync(h)        \/ Fetched(h)        \/ NotFound(h) \/ Found(h)
            \/ AddFavorite(h) \/ RemoveFavorite(h)
            \/ Tell(h)        \/ TellFails(h)      \/ Answer(h) \/ Fails(h)
      BY <2>2 DEF Next
    <3>2. CASE \E op \in Updates, u \in People, s \in Symbols : Arrives(h, op, u, s)
      BY <3>2, <1>1, ArrivesPreserves
    <3>3. CASE Barred(h) \/ NotFound(h) \/ Answer(h) \/ Fails(h)
      BY <3>3, <1>1, EndsPreserve
    <3>4. CASE Admitted(h)
      BY <3>4, <1>1, AdmittedPreserves
    <3>5. CASE Look(h)
      BY <3>5, <1>1, LookPreserves
    <3>6. CASE InsertSettings(h)
      BY <3>6, <1>1, InsertSettingsPreserves
    <3>7. CASE Toggle(h) \/ InsertAndToggle(h)
      BY <3>7, <1>1, TogglePreserves
    <3>8. CASE Sync(h)
      BY <3>8, <1>1, SyncPreserves
    <3>9. CASE Fetched(h)
      BY <3>9, <1>1, FetchedPreserves
    <3>10. CASE Found(h)
      BY <3>10, <1>1, FoundPreserves
    <3>11. CASE AddFavorite(h)
      BY <3>11, <1>1, AddFavoritePreserves
    <3>12. CASE RemoveFavorite(h)
      BY <3>12, <1>1, RemoveFavoritePreserves
    <3>13. CASE Tell(h) \/ TellFails(h)
      BY <3>13, <1>1, TellsPreserve
    <3> QED
      BY <3>1, <3>2, <3>3, <3>4, <3>5, <3>6, <3>7, <3>8, <3>9, <3>10, <3>11, <3>12,
         <3>13
  <2> QED
    BY <1>1, <2>1, <2>2
<1> QED
  BY InitIInv, <1>1, PTL DEF Spec

\* The variables keep their types.
THEOREM TypeCorrect == Spec => []TypeOK
<1>1. IInv => TypeOK
  BY DEF IInv
<1> QED
  BY <1>1, IInvHolds, PTL

\* Nobody but the admin gets past a gate with what he sent after the bot was
\* turned off: there is one row that all look at and the toggle turns, and who
\* is barred finds the committed value in it (_is_bot_enabled_for_user).
THEOREM GatesAreShut == Spec => []GatesHold
<1>1. IInv => GatesHold
  BY DEF IInv, SwitchInv, Shut, GatesHold
<1> QED
  BY <1>1, IInvHolds, PTL

\* A label that a handler has shown alone is what the database says, until
\* another is at work on the same thing (price and favorite handlers, the
\* admin's power button).
THEOREM LabelsHold == Spec => []LabelsTruthful
<1>1. IInv => LabelsTruthful
  BY DEF IInv, ShownInv, LabelsTruthful
<1> QED
  BY <1>1, IInvHolds, PTL
=============================================================================
