---------------------------- MODULE AutoPostProofs ----------------------------
(***************************************************************************)
(* Proofs about AutoPost, for every set of chats and of intervals and      *)
(* every bound on the clock.                                               *)
(*                                                                         *)
(* The safety properties rest on three separate arguments.  PassShape says *)
(* which locals of a pass mean something when; LateInv and PowerInv count  *)
(* a late dashboard of either way only when nothing is left in the pass    *)
(* that could send another one of that way; RecordInv ties what a pass has *)
(* flushed to the time it read.                                            *)
(*                                                                         *)
(* AutoPost lets a handler write what follows from the row as it is.  None *)
(* of the arguments needs that: they are made for OpenSpec, where anything *)
(* may be written to the columns that the pass does not write, and so hold *)
(* of handlers that write what they computed from a row read long ago.     *)
(***************************************************************************)
EXTENDS AutoPost, TLAPS

\* Where the locals of a pass stand: a chat is being flushed only at that step,
\* the list and the flushed rows exist only in a pass, and no chat is in two
\* places.
PassShape ==
  /\ pc \in {"falling back", "flushing"} <=> current # NoChat
  /\ sent => pc = "flushing"
  /\ pc \in {"asleep", "listing"} => todo = {} /\ dirty = {} /\ ~locked
  /\ dirty # {} => locked
  /\ todo \cap dirty = {}
  /\ current \notin todo \cup dirty

\* A dashboard of this way may still reach the chat in this pass: it is on the
\* list, or its edit has failed and the message is next.
ToCome(c, way) == \/ c \in todo
                  \/ way = "message" /\ pc = "falling back" /\ c = current

\* A chat that got a late dashboard is off the list, and will not be put on it
\* while it is unwanted.
Late(c, way) == /\ lateUnwanted[c][way] \in {0, 1}
                /\ lateUnwanted[c][way] = 1 => ~ToCome(c, way)
                /\ Wanted(c) => lateUnwanted[c][way] = 0
LateInv == \A c \in Chats : \A way \in Ways : Late(c, way)

\* With the bot off, a pass that goes on to list chats has sent nothing since.
Dark(c, way) == /\ latePower[c][way] \in {0, 1}
                /\ latePower[c][way] = 1 => ~ToCome(c, way) /\ pc # "listing"
                /\ botEnabled => latePower[c][way] = 0
PowerInv == \A c \in Chats : \A way \in Ways : Dark(c, way)

\* What a pass will record of a chat is the pass in which it was sent to, and
\* nothing in the world is later than the pass under way.
RecordInv ==
  /\ \A c \in Chats : lastPass[c] <= now
  /\ \A c \in Unrecorded : lastPass[c] = passNow
  /\ pc \in {"posting", "falling back", "flushing"} =>
       passNow <= now /\ \A c \in Chats : lastPass[c] <= passNow

IInv == /\ TypeOK /\ PassShape /\ LateInv /\ PowerInv
        /\ RecordInv /\ RecordMatchesWorld

\* The handlers as the proofs see them: a write of any values to the columns of a
\* chat, on the strength of whatever was read before, but for last_sent_at.
SetRow(c) == \E row \in Row : row.last = chat[c].last /\ Write(c, row)
OpenNext  == TogglePower \/ (\E c \in Chats : SetRow(c)) \/ Scheduler \/ Crash \/ Tick
OpenSpec  == Init /\ [][OpenNext]_vars

-----------------------------------------------------------------------------
\* The bot starts with every invariant true.
LEMMA InitIInv == Init => IInv
<1> SUFFICES ASSUME Init
             PROVE  IInv
  OBVIOUS
<1>1. \A c \in Chats : chat[c].last = 0
  BY DEF Init
<1>2. TypeOK
  <2>1. chat \in [Chats -> Row]
    BY DEF Init
  <2>2. botEnabled \in BOOLEAN
    BY Zenon DEF Init
  <2>3. sent \in BOOLEAN /\ locked \in BOOLEAN
    BY Zenon DEF Init
  <2>4. /\ now \in 1..MaxTime /\ wakeAt \in 0..(MaxTime + 1) /\ passNow \in 0..MaxTime
        /\ pc \in Steps
        /\ todo \subseteq Chats /\ dirty \subseteq Chats /\ lost \subseteq Chats
        /\ current \in Chats \cup {NoChat}
    BY AutoPostAssumption DEF Init, Steps
  <2>5. /\ lastPass \in [Chats -> 0..MaxTime] /\ lateUnwanted \in [Chats -> Counts]
        /\ latePower \in [Chats -> Counts]
    BY AutoPostAssumption DEF Init, None, Counts
  <2> QED
    BY <2>1, <2>2, <2>3, <2>4, <2>5 DEF TypeOK
<1>3. PassShape
  BY AutoPostAssumption DEF Init, PassShape
<1>5. LateInv /\ PowerInv
  BY DEF Init, LateInv, PowerInv, Late, Dark, ToCome, None
<1>4. RecordInv /\ RecordMatchesWorld
  BY <1>1, AutoPostAssumption DEF Init, RecordInv, RecordMatchesWorld, Unrecorded
<1> QED
  BY <1>2, <1>3, <1>4, <1>5 DEF IInv

\* What a pass has not recorded yet are chats: NoChat is flushed by nothing.
LEMMA UnrecordedChats == TypeOK /\ PassShape => Unrecorded \subseteq Chats
BY DEF TypeOK, PassShape, Unrecorded

\* What is seen of a dashboard that appears in chat c.
LEMMA AppearsIsLocal ==
  ASSUME TypeOK, NEW c \in Chats, NEW way \in Ways, Appears(c, way)
  PROVE  /\ lastPass'[c] = passNow
         /\ lateUnwanted'[c][way] =
              IF Wanted(c) THEN lateUnwanted[c][way] ELSE lateUnwanted[c][way] + 1
         /\ latePower'[c][way] =
              IF botEnabled THEN latePower[c][way] ELSE latePower[c][way] + 1
         /\ \A d \in Chats : d # c => lastPass'[d] = lastPass[d]
         /\ \A d \in Chats, v \in Ways : (d # c \/ v # way) =>
              /\ lateUnwanted'[d][v] = lateUnwanted[d][v]
              /\ latePower'[d][v] = latePower[d][v]
         /\ lastPass' \in [Chats -> 0..MaxTime]
         /\ lateUnwanted' \in [Chats -> Counts]
         /\ latePower' \in [Chats -> Counts]
<1>1. /\ lastPass'[c] = passNow
      /\ \A d \in Chats : d # c => lastPass'[d] = lastPass[d]
      /\ lastPass' \in [Chats -> 0..MaxTime]
  BY DEF Appears, TypeOK, Counts
<1>2. /\ lateUnwanted'[c][way] =
           IF Wanted(c) THEN lateUnwanted[c][way] ELSE lateUnwanted[c][way] + 1
      /\ \A d \in Chats, v \in Ways : (d # c \/ v # way) =>
           lateUnwanted'[d][v] = lateUnwanted[d][v]
      /\ lateUnwanted' \in [Chats -> Counts]
  BY DEF Appears, TypeOK, Counts
<1>3. /\ latePower'[c][way] =
           IF botEnabled THEN latePower[c][way] ELSE latePower[c][way] + 1
      /\ \A d \in Chats, v \in Ways : (d # c \/ v # way) =>
           latePower'[d][v] = latePower[d][v]
      /\ latePower' \in [Chats -> Counts]
  BY DEF Appears, TypeOK, Counts
<1> QED
  BY <1>1, <1>2, <1>3

\* What the outcomes of a chat's turn have in common: it is the chat's turn, the
\* list loses it, and a dashboard that appears is an edit made while the chat was
\* on the list, or a message that ends the turn.
Effect(c) ==
  \/ UNCHANGED worldVars /\ ~sent'
  \/ \E way \in Ways :
       /\ Appears(c, way) /\ ToCome(c, way)
       /\ way = "message" => pc' = "flushing"
       /\ lost' = lost \cup {c} \/ (lost' = lost /\ sent')

LEMMA TurnIsTaken ==
  ASSUME NEW c \in Chats, SendDashboard(c)
  PROVE  /\ (pc = "posting" /\ c \in todo) \/ (pc = "falling back" /\ c = current)
         /\ todo' = todo \ {c} /\ current' = c
         /\ sent' = TRUE \/ sent' = FALSE
         /\ pc' = "flushing" \/ (pc' = "falling back" /\ c \in todo)
         /\ pc' = "flushing" \/ ~sent'
         /\ UNCHANGED <<now, chat, wakeAt, passNow, dirty>>
         /\ botEnabled' = botEnabled /\ locked' = locked
         /\ Effect(c)
<1> USE DEF Turn, dbVars
<1>1. /\ (pc = "posting" /\ c \in todo) \/ (pc = "falling back" /\ c = current)
      /\ todo' = todo \ {c} /\ current' = c
      /\ pc' = "flushing" \/ (pc' = "falling back" /\ c \in todo)
      /\ UNCHANGED <<now, chat, wakeAt, passNow, dirty>>
  <2>1. \/ MayEdit(c) /\ (pc' = "flushing" \/ pc' = "falling back")
        \/ MaySend(c) /\ pc' = "flushing"
    BY Zenon DEF SendDashboard, EditOk, EditFails, EditReplyLost, SendOk, SendFails,
                 SendReplyLost
  <2>2. todo' = todo \ {c} /\ current' = c
    BY Zenon DEF SendDashboard, EditOk, EditFails, EditReplyLost, SendOk, SendFails,
                 SendReplyLost
  <2>3. UNCHANGED <<now, chat, wakeAt, passNow, dirty>>
    BY DEF SendDashboard, EditOk, EditFails, EditReplyLost, SendOk, SendFails,
           SendReplyLost
  <2>4. MayEdit(c) => MaySend(c) /\ c \in todo
    BY DEF MayEdit, MaySend
  <2>5. /\ (pc = "posting" /\ c \in todo) \/ (pc = "falling back" /\ c = current)
        /\ pc' = "flushing" \/ (pc' = "falling back" /\ c \in todo)
    BY <2>1, <2>4 DEF MaySend
  <2> QED
    BY <2>2, <2>3, <2>5
<1>2. /\ sent' = TRUE \/ sent' = FALSE
      /\ pc' = "flushing" \/ ~sent'
  BY Zenon DEF SendDashboard, EditOk, EditFails, EditReplyLost, SendOk, SendFails,
               SendReplyLost
<1>3. botEnabled' = botEnabled /\ locked' = locked
  BY Zenon DEF SendDashboard, EditOk, EditFails, EditReplyLost, SendOk, SendFails,
               SendReplyLost
<1>4. Effect(c)
  <2>1. "edit" \in Ways /\ "message" \in Ways /\ "edit" # "message"
    BY DEF Ways
  <2>2. CASE EditOk(c)
    <3>1. Appears(c, "edit") /\ ToCome(c, "edit") /\ lost' = lost /\ sent'
      BY <2>2 DEF EditOk, MayEdit, ToCome
    <3> QED
      BY <2>1, <3>1 DEF Effect
  <2>3. CASE EditFails(c) \/ SendFails(c)
    <3>1. UNCHANGED worldVars /\ ~sent'
      BY <2>3 DEF EditFails, SendFails
    <3> QED
      BY <3>1 DEF Effect
  <2>4. CASE EditReplyLost(c)
    <3>1. Appears(c, "edit") /\ ToCome(c, "edit") /\ lost' = lost \cup {c}
      BY <2>4 DEF EditReplyLost, MayEdit, ToCome
    <3> QED
      BY <2>1, <3>1 DEF Effect
  <2>5. CASE SendOk(c)
    <3>1. /\ Appears(c, "message") /\ ToCome(c, "message") /\ lost' = lost /\ sent'
          /\ pc' = "flushing"
      BY <2>5 DEF SendOk, MaySend, ToCome
    <3> QED
      BY <2>1, <3>1 DEF Effect
  <2>6. CASE SendReplyLost(c)
    <3>1. /\ Appears(c, "message") /\ ToCome(c, "message") /\ lost' = lost \cup {c}
          /\ pc' = "flushing"
      BY <2>6 DEF SendReplyLost, MaySend, ToCome
    <3> QED
      BY <2>1, <3>1 DEF Effect
  <2> QED
    BY <2>2, <2>3, <2>4, <2>5, <2>6 DEF SendDashboard
<1> QED
  BY <1>1, <1>2, <1>3, <1>4

\* The clocks are numbers.
LEMMA Clocks ==
  ASSUME TypeOK
  PROVE  /\ now \in Nat /\ passNow \in Nat
         /\ \A c \in Chats : lastPass[c] \in Nat /\ chat[c].last \in Nat
<1>1. now \in 1..MaxTime /\ passNow \in 0..MaxTime
  BY DEF TypeOK
<1>2. ASSUME NEW c \in Chats
      PROVE  lastPass[c] \in Nat /\ chat[c].last \in Nat
  <2>1. chat[c] \in Row /\ lastPass[c] \in 0..MaxTime
    BY DEF TypeOK
  <2> QED
    BY <2>1 DEF Row
<1> QED
  BY <1>1, <1>2

\* Every step keeps the types.
LEMMA TypePreserved == TypeOK /\ PassShape /\ [OpenNext]_vars => TypeOK'
<1> SUFFICES ASSUME TypeOK, PassShape, [OpenNext]_vars
             PROVE  TypeOK'
  OBVIOUS
<1>0. Unrecorded \subseteq Chats
  BY UnrecordedChats
<1> USE AutoPostAssumption DEF TypeOK
<1>1. CASE TogglePower
  <2>1. None \in Counts
    BY DEF None, Counts
  <2>2. latePower' \in [Chats -> Counts]
    BY <1>1, <2>1 DEF TogglePower
  <2>3. UNCHANGED <<now, chat, passNow, wakeAt, pc, todo, dirty, current, lastPass, lost,
                    lateUnwanted>>
    BY <1>1 DEF TogglePower, passVars
  <2>4. botEnabled' \in BOOLEAN /\ sent' = sent /\ locked' = locked
    BY <1>1 DEF TogglePower, passVars
  <2>5. sent' \in BOOLEAN /\ locked' \in BOOLEAN
    BY <2>4
  <2> QED
    BY <2>2, <2>3, <2>4, <2>5
<1>2. ASSUME NEW c \in Chats, SetRow(c)
      PROVE  TypeOK'
  <2>1. PICK row \in Row : Write(c, row)
    BY <1>2 DEF SetRow
  <2>2. None \in Counts
    BY DEF None, Counts
  <2>3. lateUnwanted' \in [Chats -> Counts] /\ chat' \in [Chats -> Row]
    BY <2>1, <2>2 DEF Write
  <2>4. UNCHANGED <<now, passNow, wakeAt, pc, todo, dirty, current, lastPass, lost,
                    latePower>>
    BY <2>1 DEF Write, passVars
  <2>5. UNCHANGED <<botEnabled, sent, locked>>
    BY <2>1 DEF Write, passVars
  <2>6. botEnabled' \in BOOLEAN /\ sent' \in BOOLEAN /\ locked' \in BOOLEAN
    BY <2>5
  <2> QED
    BY <2>3, <2>4, <2>6
<1>3. CASE CheckEnabled \/ ListChats
  <2>0. pc' \in Steps
    BY <1>3 DEF CheckEnabled, ListChats, Steps
  <2>1. /\ wakeAt' \in 0..(MaxTime + 1) /\ passNow' \in 0..MaxTime /\ todo' \subseteq Chats
    <3>1. /\ wakeAt' \in {0, now + 1, wakeAt} /\ passNow' \in {passNow, now}
          /\ todo' \subseteq Chats
      BY <1>3 DEF CheckEnabled, ListChats
    <3> QED
      BY <3>1
  <2>2. UNCHANGED <<now, chat, dirty, current, lastPass, lost, lateUnwanted, latePower>>
    BY <1>3 DEF CheckEnabled, ListChats, dbVars, worldVars
  <2>3. UNCHANGED <<botEnabled, sent, locked>>
    BY <1>3 DEF CheckEnabled, ListChats, dbVars
  <2>4. botEnabled' \in BOOLEAN /\ sent' \in BOOLEAN /\ locked' \in BOOLEAN
    BY <2>3
  <2> QED
    BY <2>0, <2>1, <2>2, <2>4
<1>5. ASSUME NEW c \in Chats, SendDashboard(c)
      PROVE  TypeOK'
  <2>1. /\ todo' \subseteq Chats /\ current' \in Chats \cup {NoChat}
        /\ pc' \in Steps
        /\ UNCHANGED <<now, chat, wakeAt, passNow, dirty>>
    BY <1>5, TurnIsTaken DEF Steps
  <2>2. sent' \in BOOLEAN /\ botEnabled' = botEnabled /\ locked' = locked
    BY <1>5, TurnIsTaken
  <2>3. \/ UNCHANGED worldVars
        \/ \E way \in Ways : Appears(c, way) /\ lost' \in {lost, lost \cup {c}}
    BY <1>5, TurnIsTaken DEF Effect
  <2>4. /\ lastPass' \in [Chats -> 0..MaxTime] /\ lost' \subseteq Chats
        /\ lateUnwanted' \in [Chats -> Counts]
        /\ latePower' \in [Chats -> Counts]
    <3>1. CASE UNCHANGED worldVars
      BY <3>1 DEF worldVars
    <3>2. CASE ~UNCHANGED worldVars
      <4>1. PICK way \in Ways : Appears(c, way) /\ lost' \in {lost, lost \cup {c}}
        BY <2>3, <3>2
      <4> QED
        BY <4>1, AppearsIsLocal
    <3> QED
      BY <3>1, <3>2
  <2>5. botEnabled' \in BOOLEAN /\ locked' \in BOOLEAN
    BY <2>2
  <2> QED
    BY <2>1, <2>2, <2>4, <2>5
<1>6. CASE Flush
  <2>1. dirty' \subseteq Chats
    BY <1>6 DEF Flush, PassShape
  <2>2. current' = NoChat /\ sent' = FALSE /\ locked' = TRUE /\ pc' = "posting"
    BY <1>6 DEF Flush
  <2>3. UNCHANGED <<now, botEnabled, chat, wakeAt, passNow, todo, lastPass, lost,
                    lateUnwanted, latePower>>
    BY <1>6 DEF Flush, dbVars, worldVars
  <2>4. current' \in Chats \cup {NoChat} /\ pc' \in Steps
    BY <2>2 DEF Steps
  <2>5. sent' \in BOOLEAN /\ locked' \in BOOLEAN /\ botEnabled' \in BOOLEAN
    BY <2>2, <2>3
  <2> QED
    BY <2>1, <2>3, <2>4, <2>5
<1>7. CASE FlushFails \/ Crash
  <2>1. todo' = {} /\ dirty' = {} /\ lost' \subseteq Chats
    BY <1>0, <1>7 DEF FlushFails, Crash, SleepAgain, EndPass
  <2>0. sent' = FALSE /\ locked' = FALSE
    BY <1>7 DEF FlushFails, Crash, SleepAgain, EndPass
  <2>2. /\ current' = NoChat /\ passNow' = 0 /\ pc' = "asleep"
        /\ wakeAt' \in 0..(MaxTime + 1)
    BY <1>7 DEF FlushFails, Crash, SleepAgain, EndPass
  <2>3. UNCHANGED <<now, botEnabled, chat, lastPass, lateUnwanted, latePower>>
    BY <1>7 DEF FlushFails, Crash, dbVars
  <2>4. todo' \subseteq Chats /\ dirty' \subseteq Chats
    BY <2>1
  <2>5. /\ current' \in Chats \cup {NoChat} /\ passNow' \in 0..MaxTime
        /\ pc' \in Steps
    <3>1. "asleep" \in Steps
      BY DEF Steps
    <3> QED
      BY <2>2, <3>1
  <2>6. sent' \in BOOLEAN /\ locked' \in BOOLEAN
    BY <2>0
  <2> QED
    BY <2>1, <2>2, <2>3, <2>4, <2>5, <2>6
<1>8. CASE Commit
  <2>1. todo' = {} /\ dirty' = {} /\ lost' \subseteq Chats
    BY <1>8 DEF Commit, SleepAgain, EndPass
  <2>0. sent' = FALSE /\ locked' = FALSE
    BY <1>8 DEF Commit, SleepAgain, EndPass
  <2>2. /\ current' = NoChat /\ passNow' = 0 /\ pc' = "asleep"
        /\ wakeAt' \in 0..(MaxTime + 1)
    BY <1>8 DEF Commit, SleepAgain, EndPass
  <2>3. UNCHANGED <<now, botEnabled, lastPass, lateUnwanted, latePower>>
    BY <1>8 DEF Commit
  <2>4. chat' \in [Chats -> Row]
    BY <1>8 DEF Commit, Row
  <2>5. todo' \subseteq Chats /\ dirty' \subseteq Chats
    BY <2>1
  <2>6. /\ current' \in Chats \cup {NoChat} /\ passNow' \in 0..MaxTime
        /\ pc' \in Steps
    <3>1. "asleep" \in Steps
      BY DEF Steps
    <3> QED
      BY <2>2, <3>1
  <2>7. sent' \in BOOLEAN /\ locked' \in BOOLEAN
    BY <2>0
  <2> QED
    BY <2>1, <2>2, <2>3, <2>4, <2>5, <2>6, <2>7
<1>9. CASE Tick
  BY <1>9 DEF Tick, dbVars, passVars, worldVars
<1>10. CASE UNCHANGED vars
  BY <1>10 DEF vars, dbVars, passVars, worldVars
<1> QED
  BY <1>1, <1>2, <1>3, <1>5, <1>6, <1>7, <1>8, <1>9, <1>10
     DEF OpenNext, Scheduler

\* Every step keeps the shape of the pass.
LEMMA ShapePreserved == TypeOK /\ PassShape /\ [OpenNext]_vars => PassShape'
<1> SUFFICES ASSUME TypeOK, PassShape, [OpenNext]_vars
             PROVE  PassShape'
  OBVIOUS
<1> USE AutoPostAssumption DEF PassShape
<1>1. CASE UNCHANGED passVars
  BY <1>1 DEF passVars
<1>2. CASE TogglePower \/ Tick \/ UNCHANGED vars
  BY <1>1, <1>2 DEF TogglePower, Tick, vars, passVars
<1>3. ASSUME NEW c \in Chats, SetRow(c)
      PROVE  PassShape'
  BY <1>1, <1>3 DEF SetRow, Write
<1>4. CASE CheckEnabled
  BY <1>4 DEF CheckEnabled
<1>5. CASE ListChats
  BY <1>5 DEF ListChats, TypeOK
<1>6. ASSUME NEW c \in Chats, SendDashboard(c)
      PROVE  PassShape'
  <2>1. /\ todo' = todo \ {c} /\ current' = c /\ dirty' = dirty
        /\ pc' = "flushing" \/ pc' = "falling back"
        /\ (pc = "posting" /\ c \in todo) \/ (pc = "falling back" /\ c = current)
    BY <1>6, TurnIsTaken
  <2>2. (pc' = "flushing" \/ ~sent') /\ locked' = locked
    BY <1>6, TurnIsTaken
  <2>3. c # NoChat /\ c \notin dirty
    BY <2>1, AutoPostAssumption
  <2>4. (sent' => pc' = "flushing") /\ (dirty' # {} => locked')
    BY <2>1, <2>2
  <2>5. /\ pc' \in {"falling back", "flushing"} /\ current' # NoChat
        /\ todo' \cap dirty' = {} /\ current' \notin todo' \cup dirty'
    BY <2>1, <2>3
  <2> QED
    BY <2>4, <2>5
<1>7. CASE Flush
  BY <1>7 DEF Flush, TypeOK
<1>8. CASE FlushFails \/ Crash \/ Commit
  BY <1>8 DEF FlushFails, Crash, Commit, SleepAgain, EndPass
<1> QED
  BY <1>2, <1>3, <1>4, <1>5, <1>6, <1>7, <1>8 DEF OpenNext, Scheduler

\* The commit of a pass changes when a chat was posted to and nothing else.
LEMMA CommitKeepsWishes ==
  ASSUME TypeOK, Commit, NEW c \in Chats
  PROVE  /\ Wanted(c)' <=> Wanted(c)
         /\ chat'[c].last = IF c \in dirty THEN passNow ELSE chat[c].last
<1>1. chat'[c] = IF c \in dirty THEN [chat[c] EXCEPT !.last = passNow] ELSE chat[c]
  BY DEF Commit
<1>2. chat[c] \in Row
  BY DEF TypeOK
<1>3. CASE c \in dirty
  <2>1. chat'[c] = [chat[c] EXCEPT !.last = passNow]
    BY <1>1, <1>3
  <2>2. /\ chat'[c].active = chat[c].active /\ chat'[c].auto = chat[c].auto
        /\ chat'[c].last = passNow
    BY <1>2, <2>1 DEF Row
  <2> QED
    BY <1>3, <2>2 DEF Wanted
<1>4. CASE c \notin dirty
  BY <1>1, <1>4 DEF Wanted
<1> QED
  BY <1>3, <1>4

\* A late dashboard is the last one of its way.
LEMMA LatePreserved == TypeOK /\ LateInv /\ [OpenNext]_vars => LateInv'
<1> SUFFICES ASSUME TypeOK, LateInv, [OpenNext]_vars, NEW d \in Chats, NEW v \in Ways
             PROVE  Late(d, v)'
  BY DEF LateInv
<1>0. Late(d, v)
  BY DEF LateInv
<1>1. ASSUME UNCHANGED <<chat, lateUnwanted>>, ToCome(d, v)' => ToCome(d, v)
      PROVE  Late(d, v)'
  BY <1>0, <1>1 DEF Late, Wanted
<1>2. CASE TogglePower \/ Tick \/ UNCHANGED vars
  BY <1>1, <1>2 DEF TogglePower, Tick, vars, dbVars, passVars, worldVars, ToCome
<1>3. ASSUME NEW c \in Chats, SetRow(c)
      PROVE  Late(d, v)'
  <2>1. PICK row \in Row : Write(c, row)
    BY <1>3 DEF SetRow
  <2>2. ToCome(d, v)' <=> ToCome(d, v)
    BY <2>1 DEF Write, passVars, ToCome
  <2>3. CASE d = c
    BY <1>0, <2>1, <2>2, <2>3 DEF Write, Wanted, TypeOK, Late, None
  <2>4. CASE d # c
    BY <1>0, <2>1, <2>2, <2>4 DEF Write, Wanted, TypeOK, Late
  <2> QED
    BY <2>3, <2>4
<1>4. CASE CheckEnabled \/ Flush
  BY <1>1, <1>4 DEF CheckEnabled, Flush, dbVars, worldVars, ToCome
<1>5. CASE ListChats
  BY <1>0, <1>5 DEF ListChats, dbVars, worldVars, Wanted, Late, ToCome
<1>6. ASSUME NEW c \in Chats, SendDashboard(c)
      PROVE  Late(d, v)'
  <2>1. /\ ToCome(d, v)' => ToCome(d, v)
        /\ chat' = chat
    BY <1>6, TurnIsTaken DEF ToCome
  <2>2. CASE UNCHANGED worldVars
    BY <1>1, <2>1, <2>2 DEF worldVars
  <2>3. ASSUME NEW way \in Ways, Appears(c, way), ToCome(c, way),
               way = "message" => pc' = "flushing"
        PROVE  Late(d, v)'
    <3>1. CASE d = c /\ v = way
      <4>1. ~ToCome(d, v)'
        BY <1>6, <2>3, <3>1, TurnIsTaken DEF ToCome
      <4>2. lateUnwanted[d][v] = 0
        BY <1>0, <2>3, <3>1 DEF Late
      <4>3. lateUnwanted'[d][v] = IF Wanted(d) THEN 0 ELSE 1
        BY <2>3, <3>1, <4>2, AppearsIsLocal
      <4> QED
        BY <2>1, <4>1, <4>3 DEF Late, Wanted
    <3>2. CASE d # c \/ v # way
      <4>1. lateUnwanted'[d][v] = lateUnwanted[d][v]
        BY <2>3, <3>2, AppearsIsLocal
      <4> QED
        BY <1>0, <2>1, <4>1 DEF Late, Wanted
    <3> QED
      BY <3>1, <3>2
  <2> QED
    BY <1>6, <2>2, <2>3, TurnIsTaken DEF Effect
<1>7. CASE FlushFails \/ Crash
  BY <1>1, <1>7 DEF FlushFails, Crash, SleepAgain, EndPass, dbVars, ToCome
<1>8. CASE Commit
  <2>1. ~ToCome(d, v)' /\ lateUnwanted' = lateUnwanted
    BY <1>8 DEF Commit, SleepAgain, EndPass, ToCome
  <2> QED
    BY <1>0, <1>8, <2>1, CommitKeepsWishes DEF Late
<1> QED
  BY <1>2, <1>3, <1>4, <1>5, <1>6, <1>7, <1>8 DEF OpenNext, Scheduler

\* A dashboard sent with the bot off is the last one of its way that a chat gets.
LEMMA PowerPreserved == TypeOK /\ PassShape /\ PowerInv /\ [OpenNext]_vars => PowerInv'
<1> SUFFICES ASSUME TypeOK, PassShape, PowerInv, [OpenNext]_vars,
                    NEW d \in Chats, NEW v \in Ways
             PROVE  Dark(d, v)'
  BY DEF PowerInv
<1>0. Dark(d, v)
  BY DEF PowerInv
<1>1. ASSUME UNCHANGED <<botEnabled, latePower>>, ToCome(d, v)' => ToCome(d, v),
             pc' = "listing" => pc = "listing"
      PROVE  Dark(d, v)'
  BY <1>0, <1>1 DEF Dark
<1>2. CASE Tick \/ UNCHANGED vars
  BY <1>1, <1>2 DEF Tick, vars, dbVars, passVars, worldVars, ToCome
<1>3. ASSUME NEW c \in Chats, SetRow(c)
      PROVE  Dark(d, v)'
  BY <1>1, <1>3 DEF SetRow, Write, passVars, ToCome
<1>4. CASE TogglePower
  <2>1. /\ ToCome(d, v)' <=> ToCome(d, v)
        /\ pc' = pc
        /\ latePower' = IF botEnabled' THEN [c \in Chats |-> None] ELSE latePower
    BY <1>4 DEF TogglePower, passVars, ToCome
  <2>2. CASE botEnabled'
    BY <2>1, <2>2 DEF Dark, None
  <2>3. CASE ~botEnabled'
    BY <1>0, <2>1, <2>3 DEF Dark
  <2> QED
    BY <2>2, <2>3
<1>5. CASE CheckEnabled
  <2>1. /\ ~ToCome(d, v)' /\ UNCHANGED <<botEnabled, latePower>>
        /\ pc' = "listing" => botEnabled
    BY <1>5 DEF CheckEnabled, dbVars, worldVars, PassShape, ToCome
  <2> QED
    BY <1>0, <2>1 DEF Dark
<1>6. CASE ListChats
  BY <1>0, <1>6 DEF ListChats, dbVars, worldVars, Dark, ToCome
<1>7. CASE Flush
  BY <1>1, <1>7 DEF Flush, dbVars, worldVars, ToCome
<1>8. ASSUME NEW c \in Chats, SendDashboard(c)
      PROVE  Dark(d, v)'
  <2>1. /\ ToCome(d, v)' => ToCome(d, v)
        /\ botEnabled' = botEnabled /\ pc' # "listing"
    BY <1>8, TurnIsTaken DEF ToCome
  <2>2. CASE UNCHANGED worldVars
    BY <1>1, <2>1, <2>2 DEF worldVars
  <2>3. ASSUME NEW way \in Ways, Appears(c, way), ToCome(c, way),
               way = "message" => pc' = "flushing"
        PROVE  Dark(d, v)'
    <3>1. CASE d = c /\ v = way
      <4>1. ~ToCome(d, v)'
        BY <1>8, <2>3, <3>1, TurnIsTaken DEF ToCome
      <4>2. latePower[d][v] = 0
        BY <1>0, <2>3, <3>1 DEF Dark
      <4>3. latePower'[d][v] = IF botEnabled THEN 0 ELSE 1
        BY <2>3, <3>1, <4>2, AppearsIsLocal
      <4> QED
        BY <2>1, <4>1, <4>3 DEF Dark
    <3>2. CASE d # c \/ v # way
      <4>1. latePower'[d][v] = latePower[d][v]
        BY <2>3, <3>2, AppearsIsLocal
      <4> QED
        BY <1>0, <2>1, <4>1 DEF Dark
    <3> QED
      BY <3>1, <3>2
  <2> QED
    BY <1>8, <2>2, <2>3, TurnIsTaken DEF Effect
<1>9. CASE FlushFails \/ Crash \/ Commit
  BY <1>1, <1>9 DEF FlushFails, Crash, Commit, SleepAgain, EndPass, dbVars, ToCome
<1> QED
  BY <1>2, <1>3, <1>4, <1>5, <1>6, <1>7, <1>8, <1>9 DEF OpenNext, Scheduler

\* What a pass will record stays the pass in which it was sent.
LEMMA RecordPreserved == TypeOK /\ PassShape /\ RecordInv /\ [OpenNext]_vars => RecordInv'
<1> SUFFICES ASSUME TypeOK, PassShape, RecordInv, [OpenNext]_vars
             PROVE  RecordInv'
  OBVIOUS
<1>0. Unrecorded \subseteq Chats
  BY UnrecordedChats
<1>1. ASSUME UNCHANGED <<lastPass, pc, passNow, current, sent, dirty>>,
             now' \in Nat, now' >= now
      PROVE  RecordInv'
  <2>1. Unrecorded' = Unrecorded
    BY <1>1 DEF Unrecorded
  <2> QED
    <3>1. \A d \in Chats : lastPass'[d] <= now'
      <4> TAKE d \in Chats
      <4>1. lastPass[d] \in Nat /\ now \in Nat /\ lastPass[d] <= now
        BY Clocks DEF RecordInv
      <4> QED
        BY <1>1, <4>1
    <3>2. ASSUME pc \in {"posting", "falling back", "flushing"}
          PROVE  passNow' <= now' /\ \A d \in Chats : lastPass'[d] <= passNow'
      <4>1. passNow \in Nat /\ now \in Nat /\ passNow <= now
        BY <3>2, Clocks DEF RecordInv
      <4>2. \A d \in Chats : lastPass[d] <= passNow
        BY <3>2 DEF RecordInv
      <4>3. lastPass' = lastPass /\ passNow' = passNow /\ now' \in Nat /\ now <= now'
        BY <1>1
      <4>4. passNow' <= now'
        BY <4>1, <4>3
      <4> QED
        BY <4>2, <4>3, <4>4
    <3> QED
      BY <1>1, <2>1, <3>1, <3>2 DEF RecordInv
<1>2. CASE TogglePower \/ Tick \/ UNCHANGED vars
  BY <1>1, <1>2 DEF TogglePower, Tick, vars, dbVars, passVars, worldVars, TypeOK
<1>3. ASSUME NEW c \in Chats, SetRow(c)
      PROVE  RecordInv'
  BY <1>1, <1>3 DEF SetRow, Write, passVars, TypeOK
<1>4. CASE CheckEnabled
  <2>1. Unrecorded' = Unrecorded
    BY <1>4 DEF CheckEnabled, Unrecorded
  <2> QED
    BY <1>4, <2>1 DEF CheckEnabled, RecordInv, worldVars
<1>5. CASE ListChats
  <2>1. dirty = {} /\ ~sent
    BY <1>5 DEF ListChats, PassShape
  <2>2. Unrecorded' = {}
    BY <1>5, <2>1 DEF ListChats, Unrecorded
  <2> QED
    BY <1>5, <2>2 DEF ListChats, RecordInv, worldVars, TypeOK
<1>6. ASSUME NEW c \in Chats, SendDashboard(c)
      PROVE  RecordInv'
  <2>1. /\ pc \in {"posting", "falling back"} /\ ~sent
        /\ current' = c /\ UNCHANGED <<now, passNow, dirty>>
    BY <1>6, TurnIsTaken DEF PassShape
  <2>2. \/ lastPass' = lastPass /\ ~sent'
        \/ \E way \in Ways : Appears(c, way)
    BY <1>6, TurnIsTaken DEF Effect, worldVars
  <2>3. /\ \A d \in Chats : lastPass'[d] = lastPass[d] \/ lastPass'[d] = passNow
        /\ sent' => lastPass'[c] = passNow
    BY <2>2, AppearsIsLocal
  <2>4. \A d \in Unrecorded' : lastPass'[d] = passNow
    BY <2>1, <2>3, <1>0 DEF Unrecorded, RecordInv
  <2>5. passNow <= now /\ \A d \in Chats : lastPass[d] <= passNow
    BY <2>1 DEF RecordInv
  <2>6. \A d \in Chats : lastPass'[d] <= passNow'
    <3>1. passNow \in Nat /\ passNow' = passNow
      BY <2>1, Clocks
    <3> QED
      BY <2>3, <2>5, <3>1
  <2>7. \A d \in Chats : lastPass'[d] <= now'
    BY <2>1, <2>3, <2>5 DEF RecordInv
  <2> QED
    BY <2>1, <2>4, <2>5, <2>6, <2>7 DEF RecordInv
<1>7. CASE Flush
  <2>1. Unrecorded' = Unrecorded
    BY <1>7 DEF Flush, Unrecorded
  <2> QED
    BY <1>7, <2>1 DEF Flush, RecordInv, worldVars
<1>8. CASE FlushFails \/ Crash \/ Commit
  <2>1. dirty' = {} /\ ~sent'
    BY <1>8 DEF FlushFails, Crash, Commit, SleepAgain, EndPass
  <2>2. pc' = "asleep" /\ now' = now /\ lastPass' = lastPass
    BY <1>8 DEF FlushFails, Crash, Commit, SleepAgain
  <2>3. Unrecorded' = {}
    BY <2>1 DEF Unrecorded
  <2> QED
    BY <2>2, <2>3 DEF RecordInv
<1> QED
  BY <1>2, <1>3, <1>4, <1>5, <1>6, <1>7, <1>8 DEF OpenNext, Scheduler

\* The database never claims a dashboard that was not sent, and forgets only
\* what a failure made it forget.
LEMMA MatchPreserved ==
  TypeOK /\ PassShape /\ RecordInv /\ RecordMatchesWorld /\ [OpenNext]_vars
    => RecordMatchesWorld'
<1> DEFINE M(d) == /\ chat[d].last <= lastPass[d]
                   /\ chat[d].last # lastPass[d] => d \in lost \cup Unrecorded
<1> SUFFICES ASSUME TypeOK, PassShape, RecordInv, RecordMatchesWorld, [OpenNext]_vars,
                    NEW d \in Chats
             PROVE  M(d)'
  BY DEF RecordMatchesWorld
<1>0. M(d)
  BY DEF RecordMatchesWorld
<1>1. /\ pc # "flushing" => Unrecorded = dirty
      /\ pc \in {"asleep", "listing"} => Unrecorded = {}
  BY DEF PassShape, Unrecorded
<1>2. ASSUME UNCHANGED <<lost, lastPass, dirty, current, sent>>,
             chat'[d].last = chat[d].last
      PROVE  M(d)'
  BY <1>0, <1>2 DEF Unrecorded
<1>3. CASE TogglePower \/ Tick \/ UNCHANGED vars
  BY <1>2, <1>3 DEF TogglePower, Tick, vars, dbVars, passVars, worldVars
<1>4. ASSUME NEW c \in Chats, SetRow(c)
      PROVE  M(d)'
  <2>1. PICK row \in Row : Write(c, row) /\ row.last = chat[c].last
    BY <1>4 DEF SetRow
  <2>2. chat'[d].last = chat[d].last
    BY <2>1 DEF Write, TypeOK
  <2> QED
    BY <1>2, <2>1, <2>2 DEF Write, passVars
<1>5. CASE CheckEnabled \/ ListChats
  BY <1>2, <1>5 DEF CheckEnabled, ListChats, dbVars, worldVars
<1>6. ASSUME NEW c \in Chats, SendDashboard(c)
      PROVE  M(d)'
  <2>1. /\ pc \in {"posting", "falling back"} /\ ~sent
        /\ UNCHANGED <<chat, dirty>> /\ current' = c
    BY <1>6, TurnIsTaken DEF PassShape
  <2>2. Unrecorded = dirty /\ Unrecorded \subseteq Unrecorded'
    BY <2>1 DEF Unrecorded
  <2>3. chat[d].last <= passNow
    <3>1. /\ chat[d].last <= lastPass[d] /\ lastPass[d] <= passNow
      BY <1>0, <2>1 DEF RecordInv
    <3>2. chat[d].last \in Nat /\ lastPass[d] \in Nat /\ passNow \in Nat
      BY Clocks
    <3> QED
      BY <3>1, <3>2
  <2>4. CASE UNCHANGED worldVars
    BY <1>0, <2>1, <2>2, <2>4 DEF worldVars
  <2>5. ASSUME NEW way \in Ways, Appears(c, way),
               lost' = lost \cup {c} \/ (lost' = lost /\ sent')
        PROVE  M(d)'
    <3>1. c \in lost' \cup Unrecorded' /\ lost \subseteq lost'
      BY <2>1, <2>5 DEF Unrecorded
    <3>2. CASE d = c
      BY <2>1, <2>3, <2>5, <3>1, <3>2, AppearsIsLocal
    <3>3. CASE d # c
      BY <1>0, <2>1, <2>2, <2>5, <3>1, <3>3, AppearsIsLocal
    <3> QED
      BY <3>2, <3>3
  <2> QED
    BY <1>6, <2>4, <2>5, TurnIsTaken DEF Effect
<1>7. CASE Flush
  <2>1. Unrecorded' = Unrecorded
    BY <1>7 DEF Flush, Unrecorded
  <2> QED
    BY <1>0, <1>7, <2>1 DEF Flush, dbVars, worldVars
<1>8. CASE FlushFails \/ Crash
  <2>1. lost' = lost \cup Unrecorded /\ lastPass' = lastPass
    BY <1>8 DEF FlushFails, Crash
  <2>2. chat' = chat
    BY <1>8 DEF FlushFails, Crash, dbVars
  <2> QED
    BY <1>0, <2>1, <2>2
<1>9. CASE Commit
  <2>1. /\ pc = "posting" /\ lost' = lost \ dirty /\ lastPass' = lastPass
    BY <1>9 DEF Commit
  <2>2. Unrecorded = dirty
    BY <1>1, <2>1
  <2>3. chat'[d].last = IF d \in dirty THEN passNow ELSE chat[d].last
    BY <1>9, CommitKeepsWishes
  <2>4. CASE d \in dirty
    <3>1. lastPass[d] = passNow
      BY <2>2, <2>4 DEF RecordInv
    <3> QED
      BY <2>1, <2>3, <2>4, <3>1 DEF TypeOK
  <2>5. CASE d \notin dirty
    BY <1>0, <2>1, <2>2, <2>3, <2>5
  <2> QED
    BY <2>4, <2>5
<1> QED
  BY <1>3, <1>4, <1>5, <1>6, <1>7, <1>8, <1>9 DEF OpenNext, Scheduler

\* The list of a pass is only made at its start, from rows that match the world.
LEMMA SpacingStep ==
  ASSUME TypeOK, PassShape, RecordMatchesWorld, [OpenNext]_vars,
         NEW d \in todo' \ (todo \cup lost)
  PROVE  lastPass[d] = 0 \/ passNow' - lastPass[d] >= chat[d].interval
<1>1. CASE ListChats
  <2>1. d \in Chats /\ Due(d) /\ passNow' = now
    BY <1>1 DEF ListChats
  <2>2. Unrecorded = {}
    BY <1>1 DEF ListChats, PassShape, Unrecorded
  <2>3. chat[d].last = lastPass[d]
    BY <2>1, <2>2 DEF RecordMatchesWorld
  <2> QED
    BY <2>1, <2>3 DEF Due
<1>2. CASE UNCHANGED todo
  BY <1>2
<1>3. CASE TogglePower \/ Tick \/ UNCHANGED vars \/ CheckEnabled \/ Flush
  BY <1>2, <1>3 DEF TogglePower, Tick, vars, passVars, CheckEnabled, Flush
<1>4. ASSUME NEW c \in Chats, SetRow(c)
      PROVE  UNCHANGED todo
  BY <1>4 DEF SetRow, Write, passVars
<1>5. ASSUME NEW c \in Chats, SendDashboard(c)
      PROVE  todo' \subseteq todo
  BY <1>5, TurnIsTaken
<1>6. CASE FlushFails \/ Crash \/ Commit
  BY <1>6 DEF FlushFails, Crash, Commit, SleepAgain, EndPass
<1> QED
  BY <1>1, <1>2, <1>3, <1>4, <1>5, <1>6 DEF OpenNext, Scheduler

\* The handlers of the model, which read and write at once, are among them.
LEMMA AdminSetsRow ==
  ASSUME TypeOK, NEW c \in Chats, ToggleAuto(c) \/ CycleInterval(c) \/ Remove(c) \/ Share(c)
  PROVE  SetRow(c)
<1> USE AutoPostAssumption DEF Row, SetRow
<1>0. chat[c] \in Row
  BY DEF TypeOK
<1>1. CASE ToggleAuto(c)
  <2> DEFINE row == [chat[c] EXCEPT !.auto = ~@]
  <2>1. row \in Row /\ row.last = chat[c].last
    BY <1>0
  <2> QED
    BY <1>1, <2>1 DEF ToggleAuto
<1>2. CASE CycleInterval(c)
  <2> DEFINE row == [chat[c] EXCEPT !.interval = NextInterval[@]]
  <2>1. row \in Row /\ row.last = chat[c].last
    BY <1>0
  <2> QED
    BY <1>2, <2>1 DEF CycleInterval
<1>3. CASE Remove(c)
  <2> DEFINE row == [chat[c] EXCEPT !.active = FALSE, !.auto = FALSE]
  <2>1. row \in Row /\ row.last = chat[c].last
    BY <1>0
  <2> QED
    BY <1>3, <2>1 DEF Remove, Deactivated
<1>4. CASE Share(c)
  <2> DEFINE row == [chat[c] EXCEPT !.active = TRUE]
  <2>1. row \in Row /\ row.last = chat[c].last
    BY <1>0
  <2> QED
    BY <1>4, <2>1 DEF Share, Reactivated
<1> QED
  BY <1>1, <1>2, <1>3, <1>4

LEMMA NextIsOpen == TypeOK /\ [Next]_vars => [OpenNext]_vars
BY AdminSetsRow DEF Next, Admin, OpenNext

-----------------------------------------------------------------------------
\* The inductive invariant holds of every behaviour.
LEMMA NextIInv == IInv /\ [OpenNext]_vars => IInv'
BY TypePreserved, ShapePreserved, LatePreserved, PowerPreserved,
   RecordPreserved, MatchPreserved DEF IInv

LEMMA SpecIsOpen == Spec => OpenSpec
<1>1. IInv /\ [Next]_vars => IInv' /\ [OpenNext]_vars
  BY NextIInv, NextIsOpen DEF IInv
<1> QED
  BY InitIInv, <1>1, PTL DEF Spec, OpenSpec

LEMMA OpenIInv == OpenSpec => []IInv
<1> QED
  BY InitIInv, NextIInv, PTL DEF OpenSpec

LEMMA IInvHolds == Spec => []IInv
<1> QED
  BY SpecIsOpen, OpenIInv, PTL

\* One late dashboard of each way at most.
LEMMA LateIsOne == IInv => LatePostsBounded
<1> SUFFICES ASSUME IInv, NEW c \in Chats, NEW way \in Ways
             PROVE  lateUnwanted[c][way] <= 1
  BY DEF LatePostsBounded
<1>1. lateUnwanted[c][way] = 0 \/ lateUnwanted[c][way] = 1
  BY DEF IInv, LateInv, Late
<1> QED
  BY <1>1

LEMMA PowerIsOne == IInv => PowerOffBounded
<1> SUFFICES ASSUME IInv, NEW c \in Chats, NEW way \in Ways
             PROVE  latePower[c][way] <= 1
  BY DEF PowerOffBounded
<1>1. latePower[c][way] = 0 \/ latePower[c][way] = 1
  BY DEF IInv, PowerInv, Dark
<1> QED
  BY <1>1

\* The rows, the locals of a pass and the clocks keep their types, whatever the
\* handlers, the scheduler and the failures do.
THEOREM TypeCorrect == Spec => []TypeOK
<1>1. IInv => TypeOK
  BY DEF IInv
<1> QED
  BY IInvHolds, <1>1, PTL

\* However many chats there are and however long a pass takes, a chat taken out
\* of auto-posting gets at most one more edit and one more message.
THEOREM LatePostsAreBounded == Spec => []LatePostsBounded
BY IInvHolds, LateIsOne, PTL

\* Turning the bot off lets at most one more edit and one more message through to
\* each chat.
THEOREM PowerOffIsBounded == Spec => []PowerOffBounded
BY IInvHolds, PowerIsOne, PTL

\* last_sent_at is what happened, up to the pass under way and what failures
\* lost.
THEOREM RecordIsTruthful == Spec => []RecordMatchesWorld
<1>1. IInv => RecordMatchesWorld
  BY DEF IInv
<1> QED
  BY IInvHolds, <1>1, PTL

\* The write lock belongs to a pass that has flushed.
THEOREM LockBelongsToPass == Spec => []LockCoversPass
<1>1. IInv => LockCoversPass
  <2>1. IInv => TypeOK /\ PassShape
    BY DEF IInv
  <2>2. TypeOK /\ PassShape => LockCoversPass
    BY DEF TypeOK, Steps, PassShape, LockCoversPass
  <2> QED
    BY <2>1, <2>2
<1> QED
  BY IInvHolds, <1>1, PTL

\* The pass that lists a chat starts its interval after the start of the pass that
\* last put a dashboard into it, unless the record of that one was lost.
THEOREM SpacingHolds == Spec => SpacingRespected
<1>1. IInv /\ [OpenNext]_vars =>
        [\A c \in todo' \ (todo \cup lost) :
           lastPass[c] = 0 \/ passNow' - lastPass[c] >= chat[c].interval]_vars
  BY SpacingStep DEF IInv
<1> QED
  BY SpecIsOpen, OpenIInv, <1>1, PTL DEF OpenSpec, SpacingRespected

\* The bounds and the record do not rest on what the handlers write, or on what
\* they read first: the pass keeps them against any write to the columns active,
\* auto_post_enabled and interval_minutes.
THEOREM WhateverIsWritten ==
  OpenSpec => /\ [](LatePostsBounded /\ PowerOffBounded /\ RecordMatchesWorld)
              /\ SpacingRespected
<1>1. IInv => LatePostsBounded /\ PowerOffBounded /\ RecordMatchesWorld
  BY LateIsOne, PowerIsOne DEF IInv
<1>2. IInv /\ [OpenNext]_vars =>
        [\A c \in todo' \ (todo \cup lost) :
           lastPass[c] = 0 \/ passNow' - lastPass[c] >= chat[c].interval]_vars
  BY SpacingStep DEF IInv
<1> QED
  BY OpenIInv, <1>1, <1>2, PTL DEF OpenSpec, SpacingRespected
=============================================================================
