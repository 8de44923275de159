------------------------------- MODULE AutoPost -------------------------------
(***************************************************************************)
(* The auto-post half of the bot's scheduler (process_auto_posts and       *)
(* run_scheduler of ratecore_bot/scheduler.py) against the admin's         *)
(* handlers, over the shared SQLite database.                              *)
(*                                                                         *)
(* A pass reads the power switch, lists the chats that want dashboards,    *)
(* sends them one after the other and commits what it did at the end.  It  *)
(* works on the list it read; the admin's handlers run between its awaits. *)
(* The first flush of the pass takes SQLite's write lock, which is held    *)
(* through all the later sends: until the commit no handler can write, and *)
(* a crash or a failed flush loses the record of every send of the pass.   *)
(*                                                                         *)
(* A dashboard is edited into the last one or sent as a new message, and   *)
(* an edit that raises, be it for a lost reply, is followed by a new       *)
(* message: one turn can put two dashboards into a chat.  send_mode is     *)
(* left open.  A handler's read and write are one step here; they touch    *)
(* other columns than the scheduler writes, and ManagedChats has them      *)
(* apart.                                                                  *)
(***************************************************************************)
EXTENDS Naturals

CONSTANTS Chats,
          NoChat,
          Intervals,     \* the intervals an admin can choose, in polls
          NextInterval,  \* the one that follows each in on_admin_chat_interval
          MaxTime        \* bound on the clock, for TLC

ASSUME AutoPostAssumption == /\ NoChat \notin Chats
                             /\ Intervals \subseteq Nat
                             /\ NextInterval \in [Intervals -> Intervals]
                             /\ MaxTime \in Nat \ {0}

VARIABLES now,         \* in polls of sixty seconds, from 1
          botEnabled,  \* GlobalSettings.bot_enabled
          chat,        \* Chat and ChatSettings rows, as committed
          pc,          \* "asleep", "listing", "posting", "falling back" or
                       \* "flushing"
          wakeAt,      \* when the sleep between two passes ends, 0 in a pass
          passNow,     \* process_auto_posts' now, 0 until it is read
          todo,        \* chats of the list that are due and not reached yet
          current,     \* the chat whose edit has failed, or whose row is being
                       \* flushed, NoChat if none
          sent,        \* the send to current was acknowledged
          dirty,       \* rows flushed with last_sent_at, not committed
          locked,      \* the pass holds the write lock
          \* what has happened, which the program does not know:
          lastPass,    \* the start of the pass in which a dashboard last
                       \* reached a chat
          lost,        \* chats whose last dashboard will never be recorded
          lateUnwanted, latePower  \* dashboards of each way since the chat was
                                   \* taken out of auto-posting, or the bot
                                   \* turned off

dbVars    == <<botEnabled, chat>>
passVars  == <<pc, wakeAt, passNow, todo, current, sent, dirty, locked>>
worldVars == <<lastPass, lost, lateUnwanted, latePower>>
vars      == <<now, dbVars, passVars, worldVars>>

\* The ways a dashboard reaches a chat.
Ways == {"edit", "message"}
Counts == [Ways -> Nat]
None   == [way \in Ways |-> 0]

\* What the two rows of a chat say of auto-posting.  last stands for last_sent_at;
\* last_message_id, flushed with it, is there when it is not 0.
Row == [active : BOOLEAN, auto : BOOLEAN, interval : Intervals, last : 0..MaxTime]

\* list_auto_post_chats selects these.
Wanted(c) == chat[c].active /\ chat[c].auto

\* Chats never posted to, in auto-posting or not, the bot having just started; one
\* that is not managed has auto-post off.
Init == /\ now = 1
        /\ botEnabled = TRUE
        /\ chat \in [Chats -> Row]
        /\ \A c \in Chats : chat[c].last = 0 /\ (chat[c].auto => chat[c].active)
        /\ pc = "asleep" /\ wakeAt = 1
        /\ passNow = 0
        /\ todo = {} /\ dirty = {}
        /\ current = NoChat /\ sent = FALSE
        /\ locked = FALSE
        /\ lastPass = [c \in Chats |-> 0]
        /\ lost = {}
        /\ lateUnwanted = [c \in Chats |-> None]
        /\ latePower = [c \in Chats |-> None]

-----------------------------------------------------------------------------
(* The admin's handlers.                                                   *)

\* A write waits for the lock, and fails without effect when it times out.
Write(c, row) == /\ ~locked
                 /\ chat' = [chat EXCEPT ![c] = row]
                 /\ lateUnwanted' = IF row.active /\ row.auto
                                      THEN [lateUnwanted EXCEPT ![c] = None]
                                      ELSE lateUnwanted
                 /\ UNCHANGED <<now, botEnabled, passVars, lastPass, lost, latePower>>

ToggleAuto(c) == /\ chat[c].active
                 /\ Write(c, [chat[c] EXCEPT !.auto = ~@])

\* (A way to get it wrong: the next interval is computed, not looked up.)
CycleInterval_Computed(c) ==
  /\ chat[c].active
  /\ Write(c, [chat[c] EXCEPT !.interval = @ + 1])

CycleInterval(c) ==
  /\ chat[c].active
  /\ Write(c, [chat[c] EXCEPT !.interval = NextInterval[@]])

\* deactivate_chat
Deactivated(row) == [row EXCEPT !.active = FALSE, !.auto = FALSE]
Remove(c)        == Write(c, Deactivated(chat[c]))

\* ensure_chat_by_id, from the chat picker or from /start in the chat.
Reactivated(row) == [row EXCEPT !.active = TRUE]
Share(c)         == Write(c, Reactivated(chat[c]))

\* on_admin_bot_toggle
TogglePower == /\ ~locked
               /\ botEnabled' = ~botEnabled
               /\ latePower' = IF botEnabled' THEN [c \in Chats |-> None] ELSE latePower
               /\ UNCHANGED <<now, chat, passVars, lastPass, lost, lateUnwanted>>

-----------------------------------------------------------------------------
(* The scheduler.                                                          *)

\* The locals and the session of a pass are gone.
EndPass == /\ passNow' = 0
           /\ todo' = {} /\ dirty' = {}
           /\ current' = NoChat /\ sent' = FALSE
           /\ locked' = FALSE

SleepAgain == /\ pc' = "asleep"
              /\ wakeAt' = now + 1
              /\ EndPass

\* Ways to get the pass wrong, each put in the place of the definition it is
\* named after: the switch is not looked at; a chat is due one poll early; the
\* list holds every chat; a failure is stamped like a success.
CheckEnabled_Ignored ==
  /\ pc = "asleep" /\ wakeAt <= now
  /\ pc' = "listing" /\ wakeAt' = 0
  /\ UNCHANGED <<now, dbVars, passNow, todo, current, sent, dirty, locked, worldVars>>

Due_Early(c) == chat[c].last = 0 \/ now - chat[c].last + 1 >= chat[c].interval

ListChats_All ==
  /\ pc = "listing"
  /\ todo' = Chats
  /\ passNow' = now
  /\ pc' = "posting"
  /\ UNCHANGED <<now, dbVars, wakeAt, current, sent, dirty, locked, worldVars>>

Flush_AlwaysStamps ==
  /\ pc = "flushing"
  /\ pc' = "posting"
  /\ dirty' = dirty \cup {current}
  /\ locked' = TRUE
  /\ current' = NoChat /\ sent' = FALSE
  /\ UNCHANGED <<now, dbVars, wakeAt, passNow, todo, worldVars>>

CheckEnabled ==
  /\ pc = "asleep" /\ wakeAt <= now
  /\ IF botEnabled
       THEN pc' = "listing" /\ wakeAt' = 0
       ELSE pc' = "asleep" /\ wakeAt' = now + 1
  /\ UNCHANGED <<now, dbVars, passNow, todo, current, sent, dirty, locked, worldVars>>

\* _should_send; last = 0 is a chat that was never posted to.
Due(c) == chat[c].last = 0 \/ now - chat[c].last >= chat[c].interval

\* The list is read, then the time: whether each chat is due is settled here.
ListChats ==
  /\ pc = "listing"
  /\ todo' = {c \in Chats : Wanted(c) /\ Due(c)}
  /\ passNow' = now
  /\ pc' = "posting"
  /\ UNCHANGED <<now, dbVars, wakeAt, current, sent, dirty, locked, worldVars>>

\* A dashboard appears in chat c.
Appears(c, way) ==
  /\ lastPass' = [lastPass EXCEPT ![c] = passNow]
  /\ lateUnwanted' = IF Wanted(c) THEN lateUnwanted
                                  ELSE [lateUnwanted EXCEPT ![c][way] = @ + 1]
  /\ latePower' = IF botEnabled THEN latePower
                                ELSE [latePower EXCEPT ![c][way] = @ + 1]

Turn(c, step, acknowledged) ==
  /\ todo' = todo \ {c}
  /\ pc' = step
  /\ current' = c
  /\ sent' = acknowledged
  /\ UNCHANGED <<now, dbVars, wakeAt, passNow, dirty, locked>>

\* The first try in edit mode, when there is a message to edit.
MayEdit(c) == pc = "posting" /\ c \in todo /\ chat[c].last # 0

EditOk(c) == /\ MayEdit(c)
             /\ Turn(c, "flushing", TRUE)
             /\ Appears(c, "edit")
             /\ UNCHANGED lost

EditFails(c) == /\ MayEdit(c)
                /\ Turn(c, "falling back", FALSE)
                /\ UNCHANGED worldVars

\* The edit is made, but the reply does not reach the bot.
EditReplyLost(c) == /\ MayEdit(c)
                    /\ Turn(c, "falling back", FALSE)
                    /\ Appears(c, "edit")
                    /\ lost' = lost \cup {c}

\* A new message, first thing or after an edit that raised.
MaySend(c) == \/ pc = "posting" /\ c \in todo
              \/ pc = "falling back" /\ c = current

SendOk(c) == /\ MaySend(c)
             /\ Turn(c, "flushing", TRUE)
             /\ Appears(c, "message")
             /\ UNCHANGED lost

\* (A way to get it wrong: the failed chat goes back on the list.)
SendFails_Requeues(c) ==
  /\ MaySend(c)
  /\ pc' = "flushing" /\ current' = c /\ sent' = FALSE
  /\ todo' = todo \cup {c}
  /\ UNCHANGED <<now, dbVars, wakeAt, passNow, dirty, locked, worldVars>>

\* The API or Telegram fails and nothing reaches the chat.
SendFails(c) == /\ MaySend(c)
                /\ Turn(c, "flushing", FALSE)
                /\ UNCHANGED worldVars

\* The dashboard reaches the chat but the reply does not reach the bot.
SendReplyLost(c) == /\ MaySend(c)
                    /\ Turn(c, "flushing", FALSE)
                    /\ Appears(c, "message")
                    /\ lost' = lost \cup {c}

SendDashboard(c) == \/ EditOk(c) \/ EditFails(c) \/ EditReplyLost(c)
                    \/ SendOk(c) \/ SendFails(c) \/ SendReplyLost(c)

\* The row is flushed: last_sent_at after a send, error_count after a failure.
Flush ==
  /\ pc = "flushing"
  /\ pc' = "posting"
  /\ dirty' = IF sent THEN dirty \cup {current} ELSE dirty
  /\ locked' = TRUE
  /\ current' = NoChat /\ sent' = FALSE
  /\ UNCHANGED <<now, dbVars, wakeAt, passNow, todo, worldVars>>

\* What the pass has sent and will not record.
Unrecorded == dirty \cup (IF sent THEN {current} ELSE {})

\* The flush fails, and so does the one in its except clause: the exception
\* leaves the pass, which is rolled back.
FlushFails ==
  /\ pc = "flushing"
  /\ SleepAgain
  /\ lost' = lost \cup Unrecorded
  /\ UNCHANGED <<now, dbVars, lastPass, lateUnwanted, latePower>>

Commit ==
  /\ pc = "posting" /\ todo = {}
  /\ chat' = [c \in Chats |-> IF c \in dirty THEN [chat[c] EXCEPT !.last = passNow]
                                             ELSE chat[c]]
  /\ lost' = lost \ dirty
  /\ SleepAgain
  /\ UNCHANGED <<now, botEnabled, lastPass, lateUnwanted, latePower>>

\* The process dies and is started again, with a pass at once.
Crash ==
  /\ pc' = "asleep" /\ wakeAt' = now
  /\ EndPass
  /\ lost' = lost \cup Unrecorded
  /\ UNCHANGED <<now, dbVars, lastPass, lateUnwanted, latePower>>

\* Sends may take any time; a sleep is not overslept.
Tick == /\ now < MaxTime
        /\ pc = "asleep" => now < wakeAt
        /\ now' = now + 1
        /\ UNCHANGED <<dbVars, passVars, worldVars>>

Admin == \/ TogglePower
         \/ \E c \in Chats : \/ ToggleAuto(c) \/ CycleInterval(c)
                             \/ Remove(c)     \/ Share(c)

Scheduler == \/ CheckEnabled \/ ListChats \/ Flush \/ FlushFails \/ Commit
             \/ \E c \in Chats : SendDashboard(c)

Next == Admin \/ Scheduler \/ Crash \/ Tick

\* The event loop goes on with the scheduler's task: every call it awaits
\* returns or times out.
Spec == Init /\ [][Next]_vars /\ WF_vars(Scheduler)

-----------------------------------------------------------------------------
Steps == {"asleep", "listing", "posting", "falling back", "flushing"}

TypeOK == /\ now \in 1..MaxTime
          /\ botEnabled \in BOOLEAN
          /\ chat \in [Chats -> Row]
          /\ pc \in Steps
          /\ wakeAt \in 0..(MaxTime + 1)
          /\ passNow \in 0..MaxTime
          /\ todo \subseteq Chats /\ dirty \subseteq Chats
          /\ current \in Chats \cup {NoChat}
          /\ sent \in BOOLEAN /\ locked \in BOOLEAN
          /\ lastPass \in [Chats -> 0..MaxTime]
          /\ lost \subseteq Chats
          /\ lateUnwanted \in [Chats -> Counts]
          /\ latePower \in [Chats -> Counts]

\* Taking a chat out of auto-posting, by removing it or turning auto-post off,
\* lets at most one more edit and one more message through, whatever passes,
\* restarts and handlers come after.
LatePostsBounded == \A c \in Chats : \A way \in Ways : lateUnwanted[c][way] <= 1

\* So does turning the bot off, for each chat.
PowerOffBounded == \A c \in Chats : \A way \in Ways : latePower[c][way] <= 1

\* What the database says of a chat is what happened to it, except for what the
\* pass under way has not committed and what a failure made it forget; it never
\* claims a dashboard the chat did not get.
RecordMatchesWorld ==
  \A c \in Chats :
    /\ chat[c].last <= lastPass[c]
    /\ chat[c].last # lastPass[c] => c \in lost \cup Unrecorded

\* The write lock is held by a pass under way, and what is flushed is covered
\* by it.
LockCoversPass == /\ locked => pc \in {"posting", "falling back", "flushing"}
                  /\ dirty # {} => locked

\* A chat is put on the list of a pass only when its interval has gone by since
\* the start of the pass in which it really got its last dashboard, unless the
\* record of that one was lost.  It is from pass to pass that the interval is
\* kept: a dashboard that came late in its pass may have the next one sooner.
SpacingRespected ==
  [][\A c \in todo' \ (todo \cup lost) :
       lastPass[c] = 0 \/ passNow' - lastPass[c] >= chat[c].interval]_vars

\* Every pass ends, and with it the wait of a handler for the lock.
PassEnds == pc # "asleep" ~> pc = "asleep"

=============================================================================
