-------------------------------- MODULE Alerts --------------------------------
(***************************************************************************)
(* The alert half of the bot's scheduler (process_alerts of                *)
(* ratecore_bot/scheduler.py) over the alert functions of db/repository.py *)
(* and the batch endpoint of the API.                                      *)
(*                                                                         *)
(* A pass reads the active alerts, awaits the prices of all their symbols  *)
(* in one call, then goes through what it read: each row is stamped as     *)
(* checked, and one whose condition holds is sent, whether or not the send *)
(* succeeds marked as triggered, and switched off.  The first stamp takes  *)
(* SQLite's write lock until the commit, so the other sessions write only  *)
(* while the pass awaits the prices.  A row deleted then makes the pass    *)
(* fail when it is stamped, unless a new alert has been given its id: then *)
(* that one is stamped, and switched off, in its place.                    *)
(*                                                                         *)
(* Prices appear as the set of alerts whose condition they meet.  The pass *)
(* does not look at GlobalSettings.bot_enabled, which is not modelled.     *)
(***************************************************************************)
EXTENDS Routing, Naturals

CONSTANTS Alerts,      \* alerts that will ever be made
          NoAlert,
          SymbolOf,    \* the symbol each watches
          MaxFaults    \* bound on the passes that fail, for TLC

ASSUME AlertsAssumption == /\ NoAlert \notin Alerts
                           /\ SymbolOf \in [Alerts -> Catalogue]
                           /\ MaxFaults \in Nat

VARIABLES id,          \* the id each was given, 0 before it is made
          rows,        \* alerts in the database
          active,      \* the ones with is_active; triggered_at is not read
          met,         \* alerts whose condition the market meets now, of the
                       \* ones that some provider has a price for
          healthy,     \* the API and every upstream, the one of the rate
                       \* included, have answered since the batch call under
                       \* way began
          pc,          \* "asleep", "fetching", "checking" or "sending"
          todo,        \* alerts read by the pass and not reached yet
          hit,         \* the ones the fetched prices trigger
          current,     \* the alert being sent
          consumed,    \* rows marked as triggered, not committed
          locked,      \* the pass holds the write lock
          faults,      \* failed passes
          \* what has happened, which the program does not know:
          told, again, \* alerts whose message has appeared, and has twice
          lost,        \* told in a pass whose record was rolled back
          lateTold     \* messages since the alert was switched off or deleted

dbVars    == <<id, rows, active>>
passVars  == <<pc, todo, hit, current, consumed, locked>>
worldVars == <<told, again, lost, lateTold>>
envVars   == <<met, healthy>>
vars      == <<dbVars, envVars, passVars, faults, worldVars>>

\* By the symbol they watch: the kind, and the alerts whose kind has no provider,
\* whose symbol some provider of the kind has, and whose symbol static has.
KindOf   == [a \in Alerts |-> DetectKind(SymbolOf[a])]
Orphans  == {a \in Alerts : Chain(KindOf[a]) = <<>>}
Served   == {a \in Alerts : \E p \in ToSet(Chain(KindOf[a])) : SymbolOf[a] \in Serves(p)}
InStatic == {a \in Alerts : SymbolOf[a] \in Serves("static")}

Init == /\ id = [a \in Alerts |-> 0]
        /\ rows = {} /\ active = {}
        /\ met \in SUBSET Served /\ healthy = TRUE
        /\ pc = "asleep"
        /\ todo = {} /\ hit = {} /\ consumed = {}
        /\ current = NoAlert
        /\ locked = FALSE
        /\ faults = 0
        /\ told = {} /\ again = {} /\ lost = {}
        /\ lateTold = [a \in Alerts |-> 0]

-----------------------------------------------------------------------------
(* The other sessions.  Their writes wait for the lock.                    *)

\* SQLite gives a new row the id after the highest one in the table.
CreateAlert(a) ==
  /\ ~locked /\ id[a] = 0
  /\ \E n \in {1} \cup {id[b] + 1 : b \in rows} : /\ \A b \in rows : id[b] < n
                                               /\ id' = [id EXCEPT ![a] = n]
  /\ rows' = rows \cup {a} /\ active' = active \cup {a}
  /\ UNCHANGED <<envVars, passVars, faults, worldVars>>

DeactivateAlert(a) ==
  /\ ~locked /\ a \in rows
  /\ active' = active \ {a}
  /\ UNCHANGED <<id, rows, envVars, passVars, faults, worldVars>>

DeleteAlert(a) ==
  /\ ~locked /\ a \in rows
  /\ rows' = rows \ {a} /\ active' = active \ {a}
  /\ UNCHANGED <<id, envVars, passVars, faults, worldVars>>

MarketMoves(a) == /\ a \in Served
                  /\ met' = IF a \in met THEN met \ {a} ELSE met \cup {a}
                  /\ UNCHANGED <<dbVars, healthy, passVars, faults, worldVars>>

\* The API or an upstream fails, or is late; all of them answer again.
Outage   == /\ healthy' = FALSE
            /\ UNCHANGED <<dbVars, met, passVars, faults, worldVars>>
Recovery == /\ pc # "fetching" /\ healthy' = TRUE
            /\ UNCHANGED <<dbVars, met, passVars, faults, worldVars>>

-----------------------------------------------------------------------------
(* The scheduler.                                                          *)

EndPass == /\ pc' = "asleep"
           /\ todo' = {} /\ hit' = {} /\ consumed' = {}
           /\ current' = NoAlert
           /\ locked' = FALSE

\* Ways to get it wrong, each put in the place of the definition it is named
\* after: a triggered alert stays on; the list holds the ones switched off too;
\* a stamp writes the whole row as it was read; an alert read is marked without
\* a look at whether its row is there; the pass stops at the first alert that is
\* not met.
MarkTriggered_StaysOn ==
  /\ consumed' = consumed
  /\ current' = NoAlert
  /\ pc' = "checking"

GetActiveAlerts_All ==
  /\ pc = "asleep" /\ rows # {}
  /\ todo' = rows
  /\ pc' = "fetching"
  /\ UNCHANGED <<dbVars, envVars, hit, current, consumed, locked, faults, worldVars>>

NotTriggered_WritesRow(a) ==
  /\ pc = "checking" /\ a \in todo \cap rows /\ a \notin hit
  /\ todo' = todo \ {a}
  /\ active' = active \cup {a}
  /\ locked' = TRUE
  /\ UNCHANGED <<id, rows, envVars, pc, hit, current, consumed, faults, worldVars>>

Heir_Itself(a) == {a}

NotTriggered_Stops(a) ==
  /\ pc = "checking" /\ a \in todo \ hit
  /\ todo' = {}
  /\ locked' = TRUE
  /\ UNCHANGED <<dbVars, envVars, pc, hit, current, consumed, faults, worldVars>>

\* get_active_alerts_for_check; nothing is done when there is none.
GetActiveAlerts ==
  /\ pc = "asleep" /\ active # {}
  /\ todo' = active
  /\ pc' = "fetching"
  /\ UNCHANGED <<dbVars, envVars, hit, current, consumed, locked, faults, worldVars>>

\* A symbol of a kind without providers fails the batch it is in, always.  One
\* that no provider of its kind has is left out of the answer, and can fail the
\* batch when its kind comes up first and has no other symbol.
Poisoned       == todo \cap Orphans # {}
Spoils(alerts) == \E a \in alerts :
                    \A b \in alerts : KindOf[b] = KindOf[a] => b \notin Served

\* The API answers with prices for some of the symbols.  Static is asked first and
\* cannot fail, but its prices are in the answer only with the USD/IRR rate.
Fetched(priced) ==
  /\ pc = "fetching"
  /\ ~Poisoned
  /\ priced \subseteq Served
  /\ healthy => todo \cap InStatic \subseteq priced
  /\ hit' = todo \cap met \cap priced
  /\ pc' = "checking"
  /\ UNCHANGED <<dbVars, envVars, todo, current, consumed, locked, faults, worldVars>>

\* The batch call fails: the pass ends without a trace.
FetchFails ==
  /\ pc = "fetching"
  /\ ~healthy \/ Spoils(todo)
  /\ EndPass
  /\ UNCHANGED <<dbVars, envVars, faults, worldVars>>

\* The row that has the id of an alert read earlier, if there is one: its own, or
\* one made since.
Heir(a) == {b \in rows : id[b] = id[a]}

\* mark_alert_checked for an alert whose price is not there or not met.
NotTriggered(a) ==
  /\ pc = "checking" /\ a \in todo \ hit /\ Heir(a) # {}
  /\ todo' = todo \ {a}
  /\ locked' = TRUE
  /\ UNCHANGED <<dbVars, envVars, pc, hit, current, consumed, faults, worldVars>>

\* mark_alert_checked for one that triggers.
Triggers(a) ==
  /\ pc = "checking" /\ a \in todo \cap hit /\ Heir(a) # {}
  /\ todo' = todo \ {a}
  /\ locked' = TRUE
  /\ current' = a
  /\ pc' = "sending"
  /\ UNCHANGED <<dbVars, envVars, hit, consumed, faults, worldVars>>

\* mark_alert_triggered
MarkTriggered == /\ consumed' = consumed \cup Heir(current)
                 /\ current' = NoAlert
                 /\ pc' = "checking"

\* The message appears in the chat.
SendOk ==
  /\ pc = "sending"
  /\ told' = told \cup {current}
  /\ again' = IF current \in told THEN again \cup {current} ELSE again
  /\ lateTold' = IF current \in active
                   THEN lateTold
                   ELSE [lateTold EXCEPT ![current] = @ + 1]
  /\ MarkTriggered
  /\ UNCHANGED <<dbVars, envVars, todo, hit, locked, faults, lost>>

\* It does not, be it that alert.chat cannot be read or that Telegram refuses:
\* the exception is logged and the alert marked all the same.
SendFails ==
  /\ pc = "sending"
  /\ MarkTriggered
  /\ UNCHANGED <<dbVars, envVars, todo, hit, locked, faults, worldVars>>

Commit ==
  /\ pc = "checking" /\ todo = {}
  /\ active' = active \ consumed
  /\ EndPass
  /\ UNCHANGED <<id, rows, envVars, faults, worldVars>>

RolledBack == lost' = lost \cup (consumed \cap told)

\* There is no row to be stamped: the flush raises, and the pass is
\* rolled back.
StaleRow(a) ==
  /\ pc = "checking" /\ a \in todo /\ Heir(a) = {}
  /\ EndPass
  /\ RolledBack
  /\ UNCHANGED <<dbVars, envVars, faults, told, again, lateTold>>

\* A flush or the commit fails, or the process dies and is started again.
PassFails ==
  /\ pc # "asleep" /\ faults < MaxFaults
  /\ faults' = faults + 1
  /\ EndPass
  /\ RolledBack
  /\ UNCHANGED <<dbVars, envVars, told, again, lateTold>>

Others == \/ Outage \/ Recovery
          \/ \E a \in Alerts : \/ CreateAlert(a)  \/ DeactivateAlert(a)
                                 \/ DeleteAlert(a)  \/ MarketMoves(a)

Pass == \/ GetActiveAlerts \/ SendOk \/ SendFails \/ Commit \/ FetchFails
        \/ \E priced \in SUBSET todo : Fetched(priced)
        \/ \E a \in Alerts : NotTriggered(a) \/ Triggers(a) \/ StaleRow(a)

Next == Others \/ Pass \/ PassFails

\* The scheduler's task goes on: its calls return or time out, and it polls again.
Spec == Init /\ [][Next]_vars /\ WF_vars(Pass)

-----------------------------------------------------------------------------
TypeOK == /\ id \in [Alerts -> Nat]
          /\ healthy \in BOOLEAN /\ locked \in BOOLEAN
          /\ rows \subseteq Alerts
          /\ active \subseteq rows
          /\ met \subseteq Alerts /\ todo \subseteq Alerts
          /\ hit \subseteq Alerts /\ consumed \subseteq rows
          /\ pc \in {"asleep", "fetching", "checking", "sending"}
          /\ current \in Alerts \cup {NoAlert}
          /\ told \subseteq Alerts /\ again \subseteq told /\ lost \subseteq told
          /\ faults \in 0..MaxFaults
          /\ lateTold \in [Alerts -> Nat]

\* An alert is sent a second time only when the record of the first was rolled
\* back with its pass.
ToldOnce == again \subseteq lost

\* Switching an alert off, or deleting it, while a pass awaits its prices lets
\* at most one message through.
AtMostOneLateAlert == \A a \in Alerts : lateTold[a] <= 1

\* A pass works on rows it read before it awaited the prices: it never switches
\* on again what was switched off meanwhile.
StaysOff == [][active' \subseteq active \cup (rows' \ rows)]_vars

\* From some time on every upstream and the API answer: then an alert that static
\* has a price for and whose condition goes on being met does not stay on,
\* whatever was down before, alerts that cannot be met, rows deleted under a pass
\* and failed passes notwithstanding, as long as no active alert spoils the batch
\* and not every pass fails.
AlertsFire ==
  <>[]healthy =>
    \A a \in InStatic :
      a \in active ~> (a \notin active \/ a \notin met \/ Spoils(active))
=============================================================================
