---------------------------- MODULE AlertsProofs ----------------------------
(***************************************************************************)
(* Proofs about Alerts, for every set of alerts, every symbol they watch   *)
(* any number of failed passes and any reuse of ids.                       *)
(*                                                                         *)
(* That an alert is told once rests on an account of where one that was    *)
(* told can be: off the list, and either marked in the pass under way or   *)
(* off, unless a pass was rolled back (ToldInv).  A late message is        *)
(* counted only for an alert that is off, which stays off (LateInv).  That *)
(* an alert is made once is what IdInv is for: the pass may mark the row   *)
(* of another one, but not tell one again that was made anew.              *)
(***************************************************************************)
EXTENDS Alerts, TLAPS

\* Where the locals of a pass stand.
PassShape ==
  /\ pc = "sending" <=> current # NoAlert
  /\ pc \in {"asleep", "fetching"} => hit = {} /\ consumed = {} /\ ~locked
  /\ pc = "asleep" => todo = {}
  /\ consumed # {} \/ pc = "sending" => locked
  /\ current \notin todo

\* An alert that was told, and whose record was not rolled back, is not told
\* again: it has left the list, and is marked or off.
ToldInv == \A a \in told \ lost : /\ a \notin todo /\ a # current
                                  /\ a \in consumed \/ a \notin active

\* An alert told late is off and has left the list.
LateInv == \A a \in Alerts :
  /\ lateTold[a] \in {0, 1}
  /\ lateTold[a] = 1 => /\ a \notin todo /\ a # current
                        /\ a \notin active /\ a \in told

\* What was told, is listed or is in the database has been made.
IdInv == \A a \in Alerts : a \in rows \cup todo \cup told \/ a = current => id[a] # 0

IInv == TypeOK /\ PassShape /\ ToldInv /\ LateInv /\ IdInv /\ ToldOnce

-----------------------------------------------------------------------------
\* The bot starts with every invariant true.
LEMMA InitIInv == Init => IInv
<1> SUFFICES ASSUME Init
             PROVE  IInv
  OBVIOUS
<1>1. healthy \in BOOLEAN /\ locked \in BOOLEAN
  BY Zenon DEF Init
<1>2. /\ id \in [Alerts -> Nat] /\ lateTold \in [Alerts -> Nat]
      /\ met \subseteq Alerts /\ faults \in 0..MaxFaults
  BY AlertsAssumption DEF Init, Served
<1>3. TypeOK
  BY <1>1, <1>2 DEF Init, TypeOK
<1>4. PassShape
  BY Zenon DEF Init, PassShape
<1>5. ToldInv /\ LateInv /\ IdInv /\ ToldOnce
  BY AlertsAssumption DEF Init, ToldInv, LateInv, IdInv, ToldOnce
<1> QED
  BY <1>3, <1>4, <1>5 DEF IInv

\* An alert that is in the database is its own heir, and every heir is there.
LEMMA Heirs == \A a : Heir(a) \subseteq rows /\ (a \in rows => a \in Heir(a))
BY DEF Heir

\* An alert is made once, so it was not told, is not listed and is not told late.
LEMMA CreatePreserves ==
  ASSUME IInv, NEW a \in Alerts, CreateAlert(a)
  PROVE  IInv'
<1>1. /\ a \notin rows \cup todo \cup told /\ a # current
  BY DEF IInv, IdInv, CreateAlert
<1>2. PICK n \in {1} \cup {id[b] + 1 : b \in rows} : id' = [id EXCEPT ![a] = n]
  BY DEF CreateAlert
<1>3. n \in Nat /\ n # 0
  BY <1>2 DEF IInv, TypeOK
<1>4. /\ id' \in [Alerts -> Nat] /\ id'[a] # 0
      /\ \A b \in Alerts \ {a} : id'[b] = id[b]
  BY <1>2, <1>3 DEF IInv, TypeOK
<1>5. /\ rows' = rows \cup {a} /\ active' = active \cup {a}
      /\ UNCHANGED <<met, pc, todo, hit, current, consumed, faults, told, again, lost,
                     lateTold>>
  BY DEF CreateAlert, envVars, passVars, worldVars
<1>6. healthy' = healthy /\ locked' = locked
  BY DEF CreateAlert, envVars, passVars
<1>7. healthy' \in BOOLEAN /\ locked' \in BOOLEAN
  BY <1>6 DEF IInv, TypeOK
<1>8. TypeOK'
  BY <1>4, <1>5, <1>7 DEF IInv, TypeOK
<1>9. PassShape'
  BY Zenon, <1>5, <1>6 DEF IInv, PassShape
<1>10. ToldInv' /\ LateInv' /\ IdInv' /\ ToldOnce'
  BY <1>1, <1>4, <1>5 DEF IInv, ToldInv, LateInv, IdInv, ToldOnce
<1> QED
  BY <1>8, <1>9, <1>10 DEF IInv

\* What the other sessions do keeps the invariant.
LEMMA OthersPreserve == IInv /\ Others => IInv'
<1> SUFFICES ASSUME IInv, Others
             PROVE  IInv'
  OBVIOUS
<1>1. ASSUME NEW a \in Alerts, CreateAlert(a)
      PROVE  IInv'
  BY <1>1, CreatePreserves
<1>2. CASE Outage \/ Recovery \/ \E a \in Alerts : DeactivateAlert(a) \/ DeleteAlert(a)
                                                   \/ MarketMoves(a)
  <2>1. /\ rows' \subseteq rows /\ active' \subseteq active
        /\ active' \subseteq rows' /\ met' \subseteq Alerts
        /\ rows' = rows \/ ~locked
    <3>1. active \subseteq rows /\ met \subseteq Alerts
      BY DEF IInv, TypeOK
    <3>2. CASE Outage \/ Recovery
      <4>1. UNCHANGED <<rows, active, met>>
        BY Zenon, <3>2 DEF Outage, Recovery, dbVars
      <4> QED
        BY <3>1, <4>1
    <3>3. CASE \E a \in Alerts : DeactivateAlert(a) \/ DeleteAlert(a) \/ MarketMoves(a)
      BY <3>1, <3>3 DEF DeactivateAlert, DeleteAlert, MarketMoves, dbVars, envVars
    <3> QED
      BY <1>2, <3>2, <3>3
  <2>2. UNCHANGED <<id, pc, todo, hit, current, consumed, faults, told, again, lost,
                    lateTold>>
    BY <1>2 DEF Outage, Recovery, DeactivateAlert, DeleteAlert, MarketMoves,
                dbVars, passVars, worldVars
  <2>3. healthy' \in BOOLEAN /\ locked' = locked
    BY <1>2 DEF Outage, Recovery, DeactivateAlert, DeleteAlert, MarketMoves,
                envVars, passVars, IInv, TypeOK
  <2>4. locked' \in BOOLEAN
    BY <2>3 DEF IInv, TypeOK
  <2>5. consumed' \subseteq rows'
    BY <2>1, <2>2 DEF IInv, TypeOK, PassShape
  <2>6. TypeOK'
    BY <2>1, <2>2, <2>3, <2>4, <2>5 DEF IInv, TypeOK
  <2>7. PassShape'
    BY Zenon, <2>2, <2>3 DEF IInv, PassShape
  <2>8. ToldInv' /\ LateInv' /\ IdInv' /\ ToldOnce'
    BY <2>1, <2>2 DEF IInv, ToldInv, LateInv, IdInv, ToldOnce
  <2> QED
    BY <2>6, <2>7, <2>8 DEF IInv
<1> QED
  BY <1>1, <1>2 DEF Others

\* Reading the alerts, fetching their prices and stamping them keep it.
LEMMA ReadingPreserves ==
  ASSUME IInv,
         \/ GetActiveAlerts
         \/ \E priced \in SUBSET todo : Fetched(priced)
         \/ \E a \in Alerts : NotTriggered(a) \/ Triggers(a)
  PROVE  IInv'
<1>1. /\ UNCHANGED <<id, rows, active, met, consumed, faults, told, again, lost, lateTold>>
      /\ todo' \subseteq todo \cup active
      /\ hit' \subseteq Alerts
      /\ pc' \in {"fetching", "checking", "sending"}
      /\ current' = current \/ (current' \in todo /\ current' \notin todo')
  BY DEF GetActiveAlerts, Fetched, NotTriggered, Triggers, dbVars, envVars, worldVars,
         IInv, TypeOK
<1>2. /\ pc' = "sending" <=> current' # NoAlert
      /\ pc' \in {"asleep", "fetching"} => hit' = {} /\ consumed' = {}
      /\ pc' = "asleep" => todo' = {}
      /\ current' \notin todo'
  BY AlertsAssumption
     DEF GetActiveAlerts, Fetched, NotTriggered, Triggers, IInv, TypeOK, PassShape
<1>3. /\ healthy' = healthy
      /\ locked' = TRUE \/ locked' = locked
      /\ pc' = "sending" => locked' = TRUE
      /\ pc' = "fetching" => locked' = locked
  BY Zenon DEF GetActiveAlerts, Fetched, NotTriggered, Triggers, envVars, IInv, PassShape
<1>4. healthy' \in BOOLEAN /\ locked' \in BOOLEAN
  BY <1>3 DEF IInv, TypeOK
<1>5. current' \in Alerts \cup {NoAlert} /\ todo' \subseteq Alerts
  BY <1>1 DEF IInv, TypeOK
<1>6. TypeOK'
  BY <1>1, <1>4, <1>5 DEF IInv, TypeOK
<1>7. PassShape'
  <2>1. pc' = "fetching" => ~locked'
    <3>1. pc' = "fetching" => pc = "asleep"
      BY DEF GetActiveAlerts, Fetched, NotTriggered, Triggers
    <3> QED
      BY <1>3, <3>1 DEF IInv, PassShape
  <2>2. consumed' # {} => locked'
    BY <1>1, <1>3 DEF IInv, PassShape
  <2> QED
    BY <1>1, <1>2, <1>3, <2>1, <2>2 DEF PassShape
<1>8. \A a \in Alerts : a \in todo' \/ a = current' => a \in todo \cup active \/ a = current
  BY <1>1 DEF IInv, TypeOK
<1>9. todo' \subseteq todo \/ consumed = {}
  BY DEF GetActiveAlerts, Fetched, NotTriggered, Triggers, IInv, PassShape
<1>10. ToldInv' /\ LateInv' /\ IdInv' /\ ToldOnce'
  BY <1>1, <1>5, <1>8, <1>9 DEF IInv, TypeOK, ToldInv, LateInv, IdInv, ToldOnce
<1> QED
  BY <1>6, <1>7, <1>10 DEF IInv

\* A send keeps it, whether the message appears or not.
LEMMA SendPreserves == IInv /\ (SendOk \/ SendFails) => IInv'
<1> SUFFICES ASSUME IInv, SendOk \/ SendFails
             PROVE  IInv'
  OBVIOUS
<1>1. /\ pc = "sending" /\ MarkTriggered
      /\ UNCHANGED <<dbVars, envVars, todo, hit, locked, faults, lost>>
  BY Zenon DEF SendOk, SendFails, worldVars
<1>2. /\ consumed' = consumed \cup Heir(current) /\ current' = NoAlert /\ pc' = "checking"
      /\ UNCHANGED <<id, rows, active, met, todo, hit, faults, lost>>
  BY <1>1 DEF MarkTriggered, dbVars, envVars
<1>3. healthy' = healthy /\ locked' = locked
  BY <1>1 DEF envVars
<1>4. /\ current \in Alerts /\ current \notin todo /\ locked
  BY <1>1, AlertsAssumption DEF IInv, TypeOK, PassShape
<1>5. \/ /\ told' = told \cup {current}
         /\ again' = IF current \in told THEN again \cup {current} ELSE again
         /\ lateTold' = IF current \in active
                          THEN lateTold
                          ELSE [lateTold EXCEPT ![current] = @ + 1]
      \/ UNCHANGED <<told, again, lateTold>>
  BY Zenon DEF SendOk, SendFails, worldVars
<1>6. /\ Heir(current) \subseteq rows
      /\ current \in active => current \in Heir(current)
  BY Heirs DEF IInv, TypeOK
<1>7. TypeOK'
  <2>1. healthy' \in BOOLEAN /\ locked' \in BOOLEAN
    BY <1>3 DEF IInv, TypeOK
  <2>2. /\ told' \subseteq Alerts /\ again' \subseteq told' /\ lost' \subseteq told'
        /\ lateTold' \in [Alerts -> Nat]
    BY <1>2, <1>4, <1>5 DEF IInv, TypeOK
  <2>3. consumed' \subseteq rows'
    BY <1>2, <1>6 DEF IInv, TypeOK
  <2> QED
    BY <1>2, <2>1, <2>2, <2>3 DEF IInv, TypeOK
<1>8. PassShape'
  <2>1. locked' /\ current' \notin todo'
    BY <1>2, <1>3, <1>4, AlertsAssumption DEF IInv, TypeOK
  <2> QED
    BY <1>2, <2>1 DEF PassShape
<1>9. current \in told => current \in lost
  BY DEF IInv, ToldInv
<1>10. ToldOnce'
  BY <1>2, <1>5, <1>9 DEF IInv, ToldOnce
<1>11. ToldInv'
  BY <1>2, <1>4, <1>5, <1>6, <1>7, AlertsAssumption DEF IInv, TypeOK, ToldInv
<1>12. LateInv'
  BY <1>2, <1>4, <1>5, AlertsAssumption DEF IInv, LateInv, TypeOK
<1>13. IdInv'
  BY <1>2, <1>4, <1>5, AlertsAssumption DEF IInv, IdInv
<1> QED
  BY <1>7, <1>8, <1>10, <1>11, <1>12, <1>13 DEF IInv

\* The end of a pass keeps it: the commit, a fetch that failed, and the two ways
\* to be rolled back.
LEMMA EndPreserves ==
  ASSUME IInv, Commit \/ FetchFails \/ PassFails \/ \E a \in Alerts : StaleRow(a)
  PROVE  IInv'
<1>1. /\ EndPass
      /\ UNCHANGED <<id, rows, met, told, again, lateTold>>
      /\ faults' \in 0..MaxFaults
  <2>1. EndPass
    BY Zenon DEF Commit, FetchFails, PassFails, StaleRow
  <2>2. UNCHANGED <<id, rows, met, told, again, lateTold>>
    BY DEF Commit, FetchFails, PassFails, StaleRow, dbVars, envVars, worldVars
  <2>3. faults' = faults \/ (faults' = faults + 1 /\ faults < MaxFaults)
    BY DEF Commit, FetchFails, PassFails, StaleRow
  <2>4. faults \in 0..MaxFaults
    BY DEF IInv, TypeOK
  <2> QED
    BY <2>1, <2>2, <2>3, <2>4, AlertsAssumption
<1>2. /\ pc' = "asleep" /\ todo' = {} /\ hit' = {} /\ consumed' = {}
      /\ current' = NoAlert
  BY <1>1 DEF EndPass
<1>3. locked' = FALSE /\ healthy' = healthy
  <2>1. locked' = FALSE
    BY Zenon, <1>1 DEF EndPass
  <2>2. healthy' = healthy
    BY Zenon DEF Commit, FetchFails, PassFails, StaleRow, envVars
  <2> QED
    BY <2>1, <2>2
<1>4. \/ active' = active \ consumed /\ lost' = lost
      \/ active' = active /\ lost' = lost \cup (consumed \cap told)
      \/ active' = active /\ lost' = lost /\ consumed = {}
  BY DEF Commit, FetchFails, PassFails, StaleRow, RolledBack, dbVars, worldVars,
         IInv, PassShape
<1>5. TypeOK'
  <2>1. locked' \in BOOLEAN /\ healthy' \in BOOLEAN
    BY <1>3 DEF IInv, TypeOK
  <2>2. active' \subseteq rows' /\ lost' \subseteq told'
    BY <1>1, <1>4 DEF IInv, TypeOK
  <2> QED
    BY <1>1, <1>2, <2>1, <2>2 DEF IInv, TypeOK
<1>6. PassShape'
  BY <1>2, <1>3 DEF PassShape
<1>7. ToldInv' /\ LateInv' /\ IdInv' /\ ToldOnce'
  BY <1>1, <1>2, <1>4, AlertsAssumption
     DEF IInv, TypeOK, ToldInv, LateInv, IdInv, ToldOnce
<1> QED
  BY <1>5, <1>6, <1>7 DEF IInv

\* The inductive invariant holds of every behaviour.
LEMMA IInvHolds == Spec => []IInv
<1>1. ASSUME IInv, UNCHANGED vars
      PROVE  IInv'
  <2>1. /\ UNCHANGED <<id, rows, active, met, pc, todo, hit, current, consumed, faults>>
        /\ UNCHANGED <<told, again, lost, lateTold>>
    BY <1>1 DEF vars, dbVars, envVars, passVars, worldVars
  <2>2. healthy' = healthy /\ locked' = locked
    BY <1>1 DEF vars, envVars, passVars
  <2>3. healthy' \in BOOLEAN /\ locked' \in BOOLEAN
    BY <1>1, <2>2 DEF IInv, TypeOK
  <2>4. TypeOK'
    BY <1>1, <2>1, <2>3 DEF IInv, TypeOK
  <2>5. PassShape'
    BY Zenon, <1>1, <2>1, <2>2 DEF IInv, PassShape
  <2>6. ToldInv' /\ LateInv' /\ IdInv' /\ ToldOnce'
    BY <1>1, <2>1 DEF IInv, ToldInv, LateInv, IdInv, ToldOnce
  <2> QED
    BY <2>4, <2>5, <2>6 DEF IInv
<1>2. IInv /\ [Next]_vars => IInv'
  BY <1>1, OthersPreserve, ReadingPreserves, SendPreserves, EndPreserves
     DEF Next, Pass
<1> QED
  BY InitIInv, <1>2, PTL DEF Spec

-----------------------------------------------------------------------------
\* The rows of the alerts, the locals of a pass and the messages keep their
\* types, whatever the other sessions do while the pass awaits the prices.
THEOREM TypeCorrect == Spec => []TypeOK
<1>1. IInv => TypeOK
  BY DEF IInv
<1> QED
  BY IInvHolds, <1>1, PTL

\* However many alerts there are, process_alerts sends one again only when the
\* record of the first message was rolled back with its pass.
THEOREM TellsOnce == Spec => []ToldOnce
<1>1. IInv => ToldOnce
  BY DEF IInv
<1> QED
  BY IInvHolds, <1>1, PTL

\* Switching an alert off, or deleting it, lets at most one more message through.
THEOREM LateAlertsAreBounded == Spec => []AtMostOneLateAlert
<1>1. IInv => AtMostOneLateAlert
  <2> SUFFICES ASSUME IInv, NEW a \in Alerts
               PROVE  lateTold[a] <= 1
    BY DEF AtMostOneLateAlert
  <2>1. lateTold[a] = 0 \/ lateTold[a] = 1
    BY DEF IInv, LateInv
  <2> QED
    BY <2>1
<1> QED
  BY IInvHolds, <1>1, PTL

\* No step of the pass, nor of anybody else, switches an alert on again.
THEOREM OffStaysOff == Spec => StaysOff
<1>1. IInv /\ [Next]_vars => [active' \subseteq active \cup (rows' \ rows)]_vars
  <2> SUFFICES ASSUME IInv, Next
               PROVE  active' \subseteq active \cup (rows' \ rows)
    OBVIOUS
  <2>1. CASE Others
    <3>1. ASSUME NEW a \in Alerts, CreateAlert(a)
          PROVE  active' \subseteq active \cup (rows' \ rows)
      BY <3>1 DEF CreateAlert, IInv, IdInv
    <3>2. CASE Outage \/ Recovery \/ \E a \in Alerts : DeactivateAlert(a) \/ DeleteAlert(a)
                                                       \/ MarketMoves(a)
      BY <3>2 DEF Outage, Recovery, DeactivateAlert, DeleteAlert, MarketMoves, dbVars
    <3> QED
      BY <2>1, <3>1, <3>2 DEF Others
  <2>2. CASE PassFails
    BY <2>2 DEF PassFails, dbVars
  <2>3. CASE Pass
    BY <2>3 DEF Pass, GetActiveAlerts, SendOk, SendFails, Commit, FetchFails,
                Fetched, NotTriggered, Triggers, StaleRow, dbVars
  <2> QED
    BY <2>1, <2>2, <2>3 DEF Next
<1> QED
  BY IInvHolds, <1>1, PTL DEF Spec, StaysOff
=============================================================================
