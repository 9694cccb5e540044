------------------------------- MODULE Server -------------------------------
(***************************************************************************)
(* The shared state of the telemetry server (state.c) and every handler    *)
(* that changes it under g_mutex: the UDP telemetry handler and the TCP    *)
(* REGISTER and BYE commands (protocol.c), and the sweep of the watchdog   *)
(* thread (watchdog.c).                                                    *)
(*                                                                         *)
(* A handler that takes the mutex once is one action.  The watchdog reads  *)
(* the clock before it takes the mutex and holds the mutex over a loop, so *)
(* it is several actions, and no other handler runs while it sweeps.       *)
(*                                                                         *)
(* The read-only commands (LIST_NODES, GET_*, PING, ...) change nothing    *)
(* here; GET_ALERTS is the operator AlertsSnapshot.  The push of an alert  *)
(* to the subscribed operators is the subject of AlertPush.                *)
(*                                                                         *)
(* An operator whose name starts with Faulty is the operator after it with *)
(* a plausible mistake.  Nothing uses it: put in place of the operator, it *)
(* shows that the properties can fail.                                     *)
(***************************************************************************)
EXTENDS Integers, FiniteSets, TelemetryRules

CONSTANTS
  Ids,            \* node identifiers that pass tlp_valid_id
  NoId,           \* the empty identifier of a zeroed entry
  VarNames,       \* names of variables that datagrams carry
  NoValue,        \* the value of a variable never reported
  Readings,       \* <<variable, value>> pairs that datagrams carry
  MaxNodes,       \* MAX_NODES
  MaxVars,        \* MAX_VARS
  MaxAlerts,      \* MAX_ALERTS
  InactiveAfter,  \* INACTIVE_AFTER_S
  MaxSeq,         \* bound: largest sequence number sent
  MaxTime,        \* bound: last second of the clock
  MaxUdp,         \* bound: datagrams handled
  MaxRaised       \* bound: nodes fall silent once this many alerts were raised

ASSUME ServerAssumption ==
  /\ NoId \notin Ids
  /\ NoValue \notin Int
  /\ Readings \subseteq VarNames \X Int
  /\ MaxNodes \in Nat \ {0}
  /\ MaxVars \in Nat \ {0}
  /\ MaxAlerts \in Nat \ {0}
  /\ InactiveAfter \in Nat
  /\ {MaxSeq, MaxTime, MaxUdp, MaxRaised} \subseteq Nat

VARIABLES
  g_nodes,       \* the node table
  g_alerts,      \* the ring of alerts
  g_alert_head,  \* next position to write
  g_alert_count, \* alerts held
  alerts_total,  \* g_stats: alerts ever raised
  udp_received, udp_lost, udp_rejected, udp_invalid,  \* g_stats
  now,           \* time(NULL)
  wdPc,          \* watchdog: "sleep", "woken" (clock read), "sweep" (holds the mutex)
  wdNow,         \* watchdog: the clock it read
  wdPos          \* watchdog: next table entry to visit

alertVars == <<g_alerts, g_alert_head, g_alert_count, alerts_total>>
udpVars == <<udp_received, udp_lost, udp_rejected, udp_invalid>>
wdVars == <<wdPc, wdNow, wdPos>>
vars == <<g_nodes, alertVars, udpVars, now, wdVars>>

Slots == 0 .. MaxNodes - 1
RingSlots == 0 .. MaxAlerts - 1
Types == ThresholdTypes \cup {"NODE_INACTIVE"}
Alert == [node : Ids, type : Types]
NoAlert == [node |-> NoId, type |-> "NONE"]

EmptyNode ==
  [used |-> FALSE, id |-> NoId, active |-> FALSE, last_seen |-> 0,
   received |-> 0, lost |-> 0, alerts |-> 0, last_seq |-> 0,
   inactive_alerted |-> FALSE, vars |-> [v \in VarNames |-> NoValue]]

Init ==
  /\ g_nodes = [i \in Slots |-> EmptyNode]
  /\ g_alerts = [i \in RingSlots |-> NoAlert]
  /\ g_alert_head = 0 /\ g_alert_count = 0 /\ alerts_total = 0
  /\ udp_received = 0 /\ udp_lost = 0 /\ udp_rejected = 0 /\ udp_invalid = 0
  /\ now = 0
  /\ wdPc = "sleep" /\ wdNow = 0 /\ wdPos = 0

----------------------------------------------------------------------------
(* Looking into the table and updating one entry. *)

First(S) == { i \in S : \A j \in S : i <= j }

FaultyFindNode(tab, id) == First({ i \in Slots : tab[i].id = id /\ tab[i].active })

\* state_find_node: the first used entry with that id (an empty set for NULL).
FindNode(tab, id) == First({ i \in Slots : tab[i].used /\ tab[i].id = id })

FreeSlot == First({ i \in Slots : ~g_nodes[i].used })

FaultyAlive(n) == [n EXCEPT !.active = TRUE, !.last_seen = now]

\* What REGISTER and an accepted datagram have in common.
Alive(n) ==
  [n EXCEPT !.active = TRUE, !.last_seen = now, !.inactive_alerted = FALSE]

\* REGISTER of an existing entry keeps its counters and its measures.
Enrolled(n) == [Alive(n) EXCEPT !.last_seq = 0]

Enlisted(id) == Enrolled([EmptyNode EXCEPT !.used = TRUE, !.id = id])

\* Leaves the node active.
FaultyMarked(n) == [n EXCEPT !.inactive_alerted = TRUE]

\* What BYE and the sweep have in common.
Marked(n) == [n EXCEPT !.active = FALSE, !.inactive_alerted = TRUE]

Measured(n) == { v \in VarNames : n.vars[v] # NoValue }

FaultySetMeasure(n, var, value) ==
  IF var \in Measured(n) \/ Cardinality(Measured(n)) <= MaxVars
  THEN [n EXCEPT !.vars[var] = value]
  ELSE n

\* Lets a variable that finds the entry full take the place of another one.
EvictingSetMeasure(n, var, value) ==
  IF var \in Measured(n) \/ Cardinality(Measured(n)) < MaxVars
  THEN [n EXCEPT !.vars[var] = value]
  ELSE [n EXCEPT !.vars = [v \in VarNames |->
                             IF v = var THEN value
                             ELSE IF v = CHOOSE w \in Measured(n) : TRUE THEN NoValue
                             ELSE @[v]]]

\* state_set_measure: a variable beyond the first MaxVars is ignored.
SetMeasure(n, var, value) ==
  IF var \in Measured(n) \/ Cardinality(Measured(n)) < MaxVars
  THEN [n EXCEPT !.vars[var] = value]
  ELSE n

\* Counts the gap from the sequence number it has just stored.
FaultyReported(n, seq, var, value) ==
  SetMeasure([Alive(n) EXCEPT !.last_seq = NextLastSeq(@, seq),
                              !.lost = @ + Gap(NextLastSeq(n.last_seq, seq), seq),
                              !.received = @ + 1],
             var, value)

\* An accepted datagram, up to check_thresholds.
Reported(n, seq, var, value) ==
  SetMeasure([Alive(n) EXCEPT !.lost = @ + Gap(n.last_seq, seq),
                              !.last_seq = NextLastSeq(@, seq),
                              !.received = @ + 1],
             var, value)

\* Forgets to stop counting at MaxAlerts.
FaultyAddAlert(tab, id, type) ==
  /\ g_alerts' = [g_alerts EXCEPT ![g_alert_head] = [node |-> id, type |-> type]]
  /\ g_alert_head' = (g_alert_head + 1) % MaxAlerts
  /\ g_alert_count' = (g_alert_count + 1) % MaxAlerts
  /\ alerts_total' = alerts_total + 1
  /\ g_nodes' = [i \in Slots |->
                   IF i \in FindNode(tab, id)
                   THEN [tab[i] EXCEPT !.alerts = @ + 1] ELSE tab[i]]

\* state_add_alert on table tab: log the alert, count it globally and, when
\* the node is found, on its entry.
AddAlert(tab, id, type) ==
  /\ g_alerts' = [g_alerts EXCEPT ![g_alert_head] = [node |-> id, type |-> type]]
  /\ g_alert_head' = (g_alert_head + 1) % MaxAlerts
  /\ g_alert_count' = IF g_alert_count < MaxAlerts THEN g_alert_count + 1
                                                   ELSE g_alert_count
  /\ alerts_total' = alerts_total + 1
  /\ g_nodes' = [i \in Slots |->
                   IF i \in FindNode(tab, id)
                   THEN [tab[i] EXCEPT !.alerts = @ + 1] ELSE tab[i]]

FaultyAlertsSnapshot(max) ==
  [k \in 1 .. (IF g_alert_count < max THEN g_alert_count ELSE max) |->
     g_alerts[(g_alert_head + k - 1) % MaxAlerts]]

\* state_alerts_snapshot: newest first.
AlertsSnapshot(max) ==
  [k \in 1 .. (IF g_alert_count < max THEN g_alert_count ELSE max) |->
     g_alerts[(g_alert_head - k + MaxAlerts) % MaxAlerts]]

----------------------------------------------------------------------------
(* Handlers.  The mutex is free unless the watchdog is sweeping. *)

MutexFree == wdPc # "sweep"

\* The nodes of a run stop talking once MaxRaised alerts were raised.
NodesTalk == alerts_total < MaxRaised

\* REGISTER.  When the id is new and no entry is free the server answers
\* ERR|106 and nothing changes.
Register(id) ==
  /\ MutexFree /\ NodesTalk
  /\ \/ \E i \in FindNode(g_nodes, id) :
          g_nodes' = [g_nodes EXCEPT ![i] = Enrolled(@)]
     \/ /\ FindNode(g_nodes, id) = {}
        /\ \E i \in FreeSlot : g_nodes' = [g_nodes EXCEPT ![i] = Enlisted(id)]
  /\ UNCHANGED <<alertVars, udpVars, now, wdVars>>

\* BYE: a node that leaves raises no NODE_INACTIVE alert later.
Bye(id) ==
  /\ MutexFree
  /\ \E i \in FindNode(g_nodes, id) :
       g_nodes' = [g_nodes EXCEPT ![i] = Marked(@)]
  /\ UNCHANGED <<alertVars, udpVars, now, wdVars>>

\* The datagrams so far, which MaxUdp bounds; nothing in the code.
UdpHandled == udp_received + udp_rejected + udp_invalid

\* TELEMETRY of an unknown node: counted and answered NACK|104.
TelemetryRejected(id) ==
  /\ MutexFree /\ UdpHandled < MaxUdp
  /\ FindNode(g_nodes, id) = {}
  /\ udp_rejected' = udp_rejected + 1
  /\ UNCHANGED <<g_nodes, alertVars, udp_received, udp_lost, udp_invalid, now, wdVars>>

\* TELEMETRY of a registered node.
Telemetry(id, seq, var, value) ==
  /\ MutexFree /\ NodesTalk /\ UdpHandled < MaxUdp
  /\ \E i \in FindNode(g_nodes, id) :
       LET tab == [g_nodes EXCEPT ![i] = Reported(@, seq, var, value)]
       IN /\ udp_lost' = udp_lost + Gap(g_nodes[i].last_seq, seq)
          /\ \/ /\ AlertTypes(var, value) = {}
                /\ g_nodes' = tab
                /\ UNCHANGED alertVars
             \/ \E type \in AlertTypes(var, value) : AddAlert(tab, id, type)
  /\ udp_received' = udp_received + 1
  /\ UNCHANGED <<udp_rejected, udp_invalid, now, wdVars>>

\* A datagram that fails one of the checks before the table is consulted.
TelemetryInvalid ==
  /\ MutexFree /\ UdpHandled < MaxUdp
  /\ udp_invalid' = udp_invalid + 1
  /\ UNCHANGED <<g_nodes, alertVars, udp_received, udp_lost, udp_rejected, now, wdVars>>

----------------------------------------------------------------------------
(* The watchdog thread. *)

\* sleep(1) is over and the clock is read; the mutex is not held yet.
WatchdogWake ==
  /\ wdPc = "sleep"
  /\ wdPc' = "woken" /\ wdNow' = now
  /\ UNCHANGED <<g_nodes, alertVars, udpVars, now, wdPos>>

WatchdogLock ==
  /\ wdPc = "woken"
  /\ wdPc' = "sweep" /\ wdPos' = 0
  /\ UNCHANGED <<g_nodes, alertVars, udpVars, now, wdNow>>

FaultyTimedOut(n) == n.used /\ n.active /\ wdNow - n.last_seen > InactiveAfter + 1

EagerTimedOut(n) == n.used /\ n.active /\ wdNow - n.last_seen >= InactiveAfter

TimedOut(n) == n.used /\ n.active /\ wdNow - n.last_seen > InactiveAfter

\* One iteration of the loop over the table.
WatchdogVisit ==
  /\ wdPc = "sweep" /\ wdPos < MaxNodes
  /\ LET n == g_nodes[wdPos]
         tab == [g_nodes EXCEPT ![wdPos] = Marked(@)]
     IN IF ~TimedOut(n) THEN UNCHANGED <<g_nodes, alertVars>>
        ELSE IF n.inactive_alerted THEN g_nodes' = tab /\ UNCHANGED alertVars
        ELSE AddAlert(tab, n.id, "NODE_INACTIVE")
  /\ wdPos' = wdPos + 1
  /\ UNCHANGED <<udpVars, now, wdPc, wdNow>>

WatchdogUnlock ==
  /\ wdPc = "sweep" /\ wdPos = MaxNodes
  /\ wdPc' = "sleep"
  /\ UNCHANGED <<g_nodes, alertVars, udpVars, now, wdNow, wdPos>>

\* A second passes.
Tick ==
  /\ now < MaxTime
  /\ now' = now + 1
  /\ UNCHANGED <<g_nodes, alertVars, udpVars, wdVars>>

----------------------------------------------------------------------------
Watchdog == WatchdogWake \/ WatchdogLock \/ WatchdogVisit \/ WatchdogUnlock

Next ==
  \/ \E id \in Ids :
       \/ Register(id)
       \/ Bye(id)
       \/ TelemetryRejected(id)
       \/ \E seq \in 0 .. MaxSeq : \E r \in Readings : Telemetry(id, seq, r[1], r[2])
  \/ TelemetryInvalid
  \/ Watchdog
  \/ Tick

Spec == Init /\ [][Next]_vars

\* The watchdog thread is scheduled and its mutex requests are served (nobody
\* holds the mutex for ever here); nodes and operators need not do anything.
FairSpec == Spec /\ WF_vars(Watchdog)

----------------------------------------------------------------------------
(* Properties. *)

NodeEntry ==
  [used : BOOLEAN, id : Ids \cup {NoId}, active : BOOLEAN, last_seen : Nat,
   received : Nat, lost : Nat, alerts : Nat, last_seq : Nat,
   inactive_alerted : BOOLEAN, vars : [VarNames -> Int \cup {NoValue}]]

\* Every variable has the values its C declaration is meant for.
TypeOK ==
  /\ g_nodes \in [Slots -> NodeEntry]
  /\ g_alerts \in [RingSlots -> Alert \cup {NoAlert}]
  /\ g_alert_head \in RingSlots
  /\ g_alert_count \in 0 .. MaxAlerts
  /\ alerts_total \in Nat
  /\ {udp_received, udp_lost, udp_rejected, udp_invalid} \subseteq Nat
  /\ now \in Nat
  /\ wdPc \in {"sleep", "woken", "sweep"}
  /\ wdNow \in Nat
  /\ wdPos \in 0 .. MaxNodes

\* A node never gets a second entry, and the used entries come first, so that
\* "the first used entry with that id" and "the first free entry" of state.c
\* are well defined whatever the order of REGISTERs.
TableConsistent ==
  /\ \A i, j \in Slots :
       g_nodes[i].used /\ g_nodes[j].used /\ g_nodes[i].id = g_nodes[j].id => i = j
  /\ \A i, j \in Slots : i < j /\ g_nodes[j].used => g_nodes[i].used
  /\ \A i \in Slots : g_nodes[i].used => g_nodes[i].id \in Ids

\* The two flags of an entry are written in five places and stay opposite: an
\* active node can still raise its NODE_INACTIVE alert, an inactive one already
\* has or said BYE.  (So the test of inactive_alerted in watchdog.c never fails.)
ActiveIffNotAlerted ==
  \A i \in Slots :
    g_nodes[i].used => (g_nodes[i].active <=> ~g_nodes[i].inactive_alerted)

\* An entry never holds more variables than nvars can count.
MeasuresBounded ==
  \A i \in Slots : Cardinality(Measured(g_nodes[i])) <= MaxVars

Stored(i, v) == g_nodes[i].vars[v] # NoValue

\* A stored measure is replaced by a newer one of the same variable alone, which a
\* datagram of that node brings and which changes no other measure of the table: not by a
\* variable that finds the entry full, a REGISTER again, a BYE or the sweep.
MeasuresKept ==
  [][\A i \in Slots, v \in VarNames :
       Stored(i, v) /\ g_nodes'[i].vars[v] # g_nodes[i].vars[v] =>
         /\ Stored(i, v)' /\ g_nodes'[i].received > g_nodes[i].received
         /\ \A j \in Slots, w \in VarNames :
              <<j, w>> # <<i, v>> => g_nodes'[j].vars[w] = g_nodes[j].vars[w]]_vars

\* The counts that f keeps per index, one element for each unit counted, and
\* how many they are together.
Units(f) == UNION { {i} \X (1 .. f[i]) : i \in DOMAIN f }
Total(f) == Cardinality(Units(f))

ReceivedPer(tab) == [i \in Slots |-> tab[i].received]
LostPer(tab) == [i \in Slots |-> tab[i].lost]
RaisedPer(tab) == [i \in Slots |-> tab[i].alerts]

\* The per-node counters that LIST_NODES and GET_STATUS report add up to the
\* totals of SYSTEM_STATUS, which other statements of state.c and protocol.c
\* keep: no datagram and no alert is counted in one place only.
CountersAgree ==
  /\ Total(ReceivedPer(g_nodes)) = udp_received
  /\ Total(LostPer(g_nodes)) = udp_lost
  /\ Total(RaisedPer(g_nodes)) = alerts_total

\* A node is marked inactive only by its own BYE, which raises no alert, or by
\* the sweep, which does so only when the node has really been silent for
\* longer than InactiveAfter by the clock of this moment (the sweep compares
\* with an older reading of it) and then raises exactly one alert, for it.
MarkedInactiveRightly ==
  [][\A i \in Slots :
       g_nodes[i].active /\ ~g_nodes'[i].active =>
         \/ wdPc # "sweep" /\ UNCHANGED alertVars
         \/ /\ now - g_nodes[i].last_seen > InactiveAfter
            /\ alerts_total' = alerts_total + 1
            /\ g_nodes'[i].alerts = g_nodes[i].alerts + 1
            /\ g_alerts'[g_alert_head] =
                 [node |-> g_nodes[i].id, type |-> "NODE_INACTIVE"]]_vars

\* A sweep raises no alert but the one of an active node it marks inactive: no
\* node is reported twice in one silence, and none after its BYE.
SweepAlertsOnce ==
  [][wdPc = "sweep" /\ alerts_total' # alerts_total =>
       \E i \in Slots : g_nodes[i].active /\ ~g_nodes'[i].active]_vars

Silent(i) ==
  g_nodes[i].used /\ g_nodes[i].active /\ now - g_nodes[i].last_seen > InactiveAfter

\* A node that stays silent for too long is marked inactive.
SilentNodeDetected == \A i \in Slots : Silent(i) ~> ~Silent(i)

\* GET_ALERTS shows the newest MaxAlerts alerts, newest first, none missing.
Log == INSTANCE AlertLog WITH
         Alerts <- Alert, Capacity <- MaxAlerts, log <- AlertsSnapshot(MaxAlerts)

AlertLogSpec == Log!Spec
=============================================================================
