----------------------------- MODULE NodeReadings -----------------------------
(***************************************************************************)
(* The simulated sensors of a node (measure() in node/node.py): each       *)
(* variable drifts within its range, and a reading is either the drifting  *)
(* value or, at random or because --force-alert names the variable, a      *)
(* value from the range of anomalies.  TelemetryRules says what the server *)
(* makes of a reading.                                                     *)
(*                                                                         *)
(* The drifting values count in hundredths of the unit.  A reading is in   *)
(* tenths, as in TelemetryRules: one of the two next to the value, which   *)
(* covers the rounding of "%.1f" and leaves out the second decimal of VIB. *)
(***************************************************************************)
EXTENDS TelemetryRules

VARIABLES
  state,         \* self.state
  anomaly_rate,  \* whether --anomaly-rate is above 0
  force_alert,   \* the variable of --force-alert, or "none"
  reading        \* the last result of measure()

vars == <<state, anomaly_rate, force_alert, reading>>

Drifting == {"TEMP", "HUM", "ENERGY", "VIB"}
VARS == Drifting \cup {"STATUS"}

\* The lines of measure(): largest step, range, range of anomalies, in hundredths.
Sensor ==
  [TEMP   |-> [step |-> 60, low |-> 1500, high |-> 3500, from |-> 4500, to |-> 5000],
   HUM    |-> [step |-> 150, low |-> 3000, high |-> 8000, from |-> 8800, to |-> 9600],
   ENERGY |-> [step |-> 8000, low |-> 30000, high |-> 450000, from |-> 520000, to |-> 610000],
   VIB    |-> [step |-> 30, low |-> 20, high |-> 600, from |-> 850, to |-> 1150]]

InitialState == [TEMP |-> 2400, HUM |-> 5500, ENERGY |-> 120000, VIB |-> 150]

Init ==
  /\ state = InitialState
  /\ anomaly_rate \in BOOLEAN /\ force_alert \in VARS \cup {"none"}
  /\ reading = [var |-> "unread", value |-> 0, anomaly |-> FALSE]

Clamped(var, s) ==
  IF s < Sensor[var].low THEN Sensor[var].low
  ELSE IF s > Sensor[var].high THEN Sensor[var].high ELSE s

\* The tenths that may stand for s hundredths.
Tenths(s) == { s \div 10, (s + 9) \div 10 }

\* Whether this reading is an anomaly.
Anomalies(var) == IF force_alert = var THEN {TRUE} ELSE {FALSE, anomaly_rate}

\* The value drifts even when an anomaly is reported in its place.
MeasureDrifting(var) ==
  /\ \E u \in -Sensor[var].step .. Sensor[var].step :
       state' = [state EXCEPT ![var] = Clamped(var, @ + u)]
  /\ \E anomaly \in Anomalies(var) :
       \E s \in IF anomaly THEN Sensor[var].from .. Sensor[var].to ELSE {state'[var]} :
         \E value \in Tenths(s) :
           reading' = [var |-> var, value |-> value, anomaly |-> anomaly]
  /\ UNCHANGED <<anomaly_rate, force_alert>>

MeasureStatus ==
  /\ \E anomaly \in Anomalies("STATUS") :
       \E value \in IF anomaly THEN {StatusFault} ELSE 0 .. StatusFault - 1 :
         reading' = [var |-> "STATUS", value |-> value, anomaly |-> anomaly]
  /\ UNCHANGED <<state, anomaly_rate, force_alert>>

Next == MeasureStatus \/ \E var \in Drifting : MeasureDrifting(var)

Spec == Init /\ [][Next]_vars

----------------------------------------------------------------------------
(* Properties. *)

\* The drifting values stay in their ranges.
InRange == state \in [Drifting -> Int]
  /\ \A var \in Drifting : Sensor[var].low <= state[var] /\ state[var] <= Sensor[var].high

\* The ranges of node.py and the thresholds of protocol.c fit together: the server
\* raises an alert for a reading exactly when the node meant it as an anomaly.  So a
\* forced alert is never missing in a demonstration and a normal value never raises one.
AlertsExactlyAnomalies ==
  AlertTypes(reading.var, reading.value) # {} <=> reading.anomaly

\* A reading of the variable of --force-alert is always an anomaly, and with a rate of 0
\* no other is.
ForcedAlerts ==
  /\ reading.var = force_alert => reading.anomaly
  /\ reading.anomaly => reading.var = force_alert \/ anomaly_rate
=============================================================================
