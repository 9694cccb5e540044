-------------------------- MODULE NodeReadingsProofs --------------------------
(***************************************************************************)
(* Proofs about NodeReadings.  The ranges are too large for TLC (ENERGY    *)
(* alone has 420001 values); the proof needs only their ends, which the    *)
(* lemma InTenths relates to the thresholds of the server.                 *)
(***************************************************************************)
EXTENDS NodeReadings, TLAPS

LEMMA DivisionByTen ==
  ASSUME NEW s \in Int
  PROVE  s \div 10 \in Int /\ 10 * (s \div 10) <= s /\ s < 10 * (s \div 10) + 10
  OBVIOUS

\* A reading in tenths is less than a tenth away from the value it stands for.
LEMMA InTenths ==
  ASSUME NEW s \in Int, NEW value \in Tenths(s)
  PROVE  value \in Int /\ s - 10 < 10 * value /\ 10 * value < s + 10
<1>1. CASE value = s \div 10
  BY <1>1, DivisionByTen
<1>2. CASE value = (s + 9) \div 10
  <2>1. s + 9 \in Int
    OBVIOUS
  <2>2. value \in Int /\ 10 * value <= s + 9 /\ s + 9 < 10 * value + 10
    BY <1>2, <2>1, DivisionByTen
  <2> QED BY <2>2
<1> QED BY <1>1, <1>2 DEF Tenths

\* What the server makes of the value of one variable, written out.
LEMMA AlertTypesOf ==
  ASSUME NEW var \in VARS \cup {"unread"}, NEW value \in Int
  PROVE  AlertTypes(var, value) # {} <=>
           \/ var = "TEMP" /\ (value > 400 \/ value < -100)
           \/ var = "HUM" /\ value > 850
           \/ var = "ENERGY" /\ value > 50000
           \/ var = "VIB" /\ value > 80
           \/ var = "STATUS" /\ value > 1
<1>1. AlertTypes(var, value) # {} <=>
        \/ \E r \in Thresholds : r.var = var /\ value > r.over
        \/ var = "TEMP" /\ value < -100
  BY DEF AlertTypes, LowTemp
<1>2. \A r \in Thresholds :
        \/ r.var = "TEMP" /\ r.over = 400
        \/ r.var = "HUM" /\ r.over = 850
        \/ r.var = "ENERGY" /\ r.over = 50000
        \/ r.var = "VIB" /\ r.over = 80
        \/ r.var = "STATUS" /\ r.over = 1
  BY DEF Thresholds, StatusFault
<1>3. /\ \E r \in Thresholds : r.var = "TEMP" /\ r.over = 400
      /\ \E r \in Thresholds : r.var = "HUM" /\ r.over = 850
      /\ \E r \in Thresholds : r.var = "ENERGY" /\ r.over = 50000
      /\ \E r \in Thresholds : r.var = "VIB" /\ r.over = 80
      /\ \E r \in Thresholds : r.var = "STATUS" /\ r.over = 1
  BY DEF Thresholds, StatusFault
<1>4. (\E r \in Thresholds : r.var = var /\ value > r.over) <=>
        \/ var = "TEMP" /\ value > 400
        \/ var = "HUM" /\ value > 850
        \/ var = "ENERGY" /\ value > 50000
        \/ var = "VIB" /\ value > 80
        \/ var = "STATUS" /\ value > 1
  BY <1>2, <1>3
<1> QED BY <1>1, <1>4

\* The range of a variable raises no alert, and the range of its anomalies always does.
LEMMA RangesFit ==
  ASSUME NEW var \in Drifting, NEW s \in Int, NEW value \in Tenths(s)
  PROVE  /\ Sensor[var].low <= s /\ s <= Sensor[var].high => AlertTypes(var, value) = {}
         /\ Sensor[var].from <= s /\ s <= Sensor[var].to => AlertTypes(var, value) # {}
<1>1. value \in Int /\ s - 10 < 10 * value /\ 10 * value < s + 10
  BY InTenths
<1>2. var \in VARS
  BY DEF VARS
<1>3. CASE var = "TEMP"
  BY <1>1, <1>2, <1>3, AlertTypesOf DEF Sensor, Drifting
<1>4. CASE var = "HUM"
  BY <1>1, <1>2, <1>4, AlertTypesOf DEF Sensor, Drifting
<1>5. CASE var = "ENERGY"
  BY <1>1, <1>2, <1>5, AlertTypesOf DEF Sensor, Drifting
<1>6. CASE var = "VIB"
  BY <1>1, <1>2, <1>6, AlertTypesOf DEF Sensor, Drifting
<1> QED BY <1>3, <1>4, <1>5, <1>6 DEF Drifting

LEMMA SensorType ==
  ASSUME NEW var \in Drifting
  PROVE  /\ Sensor[var] \in [step : Nat, low : Int, high : Int, from : Int, to : Int]
         /\ Sensor[var].low <= Sensor[var].high
BY DEF Sensor, Drifting

Flags ==
  /\ anomaly_rate \in BOOLEAN /\ force_alert \in VARS \cup {"none"}
  /\ reading.anomaly \in BOOLEAN

\* The inductive invariant: a reading keeps to the rule because the value it comes from
\* is in its range.
IInv == Flags /\ InRange /\ AlertsExactlyAnomalies /\ ForcedAlerts

LEMMA InitOK == Init => IInv
<1> SUFFICES ASSUME Init PROVE IInv
  OBVIOUS
<1>1. InRange
  <2>1. state \in [Drifting -> Int]
    BY DEF Init, InitialState, Drifting
  <2>2. ASSUME NEW var \in Drifting
        PROVE  Sensor[var].low <= InitialState[var] /\ InitialState[var] <= Sensor[var].high
    <3>1. CASE var = "TEMP"
      BY <3>1 DEF Sensor, InitialState, Drifting
    <3>2. CASE var = "HUM"
      BY <3>2 DEF Sensor, InitialState, Drifting
    <3>3. CASE var = "ENERGY"
      BY <3>3 DEF Sensor, InitialState, Drifting
    <3>4. CASE var = "VIB"
      BY <3>4 DEF Sensor, InitialState, Drifting
    <3> QED BY <3>1, <3>2, <3>3, <3>4 DEF Drifting
  <2> QED BY <2>1, <2>2 DEF Init, InRange
<1>2. AlertTypes("unread", 0) = {}
  BY AlertTypesOf
<1>3. AlertsExactlyAnomalies /\ ForcedAlerts /\ Flags
  BY <1>2 DEF Init, AlertsExactlyAnomalies, ForcedAlerts, Flags, VARS, Drifting
<1> QED BY <1>1, <1>3 DEF IInv

LEMMA StatusStep == IInv /\ MeasureStatus => IInv'
<1> SUFFICES ASSUME IInv, MeasureStatus PROVE IInv'
  OBVIOUS
<1>1. PICK anomaly \in Anomalies("STATUS") :
        \E value \in IF anomaly THEN {StatusFault} ELSE 0 .. StatusFault - 1 :
          reading' = [var |-> "STATUS", value |-> value, anomaly |-> anomaly]
  BY DEF MeasureStatus
<1>2. PICK value \in IF anomaly THEN {StatusFault} ELSE 0 .. StatusFault - 1 :
        reading' = [var |-> "STATUS", value |-> value, anomaly |-> anomaly]
  BY <1>1
<1>3. anomaly \in BOOLEAN
  BY DEF Anomalies, IInv, Flags
<1>4. value \in Int /\ (value > 1 <=> anomaly)
  BY <1>3 DEF StatusFault
<1>5. AlertTypes("STATUS", value) # {} <=> anomaly
  BY <1>4, AlertTypesOf DEF VARS
<1>6. AlertsExactlyAnomalies'
  BY <1>2, <1>5 DEF AlertsExactlyAnomalies
<1>7. UNCHANGED <<state, anomaly_rate, force_alert>>
  BY DEF MeasureStatus
<1>8. Flags' /\ InRange'
  BY <1>2, <1>3, <1>7 DEF IInv, Flags, InRange
<1>9. ForcedAlerts'
  BY <1>2, <1>7 DEF ForcedAlerts, Anomalies, IInv, Flags
<1> QED BY <1>6, <1>8, <1>9 DEF IInv

LEMMA DriftingStep ==
  ASSUME NEW var \in Drifting, IInv, MeasureDrifting(var)
  PROVE  IInv'
<1>1. PICK u \in -Sensor[var].step .. Sensor[var].step :
        state' = [state EXCEPT ![var] = Clamped(var, @ + u)]
  BY DEF MeasureDrifting
<1>2. state[var] + u \in Int
  BY SensorType DEF IInv, InRange
<1>3. /\ Clamped(var, state[var] + u) \in Int
      /\ Sensor[var].low <= Clamped(var, state[var] + u)
      /\ Clamped(var, state[var] + u) <= Sensor[var].high
  BY <1>2, SensorType DEF Clamped
<1>4. InRange'
  BY <1>1, <1>3 DEF IInv, InRange
<1>5. PICK anomaly \in Anomalies(var) :
        \E s \in IF anomaly THEN Sensor[var].from .. Sensor[var].to ELSE {state'[var]} :
          \E value \in Tenths(s) :
            reading' = [var |-> var, value |-> value, anomaly |-> anomaly]
  BY DEF MeasureDrifting
<1>6. PICK s \in IF anomaly THEN Sensor[var].from .. Sensor[var].to ELSE {state'[var]} :
        \E value \in Tenths(s) :
          reading' = [var |-> var, value |-> value, anomaly |-> anomaly]
  BY <1>5
<1>7. PICK value \in Tenths(s) :
        reading' = [var |-> var, value |-> value, anomaly |-> anomaly]
  BY <1>6
<1>8. anomaly \in BOOLEAN
  BY DEF Anomalies, IInv, Flags
<1>9. s \in Int /\ (IF anomaly THEN Sensor[var].from <= s /\ s <= Sensor[var].to
                     ELSE Sensor[var].low <= s /\ s <= Sensor[var].high)
  BY <1>4, <1>8, SensorType DEF InRange
<1>10. AlertTypes(var, value) # {} <=> anomaly
  BY <1>8, <1>9, RangesFit
<1>11. AlertsExactlyAnomalies'
  BY <1>7, <1>10 DEF AlertsExactlyAnomalies
<1>12. UNCHANGED <<anomaly_rate, force_alert>>
  BY DEF MeasureDrifting
<1>13. Flags' /\ ForcedAlerts'
  BY <1>7, <1>8, <1>12 DEF Flags, ForcedAlerts, Anomalies, IInv
<1> QED BY <1>4, <1>11, <1>13 DEF IInv

LEMMA NextOK == IInv /\ [Next]_vars => IInv'
<1> SUFFICES ASSUME IInv, [Next]_vars PROVE IInv'
  OBVIOUS
<1>1. CASE MeasureStatus
  BY <1>1, StatusStep
<1>2. CASE \E var \in Drifting : MeasureDrifting(var)
  BY <1>2, DriftingStep
<1>3. CASE UNCHANGED vars
  BY <1>3 DEF vars, IInv, Flags, InRange, AlertsExactlyAnomalies, ForcedAlerts
<1> QED BY <1>1, <1>2, <1>3 DEF Next

\* The ranges of node.py and the thresholds of protocol.c fit together, for every drift
\* and every choice of the options: an alert is raised exactly for an anomaly, and a
\* variable named by --force-alert never reports anything else.
THEOREM ReadingsMatchThresholds == Spec => [](AlertsExactlyAnomalies /\ ForcedAlerts)
<1>1. Init => IInv
  BY InitOK
<1>2. IInv /\ [Next]_vars => IInv'
  BY NextOK
<1>3. IInv => AlertsExactlyAnomalies /\ ForcedAlerts
  BY DEF IInv
<1> QED BY <1>1, <1>2, <1>3, PTL DEF Spec
=============================================================================
