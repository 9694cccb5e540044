--------------------------- MODULE TelemetryRules ---------------------------
(***************************************************************************)
(* The pure rules the server applies to one accepted TELEMETRY datagram    *)
(* (server/src/protocol.c): how its sequence number changes the loss       *)
(* accounting of its node, and which alert its reading raises.             *)
(*                                                                         *)
(* Readings are integers in tenths of the unit, so 401 stands for "40.1";  *)
(* the three words STATUS accepts are 0 (OK), 1 (WARN) and 2 (FAULT).      *)
(*                                                                         *)
(* An operator whose name starts with Faulty is the operator after it with *)
(* a plausible mistake, to show that the properties can fail.              *)
(***************************************************************************)
EXTENDS Integers

StatusFault == 2

\* Forgets that a number may be older than the last one.
FaultyGap(lastSeq, seq) == IF lastSeq > 0 THEN seq - lastSeq - 1 ELSE 0

\* Datagrams presumed lost between the last sequence number seen and this one.
\* The first datagram after a REGISTER (lastSeq = 0) counts no gap.
Gap(lastSeq, seq) ==
  IF seq > lastSeq + 1 /\ lastSeq > 0 THEN seq - lastSeq - 1 ELSE 0

\* A number of 0 or 1 is taken for a node that restarted its numbering.
NextLastSeq(lastSeq, seq) ==
  IF seq > lastSeq \/ seq <= 1 THEN seq ELSE lastSeq

\* The threshold table of check_thresholds.
Thresholds ==
  { [var |-> "TEMP",   type |-> "TEMP_HIGH",   over  |-> 400],
    [var |-> "HUM",    type |-> "HUM_HIGH",    over  |-> 850],
    [var |-> "ENERGY", type |-> "ENERGY_HIGH", over  |-> 50000],
    [var |-> "VIB",    type |-> "VIB_HIGH",    over  |-> 80],
    [var |-> "STATUS", type |-> "STATUS_FAULT", over |-> StatusFault - 1] }

LowTemp == -100

\* The alert a reading raises: a set with at most one type.
AlertTypes(var, value) ==
  { t.type : t \in { r \in Thresholds : r.var = var /\ value > r.over } }
    \cup (IF var = "TEMP" /\ value < LowTemp THEN {"TEMP_LOW"} ELSE {})

ThresholdTypes == { r.type : r \in Thresholds } \cup {"TEMP_LOW"}
=============================================================================
