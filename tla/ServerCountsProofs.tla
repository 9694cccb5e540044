------------------------- MODULE ServerCountsProofs -------------------------
(***************************************************************************)
(* What the server counts, proved with the cardinality of sets.            *)
(*                                                                         *)
(* The measures of an entry stay within MAX_VARS, however many different   *)
(* names of variables the datagrams carry (infinitely many, even): only    *)
(* state_set_measure adds a variable, REGISTER of a new node starts        *)
(* without any, and every other step leaves the measures alone.            *)
(*                                                                         *)
(* The counters of the entries add up to the totals of g_stats, for any    *)
(* size of the table: every step adds to one entry what it adds to the     *)
(* total, and an entry that REGISTER overwrites has counted nothing yet.   *)
(*                                                                         *)
(* A stored measure stays until a newer one of its variable comes: only    *)
(* state_set_measure writes measures, one at a time, and an entry that     *)
(* REGISTER overwrites holds none.                                         *)
(***************************************************************************)
EXTENDS ServerProofs, FiniteSetTheorems

\* MeasuresBounded for one entry; finiteness makes its Cardinality meaningful.
Bounded(n) == IsFiniteSet(Measured(n)) /\ Cardinality(Measured(n)) <= MaxVars

AllBounded == \A i \in Slots : Bounded(g_nodes[i])

LEMMA SameVarsBounded ==
  ASSUME NEW m, NEW n, m.vars = n.vars, Bounded(n)
  PROVE  Bounded(m)
BY DEF Bounded, Measured

LEMMA EmptyBounded ==
  ASSUME NEW n, n.vars = [v \in VarNames |-> NoValue]
  PROVE  Bounded(n)
<1>1. Measured(n) = {}
  BY DEF Measured
<1>2. IsFiniteSet({}) /\ Cardinality({}) = 0
  BY FS_EmptySet
<1>3. 0 <= MaxVars
  BY ServerAssumption
<1> QED BY <1>1, <1>2, <1>3 DEF Bounded

\* The fields that are not measures can be written freely.
LEMMA OtherFieldsKeepVars ==
  ASSUME NEW n \in NodeEntry, NEW x
  PROVE  /\ [n EXCEPT !.lost = x].vars = n.vars /\ [n EXCEPT !.last_seq = x].vars = n.vars
         /\ [n EXCEPT !.received = x].vars = n.vars /\ [n EXCEPT !.alerts = x].vars = n.vars
         /\ Alive(n).vars = n.vars /\ Marked(n).vars = n.vars /\ Enrolled(n).vars = n.vars
BY DEF NodeEntry, Alive, Marked, Enrolled

\* state_set_measure adds at most one variable, and none to a full entry.
LEMMA SetMeasureBounded ==
  ASSUME NEW n \in NodeEntry, NEW var \in VarNames, NEW value \in Int, Bounded(n)
  PROVE  Bounded(SetMeasure(n, var, value))
<1> DEFINE m == [n EXCEPT !.vars[var] = value]
           S == Measured(n)
<1>1. CASE SetMeasure(n, var, value) = n
  BY <1>1
<1>2. CASE /\ SetMeasure(n, var, value) = m
           /\ var \in S \/ Cardinality(S) < MaxVars
  <2>1. Measured(m) \subseteq S \cup {var}
    BY DEF Measured, NodeEntry
  <2>2. IsFiniteSet(S) /\ Cardinality(S) <= MaxVars
    BY DEF Bounded
  <2> HIDE DEF S, m
  <2>3. Cardinality(S) \in Nat /\ MaxVars \in Nat
    BY <2>2, FS_CardinalityType, ServerAssumption
  <2>4. /\ IsFiniteSet(S \cup {var})
        /\ Cardinality(S \cup {var}) = IF var \in S THEN Cardinality(S) ELSE Cardinality(S) + 1
    BY <2>2, FS_AddElement
  <2>5. Cardinality(S \cup {var}) \in Nat /\ Cardinality(S \cup {var}) <= MaxVars
    BY <1>2, <2>2, <2>3, <2>4
  <2>6. IsFiniteSet(Measured(m)) /\ Cardinality(Measured(m)) <= Cardinality(S \cup {var})
    BY <2>1, <2>4, FS_Subset
  <2>7. Cardinality(Measured(m)) \in Nat
    BY <2>6, FS_CardinalityType
  <2>8. Cardinality(Measured(m)) <= MaxVars
    BY <2>3, <2>5, <2>6, <2>7
  <2> QED BY <1>2, <2>6, <2>8 DEF Bounded
<1> QED BY <1>1, <1>2 DEF SetMeasure

LEMMA ReportedBounded ==
  ASSUME NEW n \in NodeEntry, now \in Nat, Bounded(n),
         NEW seq \in Nat, NEW var \in VarNames, NEW value \in Int
  PROVE  Bounded(Reported(n, seq, var, value))
<1> DEFINE a == Alive(n)
           b == [a EXCEPT !.lost = a.lost + Gap(n.last_seq, seq)]
           c == [b EXCEPT !.last_seq = NextLastSeq(a.last_seq, seq)]
           d == [c EXCEPT !.received = a.received + 1]
<1>1. a \in NodeEntry /\ a.vars = n.vars
  BY DEF Alive, NodeEntry
<1> HIDE DEF a
<1>2. a.last_seq \in Nat /\ a.lost \in Nat /\ a.received \in Nat /\ n.last_seq \in Nat
  BY <1>1 DEF NodeEntry
<1>3. Gap(n.last_seq, seq) \in Nat /\ NextLastSeq(a.last_seq, seq) \in Nat
  BY <1>2, SeqRules
<1>4. a.lost + Gap(n.last_seq, seq) \in Nat /\ a.received + 1 \in Nat
  BY <1>2, <1>3
<1>5. b \in NodeEntry /\ b.vars = a.vars
  BY <1>1, <1>4, CountingKeepsFlags, OtherFieldsKeepVars
<1> HIDE DEF b
<1>6. c \in NodeEntry /\ c.vars = b.vars
  BY <1>3, <1>5, CountingKeepsFlags, OtherFieldsKeepVars
<1> HIDE DEF c
<1>7. d \in NodeEntry /\ d.vars = c.vars
  BY <1>4, <1>6, CountingKeepsFlags, OtherFieldsKeepVars
<1>8. Reported(n, seq, var, value) = SetMeasure(d, var, value)
  BY DEF Reported, a, b, c
<1> HIDE DEF d
<1>9. Bounded(d)
  BY <1>1, <1>5, <1>6, <1>7, SameVarsBounded
<1> QED BY <1>7, <1>8, <1>9, SetMeasureBounded

\* A table written at one place by a bounded entry.
LEMMA UpdateBounded ==
  ASSUME g_nodes \in [Slots -> NodeEntry], AllBounded, NEW i \in Slots,
         NEW m \in NodeEntry, Bounded(m)
  PROVE  LET tab == [g_nodes EXCEPT ![i] = m]
         IN tab \in [Slots -> NodeEntry] /\ \A j \in Slots : Bounded(tab[j])
<1> DEFINE tab == [g_nodes EXCEPT ![i] = m]
<1>1. tab \in [Slots -> NodeEntry] /\ \A j \in Slots : tab[j] = IF j = i THEN m ELSE g_nodes[j]
  OBVIOUS
<1> HIDE DEF tab
<1>2. \A j \in Slots : Bounded(tab[j])
  BY <1>1 DEF AllBounded
<1> QED BY <1>1, <1>2 DEF tab

\* An alert counted on an entry leaves its measures alone.
LEMMA AddAlertBounded ==
  ASSUME NEW tab \in [Slots -> NodeEntry], NEW id, NEW type, AddAlert(tab, id, type),
         \A j \in Slots : Bounded(tab[j])
  PROVE  AllBounded'
<1>1. \A j \in Slots : g_nodes'[j] = IF j \in FindNode(tab, id)
                                     THEN [tab[j] EXCEPT !.alerts = tab[j].alerts + 1] ELSE tab[j]
  BY DEF AddAlert
<1>2. ASSUME NEW j \in Slots PROVE g_nodes'[j].vars = tab[j].vars
  <2> DEFINE x == tab[j].alerts + 1
  <2>1. tab[j] \in NodeEntry
    OBVIOUS
  <2>2. g_nodes'[j] = [tab[j] EXCEPT !.alerts = x] \/ g_nodes'[j] = tab[j]
    BY <1>1
  <2> DEFINE t == tab[j]
  <2>3. [t EXCEPT !.alerts = x].vars = t.vars
    <3> HIDE DEF t, x
    <3> QED BY <2>1, OtherFieldsKeepVars DEF t
  <2> QED BY <2>2, <2>3
<1>3. \A j \in Slots : Bounded(g_nodes'[j])
  BY <1>2, SameVarsBounded
<1> QED BY <1>3 DEF AllBounded, Bounded, Measured

LEMMA InitBounded == Init => AllBounded
<1> SUFFICES ASSUME Init, NEW i \in Slots PROVE Bounded(g_nodes[i])
  BY DEF AllBounded
<1>1. g_nodes[i].vars = [v \in VarNames |-> NoValue]
  BY DEF Init, EmptyNode
<1> QED BY <1>1, EmptyBounded

LEMMA RegisterBounded ==
  ASSUME TypeOK, AllBounded, NEW id \in Ids, Register(id)
  PROVE  AllBounded'
<1>1. now \in Nat /\ g_nodes \in [Slots -> NodeEntry]
  BY DEF TypeOK
<1>2. CASE \E i \in FindNode(g_nodes, id) : g_nodes' = [g_nodes EXCEPT ![i] = Enrolled(@)]
  <2>1. PICK i \in FindNode(g_nodes, id) : g_nodes' = [g_nodes EXCEPT ![i] = Enrolled(g_nodes[i])]
    BY <1>2
  <2>2. i \in Slots /\ g_nodes[i] \in NodeEntry
    BY <1>1, FindNodeFacts
  <2>3. Enrolled(g_nodes[i]) \in NodeEntry /\ Enrolled(g_nodes[i]).vars = g_nodes[i].vars
    BY <1>1, <2>2, EnrolledTyped, OtherFieldsKeepVars
  <2>4. Bounded(Enrolled(g_nodes[i]))
    BY <2>2, <2>3, SameVarsBounded DEF AllBounded
  <2> QED BY <1>1, <2>1, <2>2, <2>3, <2>4, UpdateBounded DEF AllBounded, Bounded, Measured
<1>3. CASE \E i \in FreeSlot : g_nodes' = [g_nodes EXCEPT ![i] = Enlisted(id)]
  <2>1. PICK i \in Slots : g_nodes' = [g_nodes EXCEPT ![i] = Enlisted(id)]
    BY <1>3 DEF FreeSlot, First
  <2>2. Enlisted(id) \in NodeEntry
    BY <1>1, EnlistedTyped
  <2>3. Enlisted(id).vars = [v \in VarNames |-> NoValue]
    BY DEF Enlisted, Enrolled, Alive, EmptyNode
  <2>4. Bounded(Enlisted(id))
    BY <2>3, EmptyBounded
  <2> QED BY <1>1, <2>1, <2>2, <2>4, UpdateBounded DEF AllBounded, Bounded, Measured
<1> QED BY <1>2, <1>3 DEF Register

LEMMA ByeBounded ==
  ASSUME TypeOK, AllBounded, NEW id \in Ids, Bye(id)
  PROVE  AllBounded'
<1>1. g_nodes \in [Slots -> NodeEntry]
  BY DEF TypeOK
<1>2. PICK i \in FindNode(g_nodes, id) : g_nodes' = [g_nodes EXCEPT ![i] = Marked(g_nodes[i])]
  BY DEF Bye
<1>3. i \in Slots /\ g_nodes[i] \in NodeEntry
  BY <1>1, <1>2, FindNodeFacts
<1>4. Marked(g_nodes[i]) \in NodeEntry
  BY <1>3 DEF Marked, NodeEntry
<1>5. Bounded(Marked(g_nodes[i]))
  BY <1>3, OtherFieldsKeepVars, SameVarsBounded DEF AllBounded
<1> QED BY <1>1, <1>2, <1>3, <1>4, <1>5, UpdateBounded DEF AllBounded, Bounded, Measured

LEMMA TelemetryBounded ==
  ASSUME TypeOK, AllBounded, NEW id \in Ids, NEW seq \in Nat, NEW var \in VarNames,
         NEW value \in Int, Telemetry(id, seq, var, value)
  PROVE  AllBounded'
<1>1. now \in Nat /\ g_nodes \in [Slots -> NodeEntry]
  BY DEF TypeOK
<1> DEFINE m(i) == Reported(g_nodes[i], seq, var, value)
           tab(i) == [g_nodes EXCEPT ![i] = m(i)]
<1>2. PICK i \in FindNode(g_nodes, id) :
        g_nodes' = tab(i) \/ \E type \in AlertTypes(var, value) : AddAlert(tab(i), id, type)
  BY DEF Telemetry
<1>3. i \in Slots /\ g_nodes[i] \in NodeEntry /\ Bounded(g_nodes[i])
  BY <1>1, FindNodeFacts DEF AllBounded
<1>4. m(i) \in NodeEntry /\ Bounded(m(i))
  BY <1>1, <1>3, ReportedTyped, ReportedBounded
<1> HIDE DEF m
<1>5. tab(i) \in [Slots -> NodeEntry] /\ \A j \in Slots : Bounded(tab(i)[j])
  BY <1>1, <1>3, <1>4, UpdateBounded
<1> HIDE DEF tab
<1>6. CASE g_nodes' = tab(i)
  BY <1>5, <1>6 DEF AllBounded, Bounded, Measured
<1>7. CASE \E type \in AlertTypes(var, value) : AddAlert(tab(i), id, type)
  BY <1>5, <1>7, AddAlertBounded
<1> QED BY <1>2, <1>6, <1>7

LEMMA VisitBounded ==
  ASSUME IInv, AllBounded, WatchdogVisit
  PROVE  AllBounded'
<1>1. wdPos \in Slots /\ g_nodes \in [Slots -> NodeEntry]
  BY VisitCases DEF IInv, TypeOK
<1>2. g_nodes[wdPos] \in NodeEntry
  BY <1>1
<1>3. Marked(g_nodes[wdPos]) \in NodeEntry
  BY <1>2 DEF Marked, NodeEntry
<1>4. Bounded(Marked(g_nodes[wdPos]))
  BY <1>1, <1>2, OtherFieldsKeepVars, SameVarsBounded DEF AllBounded
<1>5. MarkedTable \in [Slots -> NodeEntry] /\ \A j \in Slots : Bounded(MarkedTable[j])
  BY <1>1, <1>3, <1>4, UpdateBounded DEF MarkedTable
<1>6. CASE UNCHANGED g_nodes
  BY <1>6 DEF AllBounded, Bounded, Measured
<1>7. CASE AddAlert(MarkedTable, g_nodes[wdPos].id, "NODE_INACTIVE")
  BY <1>5, <1>7, AddAlertBounded
<1> QED BY <1>6, <1>7, VisitCases

LEMMA NextBounded == IInv /\ AllBounded /\ [Next]_vars => AllBounded'
<1> SUFFICES ASSUME IInv, AllBounded, [Next]_vars PROVE AllBounded'
  OBVIOUS
<1>1. TypeOK
  BY DEF IInv
<1>2. ASSUME NEW id \in Ids, Register(id) PROVE AllBounded'
  BY <1>1, <1>2, RegisterBounded
<1>3. ASSUME NEW id \in Ids, Bye(id) PROVE AllBounded'
  BY <1>1, <1>3, ByeBounded
<1>4. ASSUME NEW id \in Ids, NEW seq \in 0 .. MaxSeq, NEW r \in Readings,
             Telemetry(id, seq, r[1], r[2])
      PROVE  AllBounded'
  <2>1. seq \in Nat /\ r[1] \in VarNames /\ r[2] \in Int
    BY ServerAssumption
  <2> QED BY <1>1, <1>4, <2>1, TelemetryBounded
<1>5. ASSUME WatchdogVisit PROVE AllBounded'
  BY <1>5, VisitBounded
<1>6. ASSUME UNCHANGED g_nodes PROVE AllBounded'
  BY <1>6 DEF AllBounded, Bounded, Measured
<1> QED BY <1>2, <1>3, <1>4, <1>5, <1>6
        DEF Next, Watchdog, TelemetryRejected, TelemetryInvalid, WatchdogWake, WatchdogLock,
            WatchdogUnlock, Tick, vars

\* state_set_measure never writes past the MAX_VARS measures of an entry, whatever the
\* nodes send, forget to register or send again.
THEOREM MeasuresFit == Spec => []MeasuresBounded
<1>1. AllBounded => MeasuresBounded
  BY DEF AllBounded, Bounded, MeasuresBounded
<1> QED BY <1>1, InitBounded, NextBounded, Invariance, PTL DEF Spec

----------------------------------------------------------------------------
(* The counters of the entries and the totals. *)

\* f counts finitely many units, t in all.
Counted(f, t) == IsFiniteSet(Units(f)) /\ Total(f) = t

\* CountersAgree, with what it needs to be kept: an entry that REGISTER may
\* overwrite has counted nothing.
CountInv ==
  /\ Counted(ReceivedPer(g_nodes), udp_received)
  /\ Counted(LostPer(g_nodes), udp_lost)
  /\ Counted(RaisedPer(g_nodes), alerts_total)
  /\ \A i \in Slots :
       ~g_nodes[i].used =>
         g_nodes[i].received = 0 /\ g_nodes[i].lost = 0 /\ g_nodes[i].alerts = 0

\* What a unit is.
LEMMA UnitsAre ==
  ASSUME NEW f \in [Slots -> Nat]
  PROVE  \A u : u \in Units(f) <=> \E j \in Slots : \E k \in 1 .. f[j] : u = <<j, k>>
<1>1. DOMAIN f = Slots
  OBVIOUS
<1>2. \A u, j : u \in {j} \X (1 .. f[j]) <=> \E k \in 1 .. f[j] : u = <<j, k>>
  OBVIOUS
<1> QED BY <1>1, <1>2 DEF Units

\* Adding d to one count adds d to the total.
LEMMA OneCountGrows ==
  ASSUME NEW f \in [Slots -> Nat], NEW g \in [Slots -> Nat], NEW t, Counted(f, t),
         NEW i \in Slots, NEW d \in Nat,
         \A j \in Slots : g[j] = IF j = i THEN f[j] + d ELSE f[j]
  PROVE  Counted(g, t + d)
<1> DEFINE K == f[i] + 1 .. f[i] + d
           new == {i} \X K
<1>1. f[i] \in Nat /\ f[i] + 1 \in Int /\ f[i] + d \in Int
  OBVIOUS
<1>2. \A u : u \in new <=> \E k \in K : u = <<i, k>>
  OBVIOUS
<1>3. \A k : k \in 1 .. g[i] <=> k \in 1 .. f[i] \/ k \in K
  BY <1>1
<1>4. \A k : ~(k \in 1 .. f[i] /\ k \in K)
  BY <1>1
<1>5. IsFiniteSet(K) /\ Cardinality(K) = d
  <2> DEFINE lo == f[i] + 1
             hi == f[i] + d
  <2>1. lo \in Int /\ hi \in Int
    BY <1>1
  <2>2. (IF lo > hi THEN 0 ELSE hi - lo + 1) = d
    BY <1>1
  <2> HIDE DEF lo, hi
  <2>3. IsFiniteSet(lo .. hi) /\ Cardinality(lo .. hi) = IF lo > hi THEN 0 ELSE hi - lo + 1
    BY <2>1, FS_Interval
  <2> QED BY <2>2, <2>3 DEF lo, hi
<1>6. \A j \in Slots : j # i => g[j] = f[j]
  OBVIOUS
<1> HIDE DEF K
<1>7. Units(g) = Units(f) \cup new
  <2>1. ASSUME NEW u \in Units(g) PROVE u \in Units(f) \cup new
    <3>1. PICK j \in Slots : \E k \in 1 .. g[j] : u = <<j, k>>
      BY UnitsAre
    <3>2. CASE j = i
      BY <1>2, <1>3, <3>1, <3>2, UnitsAre
    <3>3. CASE j # i
      BY <1>6, <3>1, <3>3, UnitsAre
    <3> QED BY <3>2, <3>3
  <2>2. ASSUME NEW u \in Units(f) PROVE u \in Units(g)
    <3>1. PICK j \in Slots : \E k \in 1 .. f[j] : u = <<j, k>>
      BY UnitsAre
    <3>2. PICK k \in 1 .. f[j] : u = <<j, k>>
      BY <3>1
    <3>3. k \in 1 .. g[j]
      BY <1>3, <1>6
    <3> QED BY <3>2, <3>3, UnitsAre
  <2>3. ASSUME NEW u \in new PROVE u \in Units(g)
    BY <1>2, <1>3, UnitsAre
  <2> QED BY <2>1, <2>2, <2>3
<1>8. Units(f) \cap new = {}
  <2>1. ASSUME NEW u \in Units(f), u \in new PROVE FALSE
    <3>1. PICK j \in Slots : \E k \in 1 .. f[j] : u = <<j, k>>
      BY UnitsAre
    <3>2. PICK k \in 1 .. f[j] : u = <<j, k>>
      BY <3>1
    <3>3. PICK m \in K : u = <<i, m>>
      BY <1>2, <2>1
    <3>4. j = i /\ k = m
      BY <3>2, <3>3
    <3> QED BY <1>4, <3>4
  <2> QED BY <2>1
<1>9. IsFiniteSet({i}) /\ Cardinality({i}) = 1
  BY FS_Singleton
<1>10. IsFiniteSet(new) /\ Cardinality(new) = Cardinality({i}) * Cardinality(K)
  BY <1>5, <1>9, FS_Product
<1> HIDE DEF new
<1>11. Cardinality(new) = d
  BY <1>5, <1>9, <1>10
<1>12. IsFiniteSet(Units(f)) /\ Cardinality(Units(f)) = t
  BY DEF Counted, Total
<1>13. /\ IsFiniteSet(Units(f) \cup new)
       /\ Cardinality(Units(f) \cup new) =
            Cardinality(Units(f)) + Cardinality(new) - Cardinality(Units(f) \cap new)
  BY <1>10, <1>12, FS_Union
<1>14. t \in Nat /\ Cardinality(Units(f) \cap new) = 0
  BY <1>8, <1>12, FS_CardinalityType, FS_EmptySet
<1>15. Cardinality(Units(g)) = t + d
  BY <1>7, <1>11, <1>12, <1>13, <1>14
<1> QED BY <1>7, <1>13, <1>15 DEF Counted, Total

\* The columns of a table of entries.
LEMMA ColumnsTyped ==
  ASSUME NEW tab \in [Slots -> NodeEntry]
  PROVE  /\ ReceivedPer(tab) \in [Slots -> Nat] /\ LostPer(tab) \in [Slots -> Nat]
         /\ RaisedPer(tab) \in [Slots -> Nat]
         /\ \A j \in Slots : /\ ReceivedPer(tab)[j] = tab[j].received
                             /\ LostPer(tab)[j] = tab[j].lost
                             /\ RaisedPer(tab)[j] = tab[j].alerts
<1>1. \A j \in Slots : tab[j].received \in Nat /\ tab[j].lost \in Nat /\ tab[j].alerts \in Nat
  BY DEF NodeEntry
<1> QED BY <1>1 DEF ReceivedPer, LostPer, RaisedPer

LEMMA InitCounted == Init => CountInv
<1> SUFFICES ASSUME Init PROVE CountInv
  OBVIOUS
<1>1. \A i \in Slots : /\ g_nodes[i].received = 0 /\ g_nodes[i].lost = 0
                       /\ g_nodes[i].alerts = 0
  BY DEF Init, EmptyNode
<1>2. g_nodes \in [Slots -> NodeEntry]
  BY InitIInv DEF IInv, TypeOK
<1>3. ASSUME NEW f \in [Slots -> Nat], \A i \in Slots : f[i] = 0 PROVE Counted(f, 0)
  <2>1. Units(f) = {}
    BY <1>3, UnitsAre
  <2> QED BY <2>1, FS_EmptySet DEF Counted, Total
<1>4. /\ Counted(ReceivedPer(g_nodes), 0) /\ Counted(LostPer(g_nodes), 0)
      /\ Counted(RaisedPer(g_nodes), 0)
  BY <1>1, <1>2, <1>3, ColumnsTyped
<1> QED BY <1>1, <1>4 DEF Init, CountInv

\* A step that counts r datagrams, l losses and a alerts on entry i and in the totals.
LEMMA CountStep ==
  ASSUME CountInv, g_nodes \in [Slots -> NodeEntry], g_nodes' \in [Slots -> NodeEntry],
         NEW i \in Slots, NEW r \in Nat, NEW l \in Nat, NEW a \in Nat,
         g_nodes'[i].used, \A j \in Slots : g_nodes[j].used => g_nodes'[j].used,
         \A j \in Slots :
           /\ g_nodes'[j].received = IF j = i THEN g_nodes[j].received + r ELSE g_nodes[j].received
           /\ g_nodes'[j].lost = IF j = i THEN g_nodes[j].lost + l ELSE g_nodes[j].lost
           /\ g_nodes'[j].alerts = IF j = i THEN g_nodes[j].alerts + a ELSE g_nodes[j].alerts,
         udp_received' = udp_received + r, udp_lost' = udp_lost + l,
         alerts_total' = alerts_total + a
  PROVE  CountInv'
<1>1. /\ ReceivedPer(g_nodes) \in [Slots -> Nat] /\ ReceivedPer(g_nodes') \in [Slots -> Nat]
      /\ \A j \in Slots : ReceivedPer(g_nodes')[j] =
           IF j = i THEN ReceivedPer(g_nodes)[j] + r ELSE ReceivedPer(g_nodes)[j]
  BY ColumnsTyped
<1>2. /\ LostPer(g_nodes) \in [Slots -> Nat] /\ LostPer(g_nodes') \in [Slots -> Nat]
      /\ \A j \in Slots : LostPer(g_nodes')[j] =
           IF j = i THEN LostPer(g_nodes)[j] + l ELSE LostPer(g_nodes)[j]
  BY ColumnsTyped
<1>3. /\ RaisedPer(g_nodes) \in [Slots -> Nat] /\ RaisedPer(g_nodes') \in [Slots -> Nat]
      /\ \A j \in Slots : RaisedPer(g_nodes')[j] =
           IF j = i THEN RaisedPer(g_nodes)[j] + a ELSE RaisedPer(g_nodes)[j]
  BY ColumnsTyped
<1>4. Counted(ReceivedPer(g_nodes'), udp_received')
  BY <1>1, OneCountGrows DEF CountInv
<1>5. Counted(LostPer(g_nodes'), udp_lost')
  BY <1>2, OneCountGrows DEF CountInv
<1>6. Counted(RaisedPer(g_nodes'), alerts_total')
  BY <1>3, OneCountGrows DEF CountInv
<1>7. \A j \in Slots :
        ~g_nodes'[j].used =>
          g_nodes'[j].received = 0 /\ g_nodes'[j].lost = 0 /\ g_nodes'[j].alerts = 0
  BY DEF CountInv
<1> QED BY <1>4, <1>5, <1>6, <1>7
        DEF CountInv, Counted, Total, Units, ReceivedPer, LostPer, RaisedPer

\* Two entries that have counted the same.
SameCounters(m, n) == m.received = n.received /\ m.lost = n.lost /\ m.alerts = n.alerts

LEMMA FlagsKeepCounters ==
  ASSUME NEW n \in NodeEntry
  PROVE  /\ SameCounters(Alive(n), n) /\ SameCounters(Enrolled(n), n)
         /\ SameCounters(Marked(n), n) /\ Marked(n).used = n.used
BY DEF SameCounters, Alive, Enrolled, Marked, NodeEntry

\* A datagram counts itself and the gap before it.
LEMMA ReportedCounts ==
  ASSUME NEW n \in NodeEntry, NEW seq \in Nat, NEW var \in VarNames, NEW value \in Int,
         now \in Nat
  PROVE  LET m == Reported(n, seq, var, value)
         IN  /\ m.received = n.received + 1 /\ m.lost = n.lost + Gap(n.last_seq, seq)
             /\ m.alerts = n.alerts /\ m.used = n.used
<1> DEFINE a == Alive(n)
           l == a.lost + Gap(n.last_seq, seq)
           b == [a EXCEPT !.lost = l]
           c == [b EXCEPT !.last_seq = NextLastSeq(a.last_seq, seq)]
           d == [c EXCEPT !.received = a.received + 1]
<1>1. a \in NodeEntry /\ SameCounters(a, n) /\ a.used = n.used
  BY FlagsKeepCounters, AliveFlags DEF Alive, NodeEntry
<1> HIDE DEF a
<1>2. a.last_seq \in Nat /\ a.lost \in Nat /\ a.received \in Nat /\ n.last_seq \in Nat
  BY <1>1 DEF NodeEntry
<1>3. l \in Nat /\ NextLastSeq(a.last_seq, seq) \in Nat /\ a.received + 1 \in Nat
  <2>1. Gap(n.last_seq, seq) \in Nat /\ NextLastSeq(a.last_seq, seq) \in Nat
    BY <1>2, SeqRules
  <2> QED BY <1>2, <2>1
<1> HIDE DEF l
<1>4. b \in NodeEntry /\ b.lost = l /\ b.received = a.received /\ b.alerts = a.alerts
      /\ b.used = a.used
  BY <1>1, <1>3 DEF NodeEntry
<1> HIDE DEF b
<1>5. c \in NodeEntry /\ SameCounters(c, b) /\ c.used = b.used
  BY <1>3, <1>4 DEF NodeEntry, SameCounters
<1> HIDE DEF c
<1>6. d \in NodeEntry /\ d.lost = c.lost /\ d.alerts = c.alerts /\ d.used = c.used
      /\ d.received = a.received + 1
  BY <1>3, <1>5 DEF NodeEntry
<1>7. Reported(n, seq, var, value) = SetMeasure(d, var, value)
  BY DEF Reported, a, b, c, l
<1> HIDE DEF d
<1>8. SameCounters(SetMeasure(d, var, value), d) /\ SetMeasure(d, var, value).used = d.used
  BY <1>6 DEF SetMeasure, SameCounters, NodeEntry
<1> QED BY <1>1, <1>4, <1>5, <1>6, <1>7, <1>8 DEF SameCounters, l

\* state_add_alert counts one alert on the entry its lookup finds.
LEMMA AddAlertCounts ==
  ASSUME TypeOK, NEW tab \in [Slots -> NodeEntry], NEW id \in Ids, NEW type \in Types,
         AddAlert(tab, id, type), NEW i \in Slots, FindNode(tab, id) = {i}
  PROVE  /\ g_nodes' \in [Slots -> NodeEntry] /\ alerts_total' = alerts_total + 1
         /\ \A j \in Slots :
              /\ g_nodes'[j].used = tab[j].used
              /\ g_nodes'[j].received = tab[j].received /\ g_nodes'[j].lost = tab[j].lost
              /\ g_nodes'[j].alerts = IF j = i THEN tab[j].alerts + 1 ELSE tab[j].alerts
<1>1. g_nodes' \in [Slots -> NodeEntry] /\ alerts_total' = alerts_total + 1
  BY AddAlertFacts
<1>2. \A j \in Slots : g_nodes'[j] = IF j = i THEN [tab[j] EXCEPT !.alerts = tab[j].alerts + 1]
                                              ELSE tab[j]
  BY DEF AddAlert
<1>3. ASSUME NEW n \in NodeEntry, NEW x \in Nat
      PROVE  LET m == [n EXCEPT !.alerts = x]
             IN m.used = n.used /\ m.received = n.received /\ m.lost = n.lost /\ m.alerts = x
  BY DEF NodeEntry
<1>4. \A j \in Slots : tab[j] \in NodeEntry /\ tab[j].alerts + 1 \in Nat
  BY DEF NodeEntry
<1>5. ASSUME NEW j \in Slots
      PROVE  /\ g_nodes'[j].used = tab[j].used
             /\ g_nodes'[j].received = tab[j].received /\ g_nodes'[j].lost = tab[j].lost
             /\ g_nodes'[j].alerts = IF j = i THEN tab[j].alerts + 1 ELSE tab[j].alerts
  <2> DEFINE n == tab[j]
             x == n.alerts + 1
             m == [n EXCEPT !.alerts = x]
  <2>1. n \in NodeEntry /\ x \in Nat
    BY <1>4
  <2>2. g_nodes'[j] = IF j = i THEN m ELSE n
    BY <1>2
  <2>3. m.used = n.used /\ m.received = n.received /\ m.lost = n.lost /\ m.alerts = x
    <3> HIDE DEF n, x
    <3> QED BY <1>3, <2>1
  <2> HIDE DEF m
  <2> QED BY <2>2, <2>3
<1> QED BY <1>1, <1>5

LEMMA RegisterCounts ==
  ASSUME IInv, CountInv, NEW id \in Ids, Register(id)
  PROVE  CountInv'
<1>1. /\ g_nodes \in [Slots -> NodeEntry] /\ g_nodes' \in [Slots -> NodeEntry] /\ now \in Nat
      /\ udp_received \in Nat /\ udp_lost \in Nat /\ alerts_total \in Nat
  BY RegisterInv DEF IInv, TypeOK
<1>2. udp_received' = udp_received + 0 /\ udp_lost' = udp_lost + 0 /\ alerts_total' = alerts_total + 0
  BY <1>1 DEF Register, alertVars, udpVars
<1>3. \A j \in Slots : /\ g_nodes[j].received \in Nat /\ g_nodes[j].lost \in Nat
                       /\ g_nodes[j].alerts \in Nat
  BY <1>1 DEF NodeEntry
<1>4. PICK i \in Slots : /\ \A j \in Slots : j # i => g_nodes'[j] = g_nodes[j]
                         /\ SameCounters(g_nodes'[i], g_nodes[i]) /\ g_nodes'[i].used
  <2>1. CASE \E i \in FindNode(g_nodes, id) : g_nodes' = [g_nodes EXCEPT ![i] = Enrolled(@)]
    <3>1. PICK i \in FindNode(g_nodes, id) : g_nodes' = [g_nodes EXCEPT ![i] = Enrolled(g_nodes[i])]
      BY <2>1
    <3>2. i \in Slots /\ g_nodes[i].used
      BY FindNodeFacts
    <3>3. g_nodes'[i] = Enrolled(g_nodes[i]) /\ \A j \in Slots : j # i => g_nodes'[j] = g_nodes[j]
      BY <1>1, <3>1, <3>2
    <3>4. SameCounters(Enrolled(g_nodes[i]), g_nodes[i]) /\ Enrolled(g_nodes[i]).used
      BY <1>1, <3>2, FlagsKeepCounters, EnrolledTyped
    <3> QED BY <3>2, <3>3, <3>4
  <2>2. CASE \E i \in FreeSlot : g_nodes' = [g_nodes EXCEPT ![i] = Enlisted(id)]
    <3>1. PICK i \in Slots : ~g_nodes[i].used /\ g_nodes' = [g_nodes EXCEPT ![i] = Enlisted(id)]
      BY <2>2 DEF FreeSlot, First
    <3>2. g_nodes'[i] = Enlisted(id) /\ \A j \in Slots : j # i => g_nodes'[j] = g_nodes[j]
      BY <1>1, <3>1
    <3>3. Enlisted(id).received = 0 /\ Enlisted(id).lost = 0 /\ Enlisted(id).alerts = 0
      BY DEF Enlisted, Enrolled, Alive, EmptyNode
    <3>4. SameCounters(Enlisted(id), g_nodes[i]) /\ Enlisted(id).used
      BY <1>1, <3>1, <3>3, EnlistedTyped DEF SameCounters, CountInv
    <3> QED BY <3>2, <3>4
  <2> QED BY <2>1, <2>2 DEF Register
<1>5. \A j \in Slots : /\ g_nodes'[j].received = IF j = i THEN g_nodes[j].received + 0 ELSE g_nodes[j].received
                       /\ g_nodes'[j].lost = IF j = i THEN g_nodes[j].lost + 0 ELSE g_nodes[j].lost
                       /\ g_nodes'[j].alerts = IF j = i THEN g_nodes[j].alerts + 0 ELSE g_nodes[j].alerts
  BY <1>3, <1>4 DEF SameCounters
<1>6. \A j \in Slots : g_nodes[j].used => g_nodes'[j].used
  BY <1>4
<1> QED BY <1>1, <1>2, <1>4, <1>5, <1>6, CountStep

LEMMA ByeCounts ==
  ASSUME IInv, CountInv, NEW id \in Ids, Bye(id)
  PROVE  CountInv'
<1>1. /\ g_nodes \in [Slots -> NodeEntry] /\ g_nodes' \in [Slots -> NodeEntry]
      /\ udp_received \in Nat /\ udp_lost \in Nat /\ alerts_total \in Nat
  BY ByeInv DEF IInv, TypeOK
<1>2. udp_received' = udp_received + 0 /\ udp_lost' = udp_lost + 0 /\ alerts_total' = alerts_total + 0
  BY <1>1 DEF Bye, alertVars, udpVars
<1>3. \A j \in Slots : /\ g_nodes[j].received \in Nat /\ g_nodes[j].lost \in Nat
                       /\ g_nodes[j].alerts \in Nat
  BY <1>1 DEF NodeEntry
<1>4. PICK i \in FindNode(g_nodes, id) : g_nodes' = [g_nodes EXCEPT ![i] = Marked(g_nodes[i])]
  BY DEF Bye
<1>5. i \in Slots /\ g_nodes[i].used
  BY FindNodeFacts
<1>6. g_nodes'[i] = Marked(g_nodes[i]) /\ \A j \in Slots : j # i => g_nodes'[j] = g_nodes[j]
  BY <1>1, <1>4, <1>5
<1>7. SameCounters(Marked(g_nodes[i]), g_nodes[i]) /\ Marked(g_nodes[i]).used
  BY <1>1, <1>5, FlagsKeepCounters
<1>8. \A j \in Slots : /\ g_nodes'[j].received = IF j = i THEN g_nodes[j].received + 0 ELSE g_nodes[j].received
                       /\ g_nodes'[j].lost = IF j = i THEN g_nodes[j].lost + 0 ELSE g_nodes[j].lost
                       /\ g_nodes'[j].alerts = IF j = i THEN g_nodes[j].alerts + 0 ELSE g_nodes[j].alerts
  BY <1>3, <1>6, <1>7 DEF SameCounters
<1>9. g_nodes'[i].used /\ \A j \in Slots : g_nodes[j].used => g_nodes'[j].used
  BY <1>6, <1>7
<1> QED BY <1>1, <1>2, <1>5, <1>8, <1>9, CountStep

\* The second lookup of the node, in state_add_alert, finds the entry the first one found.
LEMMA SecondLookup ==
  ASSUME IInv, NEW i \in Slots, g_nodes[i].used, NEW tab,
         \A j \in Slots : tab[j].used = g_nodes[j].used /\ tab[j].id = g_nodes[j].id
  PROVE  FindNode(tab, g_nodes[i].id) = {i} /\ g_nodes[i].id \in Ids
<1>1. \A j \in Slots : tab[j].used /\ tab[j].id = tab[i].id => j = i
  BY DEF IInv, TableConsistent
<1> QED BY <1>1, FindNodeHit DEF IInv, TableConsistent

LEMMA TelemetryCounts ==
  ASSUME IInv, CountInv, NEW id \in Ids, NEW seq \in Nat, NEW var \in VarNames,
         NEW value \in Int, Telemetry(id, seq, var, value)
  PROVE  CountInv'
<1>1. /\ g_nodes \in [Slots -> NodeEntry] /\ g_nodes' \in [Slots -> NodeEntry] /\ now \in Nat
      /\ udp_received \in Nat /\ udp_lost \in Nat /\ alerts_total \in Nat /\ TypeOK
  BY TelemetryInv DEF IInv, TypeOK
<1> DEFINE m(i) == Reported(g_nodes[i], seq, var, value)
           tab(i) == [g_nodes EXCEPT ![i] = m(i)]
           gap(i) == Gap(g_nodes[i].last_seq, seq)
<1>2. PICK i \in FindNode(g_nodes, id) :
        /\ udp_lost' = udp_lost + gap(i)
        /\ \/ g_nodes' = tab(i) /\ UNCHANGED alertVars
           \/ \E type \in AlertTypes(var, value) : AddAlert(tab(i), id, type)
  BY DEF Telemetry
<1>3. i \in Slots /\ g_nodes[i].used /\ g_nodes[i].id = id
  BY FindNodeFacts
<1>4. g_nodes[i] \in NodeEntry /\ g_nodes[i].last_seq \in Nat /\ gap(i) \in Nat
  BY <1>1, <1>3, SeqRules DEF NodeEntry
<1>5. /\ m(i).received = g_nodes[i].received + 1 /\ m(i).lost = g_nodes[i].lost + gap(i)
      /\ m(i).alerts = g_nodes[i].alerts /\ m(i).used = g_nodes[i].used
  BY <1>1, <1>4, ReportedCounts
<1>6. m(i) \in NodeEntry /\ m(i).id = g_nodes[i].id
  <2>1. m(i) \in NodeEntry /\ SameKeyAndFlags(m(i), Alive(g_nodes[i]))
    BY <1>1, <1>4, ReportedTyped
  <2> HIDE DEF m
  <2> QED BY <1>4, <2>1, AliveFlags DEF SameKeyAndFlags
<1> HIDE DEF m
<1>7. tab(i) \in [Slots -> NodeEntry] /\ \A j \in Slots : tab(i)[j] = IF j = i THEN m(i) ELSE g_nodes[j]
  BY <1>1, <1>3, <1>6
<1> HIDE DEF tab, gap
<1>8. udp_received' = udp_received + 1
  BY DEF Telemetry
<1>9. CASE g_nodes' = tab(i) /\ UNCHANGED alertVars
  <2>1. \A j \in Slots : g_nodes[j].alerts \in Nat
    BY <1>1 DEF NodeEntry
  <2>2. \A j \in Slots :
          /\ g_nodes'[j].received = IF j = i THEN g_nodes[j].received + 1 ELSE g_nodes[j].received
          /\ g_nodes'[j].lost = IF j = i THEN g_nodes[j].lost + gap(i) ELSE g_nodes[j].lost
          /\ g_nodes'[j].alerts = IF j = i THEN g_nodes[j].alerts + 0 ELSE g_nodes[j].alerts
    BY <1>5, <1>7, <1>9, <2>1
  <2>3. alerts_total' = alerts_total + 0
    BY <1>1, <1>9 DEF alertVars
  <2>4. g_nodes'[i].used /\ \A j \in Slots : g_nodes[j].used => g_nodes'[j].used
    BY <1>3, <1>5, <1>7, <1>9
  <2> QED BY <1>1, <1>2, <1>3, <1>4, <1>8, <2>2, <2>3, <2>4, CountStep
<1>10. CASE \E type \in AlertTypes(var, value) : AddAlert(tab(i), id, type)
  <2>1. PICK type \in AlertTypes(var, value) : AddAlert(tab(i), id, type)
    BY <1>10
  <2>2. type \in Types
    BY AlertTypesTyped
  <2>3. \A j \in Slots : tab(i)[j].used = g_nodes[j].used /\ tab(i)[j].id = g_nodes[j].id
    BY <1>5, <1>6, <1>7
  <2>4. FindNode(tab(i), id) = {i}
    BY <1>3, <2>3, SecondLookup
  <2>5. /\ alerts_total' = alerts_total + 1
        /\ \A j \in Slots :
             /\ g_nodes'[j].used = tab(i)[j].used
             /\ g_nodes'[j].received = tab(i)[j].received /\ g_nodes'[j].lost = tab(i)[j].lost
             /\ g_nodes'[j].alerts = IF j = i THEN tab(i)[j].alerts + 1 ELSE tab(i)[j].alerts
    BY <1>1, <1>3, <1>7, <2>1, <2>2, <2>4, AddAlertCounts
  <2>6. \A j \in Slots :
          /\ g_nodes'[j].received = IF j = i THEN g_nodes[j].received + 1 ELSE g_nodes[j].received
          /\ g_nodes'[j].lost = IF j = i THEN g_nodes[j].lost + gap(i) ELSE g_nodes[j].lost
          /\ g_nodes'[j].alerts = IF j = i THEN g_nodes[j].alerts + 1 ELSE g_nodes[j].alerts
    BY <1>5, <1>7, <2>5
  <2>7. g_nodes'[i].used /\ \A j \in Slots : g_nodes[j].used => g_nodes'[j].used
    BY <1>3, <2>3, <2>5
  <2> QED BY <1>1, <1>2, <1>3, <1>4, <1>8, <2>5, <2>6, <2>7, CountStep
<1> QED BY <1>2, <1>9, <1>10

LEMMA VisitCounts ==
  ASSUME IInv, CountInv, WatchdogVisit
  PROVE  CountInv'
<1>1. /\ g_nodes \in [Slots -> NodeEntry] /\ g_nodes' \in [Slots -> NodeEntry] /\ TypeOK
      /\ udp_received \in Nat /\ udp_lost \in Nat /\ wdPos \in Slots
  BY VisitInv, VisitCases DEF IInv, TypeOK
<1>2. udp_received' = udp_received + 0 /\ udp_lost' = udp_lost + 0
  BY <1>1 DEF WatchdogVisit, udpVars
<1>3. CASE UNCHANGED <<g_nodes, alertVars>>
  BY <1>1, <1>2, <1>3
     DEF CountInv, Counted, Total, Units, ReceivedPer, LostPer, RaisedPer, alertVars
<1>4. CASE /\ TimedOut(g_nodes[wdPos])
           /\ AddAlert(MarkedTable, g_nodes[wdPos].id, "NODE_INACTIVE")
  <2> DEFINE n == g_nodes[wdPos]
  <2>1. n \in NodeEntry /\ n.used /\ "NODE_INACTIVE" \in Types
    BY <1>1, <1>4 DEF TimedOut, Types
  <2>2. MarkedTable \in [Slots -> NodeEntry]
        /\ \A j \in Slots : /\ MarkedTable[j].used = g_nodes[j].used
                             /\ MarkedTable[j].id = g_nodes[j].id
    BY VisitCases DEF TableOK
  <2>3. \A j \in Slots : SameCounters(MarkedTable[j], g_nodes[j])
    <3>1. \A j \in Slots : MarkedTable[j] = IF j = wdPos THEN Marked(n) ELSE g_nodes[j]
      BY <1>1 DEF MarkedTable
    <3>2. SameCounters(Marked(n), n)
      BY <2>1, FlagsKeepCounters
    <3> QED BY <3>1, <3>2 DEF SameCounters
  <2>4. FindNode(MarkedTable, n.id) = {wdPos} /\ n.id \in Ids
    BY <1>1, <2>1, <2>2, SecondLookup
  <2>5. /\ alerts_total' = alerts_total + 1
        /\ \A j \in Slots :
             /\ g_nodes'[j].used = MarkedTable[j].used
             /\ g_nodes'[j].received = MarkedTable[j].received
             /\ g_nodes'[j].lost = MarkedTable[j].lost
             /\ g_nodes'[j].alerts = IF j = wdPos THEN MarkedTable[j].alerts + 1
                                                 ELSE MarkedTable[j].alerts
    BY <1>1, <1>4, <2>1, <2>2, <2>4, AddAlertCounts
  <2>6. \A j \in Slots : g_nodes[j].received \in Nat /\ g_nodes[j].lost \in Nat
    BY <1>1 DEF NodeEntry
  <2>7. \A j \in Slots :
          /\ g_nodes'[j].received = IF j = wdPos THEN g_nodes[j].received + 0 ELSE g_nodes[j].received
          /\ g_nodes'[j].lost = IF j = wdPos THEN g_nodes[j].lost + 0 ELSE g_nodes[j].lost
          /\ g_nodes'[j].alerts = IF j = wdPos THEN g_nodes[j].alerts + 1 ELSE g_nodes[j].alerts
    BY <2>3, <2>5, <2>6 DEF SameCounters
  <2>8. g_nodes'[wdPos].used /\ \A j \in Slots : g_nodes[j].used => g_nodes'[j].used
    BY <1>1, <2>1, <2>2, <2>5
  <2> QED BY <1>1, <1>2, <2>5, <2>7, <2>8, CountStep
<1> QED BY <1>3, <1>4, VisitCases

LEMMA NextCounted == IInv /\ CountInv /\ [Next]_vars => CountInv'
<1> SUFFICES ASSUME IInv, CountInv, [Next]_vars PROVE CountInv'
  OBVIOUS
<1>1. ASSUME NEW id \in Ids, Register(id) PROVE CountInv'
  BY <1>1, RegisterCounts
<1>2. ASSUME NEW id \in Ids, Bye(id) PROVE CountInv'
  BY <1>2, ByeCounts
<1>3. ASSUME NEW id \in Ids, NEW seq \in 0 .. MaxSeq, NEW r \in Readings,
             Telemetry(id, seq, r[1], r[2])
      PROVE  CountInv'
  <2>1. seq \in Nat /\ r[1] \in VarNames /\ r[2] \in Int
    BY ServerAssumption
  <2> QED BY <1>3, <2>1, TelemetryCounts
<1>4. ASSUME WatchdogVisit PROVE CountInv'
  BY <1>4, VisitCounts
<1>5. ASSUME UNCHANGED <<g_nodes, udp_received, udp_lost, alerts_total>> PROVE CountInv'
  BY <1>5 DEF CountInv, Counted, Total, Units, ReceivedPer, LostPer, RaisedPer
<1> QED BY <1>1, <1>2, <1>3, <1>4, <1>5
        DEF Next, Watchdog, TelemetryRejected, TelemetryInvalid, WatchdogWake, WatchdogLock,
            WatchdogUnlock, Tick, vars, alertVars, udpVars

\* Whatever order the handlers and the sweeps run in, and however many nodes there are,
\* LIST_NODES, GET_STATUS and SYSTEM_STATUS never contradict one another.
THEOREM CountersAlwaysAgree == Spec => []CountersAgree
<1>1. CountInv => CountersAgree
  BY DEF CountInv, Counted, CountersAgree
<1> QED BY <1>1, InitCounted, NextCounted, Invariance, PTL DEF Spec

----------------------------------------------------------------------------
(* Stored measures stay. *)

SameMeasures(m, n) == m.vars = n.vars /\ m.used = n.used /\ m.received = n.received

\* What a step may do to the measures: nothing, an entry is taken into use without any, or
\* one entry that is in use gets one.
Untouched == \A j \in Slots : /\ g_nodes'[j].vars = g_nodes[j].vars
                               /\ g_nodes'[j].used = g_nodes[j].used

EntryTaken ==
  \E i \in Slots :
    /\ ~g_nodes[i].used /\ g_nodes'[i].vars = [v \in VarNames |-> NoValue]
    /\ \A j \in Slots : j # i => /\ g_nodes'[j].vars = g_nodes[j].vars
                                 /\ g_nodes'[j].used = g_nodes[j].used

MeasureTaken ==
  \E i \in Slots, var \in VarNames, value \in Int :
    /\ g_nodes[i].used /\ g_nodes'[i].used
    /\ g_nodes'[i].received = g_nodes[i].received + 1
    /\ \/ g_nodes'[i].vars = g_nodes[i].vars
       \/ g_nodes'[i].vars = [g_nodes[i].vars EXCEPT ![var] = value]
    /\ \A j \in Slots : j # i => /\ g_nodes'[j].vars = g_nodes[j].vars
                                 /\ g_nodes'[j].used = g_nodes[j].used

LEMMA FlagsKeepMeasures ==
  ASSUME NEW n \in NodeEntry
  PROVE  /\ SameMeasures(Alive(n), n) /\ SameMeasures(Enrolled(n), n) /\ SameMeasures(Marked(n), n)
         /\ Alive(n).received = n.received
BY DEF SameMeasures, Alive, Enrolled, Marked, NodeEntry

LEMMA AddAlertKeepsMeasures ==
  ASSUME NEW tab \in [Slots -> NodeEntry], NEW id, NEW type, AddAlert(tab, id, type), NEW j \in Slots
  PROVE  SameMeasures(g_nodes'[j], tab[j])
<1> DEFINE n == tab[j]
           x == n.alerts + 1
           m == [n EXCEPT !.alerts = x]
<1>1. g_nodes'[j] = m \/ g_nodes'[j] = n
  BY DEF AddAlert
<1>2. n \in NodeEntry
  OBVIOUS
<1> HIDE DEF n, x
<1>3. SameMeasures(m, n)
  BY <1>2 DEF NodeEntry, SameMeasures
<1> HIDE DEF m
<1> QED BY <1>1, <1>3 DEF n, SameMeasures

\* A table written at one place.
LEMMA WrittenOnce ==
  ASSUME g_nodes \in [Slots -> NodeEntry], NEW i \in Slots, NEW m \in NodeEntry
  PROVE  LET tab == [g_nodes EXCEPT ![i] = m]
         IN /\ tab \in [Slots -> NodeEntry] /\ tab[i] = m
            /\ \A j \in Slots : j # i => tab[j] = g_nodes[j]
OBVIOUS

LEMMA RegisterMeasures ==
  ASSUME TypeOK, NEW id \in Ids, Register(id)
  PROVE  Untouched \/ EntryTaken
<1>1. now \in Nat /\ g_nodes \in [Slots -> NodeEntry]
  BY DEF TypeOK
<1>2. CASE \E i \in FindNode(g_nodes, id) : g_nodes' = [g_nodes EXCEPT ![i] = Enrolled(@)]
  <2>1. PICK i \in FindNode(g_nodes, id) : g_nodes' = [g_nodes EXCEPT ![i] = Enrolled(g_nodes[i])]
    BY <1>2
  <2>2. i \in Slots /\ g_nodes[i] \in NodeEntry
    BY <1>1, FindNodeFacts
  <2>3. Enrolled(g_nodes[i]) \in NodeEntry /\ SameMeasures(Enrolled(g_nodes[i]), g_nodes[i])
    BY <1>1, <2>2, EnrolledTyped, FlagsKeepMeasures
  <2>4. /\ g_nodes'[i] = Enrolled(g_nodes[i])
        /\ \A j \in Slots : j # i => g_nodes'[j] = g_nodes[j]
    BY <1>1, <2>1, <2>2, <2>3, WrittenOnce
  <2> QED BY <2>3, <2>4 DEF Untouched, SameMeasures
<1>3. CASE \E i \in FreeSlot : g_nodes' = [g_nodes EXCEPT ![i] = Enlisted(id)]
  <2>1. PICK i \in Slots : ~g_nodes[i].used /\ g_nodes' = [g_nodes EXCEPT ![i] = Enlisted(id)]
    BY <1>3 DEF FreeSlot, First
  <2>2. Enlisted(id) \in NodeEntry
    BY <1>1, EnlistedTyped
  <2>3. Enlisted(id).vars = [v \in VarNames |-> NoValue]
    BY DEF Enlisted, Enrolled, Alive, EmptyNode
  <2>4. g_nodes'[i] = Enlisted(id) /\ \A j \in Slots : j # i => g_nodes'[j] = g_nodes[j]
    BY <1>1, <2>1, <2>2, WrittenOnce
  <2> QED BY <2>1, <2>3, <2>4 DEF EntryTaken
<1> QED BY <1>2, <1>3 DEF Register

LEMMA ByeMeasures ==
  ASSUME TypeOK, NEW id \in Ids, Bye(id)
  PROVE  Untouched
<1>1. g_nodes \in [Slots -> NodeEntry]
  BY DEF TypeOK
<1>2. PICK i \in FindNode(g_nodes, id) : g_nodes' = [g_nodes EXCEPT ![i] = Marked(g_nodes[i])]
  BY DEF Bye
<1>3. i \in Slots /\ g_nodes[i] \in NodeEntry
  BY <1>1, <1>2, FindNodeFacts
<1>4. Marked(g_nodes[i]) \in NodeEntry
  BY <1>3 DEF Marked, NodeEntry
<1>5. g_nodes'[i] = Marked(g_nodes[i]) /\ \A j \in Slots : j # i => g_nodes'[j] = g_nodes[j]
  BY <1>1, <1>2, <1>3, <1>4, WrittenOnce
<1> QED BY <1>3, <1>5, FlagsKeepMeasures DEF Untouched, SameMeasures

LEMMA ReportedMeasures ==
  ASSUME NEW n \in NodeEntry, NEW seq \in Nat, NEW var \in VarNames, NEW value \in Int,
         now \in Nat
  PROVE  LET m == Reported(n, seq, var, value)
         IN m.vars = n.vars \/ m.vars = [n.vars EXCEPT ![var] = value]
<1> DEFINE a == Alive(n)
           b == [a EXCEPT !.lost = a.lost + Gap(n.last_seq, seq)]
           c == [b EXCEPT !.last_seq = NextLastSeq(a.last_seq, seq)]
           d == [c EXCEPT !.received = a.received + 1]
<1>1. a.vars = n.vars /\ a \in NodeEntry /\ a.last_seq = n.last_seq
  BY FlagsKeepMeasures DEF SameMeasures, Alive, NodeEntry
<1> HIDE DEF a
<1>2. a.last_seq \in Nat /\ a.lost \in Nat /\ a.received \in Nat /\ n.last_seq \in Nat
  BY <1>1 DEF NodeEntry
<1>3. Gap(n.last_seq, seq) \in Nat /\ NextLastSeq(a.last_seq, seq) \in Nat
  BY <1>2, SeqRules
<1>4. b \in NodeEntry /\ b.vars = a.vars
  <2>1. a.lost + Gap(n.last_seq, seq) \in Nat
    BY <1>2, <1>3
  <2> QED BY <1>1, <2>1 DEF NodeEntry
<1> HIDE DEF b
<1>5. c \in NodeEntry /\ c.vars = b.vars
  BY <1>3, <1>4 DEF NodeEntry
<1> HIDE DEF c
<1>6. d \in NodeEntry /\ d.vars = c.vars
  BY <1>2, <1>5 DEF NodeEntry
<1>7. Reported(n, seq, var, value) = SetMeasure(d, var, value)
  BY DEF Reported, a, b, c
<1> HIDE DEF d
<1>8. \/ SetMeasure(d, var, value).vars = d.vars
      \/ SetMeasure(d, var, value).vars = [d.vars EXCEPT ![var] = value]
  BY <1>6 DEF SetMeasure, NodeEntry
<1> QED BY <1>1, <1>4, <1>5, <1>6, <1>7, <1>8

LEMMA TelemetryMeasures ==
  ASSUME TypeOK, NEW id \in Ids, NEW seq \in Nat, NEW var \in VarNames, NEW value \in Int,
         Telemetry(id, seq, var, value)
  PROVE  MeasureTaken
<1>1. now \in Nat /\ g_nodes \in [Slots -> NodeEntry]
  BY DEF TypeOK
<1> DEFINE m(i) == Reported(g_nodes[i], seq, var, value)
           tab(i) == [g_nodes EXCEPT ![i] = m(i)]
<1>2. PICK i \in FindNode(g_nodes, id) :
        g_nodes' = tab(i) \/ \E type \in AlertTypes(var, value) : AddAlert(tab(i), id, type)
  BY DEF Telemetry
<1>3. i \in Slots /\ g_nodes[i] \in NodeEntry /\ g_nodes[i].used
  BY <1>1, FindNodeFacts
<1>4. /\ m(i) \in NodeEntry /\ m(i).used /\ m(i).received = g_nodes[i].received + 1
      /\ m(i).vars = g_nodes[i].vars \/ m(i).vars = [g_nodes[i].vars EXCEPT ![var] = value]
  BY <1>1, <1>3, ReportedTyped, ReportedCounts, ReportedMeasures
<1> HIDE DEF m
<1>5. /\ tab(i) \in [Slots -> NodeEntry] /\ tab(i)[i] = m(i)
      /\ \A j \in Slots : j # i => tab(i)[j] = g_nodes[j]
  BY <1>1, <1>3, <1>4, WrittenOnce
<1> HIDE DEF tab
<1>6. \A j \in Slots : SameMeasures(g_nodes'[j], tab(i)[j])
  BY <1>2, <1>5, AddAlertKeepsMeasures DEF SameMeasures
<1>7. \A j \in Slots : j # i => /\ g_nodes'[j].vars = g_nodes[j].vars
                               /\ g_nodes'[j].used = g_nodes[j].used
  BY <1>5, <1>6 DEF SameMeasures
<1>8. /\ g_nodes'[i].vars = m(i).vars /\ g_nodes'[i].used = m(i).used
      /\ g_nodes'[i].received = m(i).received
  BY <1>3, <1>5, <1>6 DEF SameMeasures
<1>9. /\ g_nodes[i].used /\ g_nodes'[i].used
      /\ g_nodes'[i].received = g_nodes[i].received + 1
      /\ \/ g_nodes'[i].vars = g_nodes[i].vars
         \/ g_nodes'[i].vars = [g_nodes[i].vars EXCEPT ![var] = value]
  BY <1>3, <1>4, <1>8
<1> QED BY <1>3, <1>7, <1>9 DEF MeasureTaken

LEMMA VisitMeasures ==
  ASSUME IInv, WatchdogVisit
  PROVE  Untouched
<1>1. wdPos \in Slots /\ g_nodes \in [Slots -> NodeEntry]
  BY VisitCases DEF IInv, TypeOK
<1>2. CASE UNCHANGED g_nodes
  BY <1>2 DEF Untouched
<1>3. CASE AddAlert(MarkedTable, g_nodes[wdPos].id, "NODE_INACTIVE")
  <2>1. g_nodes[wdPos] \in NodeEntry
    BY <1>1
  <2>2. Marked(g_nodes[wdPos]) \in NodeEntry /\ SameMeasures(Marked(g_nodes[wdPos]), g_nodes[wdPos])
    BY <2>1, FlagsKeepMeasures DEF Marked, NodeEntry
  <2>3. /\ MarkedTable \in [Slots -> NodeEntry] /\ MarkedTable[wdPos] = Marked(g_nodes[wdPos])
        /\ \A j \in Slots : j # wdPos => MarkedTable[j] = g_nodes[j]
    BY <1>1, <2>2, WrittenOnce DEF MarkedTable
  <2>4. \A j \in Slots : SameMeasures(g_nodes'[j], MarkedTable[j])
    BY <1>3, <2>3, AddAlertKeepsMeasures
  <2>5. \A j \in Slots : SameMeasures(MarkedTable[j], g_nodes[j])
    BY <2>2, <2>3 DEF SameMeasures
  <2> QED BY <2>4, <2>5 DEF Untouched, SameMeasures
<1> QED BY <1>2, <1>3, VisitCases

LEMMA NextMeasures == IInv /\ [Next]_vars => Untouched \/ EntryTaken \/ MeasureTaken
<1> SUFFICES ASSUME IInv, [Next]_vars PROVE Untouched \/ EntryTaken \/ MeasureTaken
  OBVIOUS
<1>1. TypeOK
  BY DEF IInv
<1>2. ASSUME NEW id \in Ids, Register(id) PROVE Untouched \/ EntryTaken
  BY <1>1, <1>2, RegisterMeasures
<1>3. ASSUME NEW id \in Ids, Bye(id) PROVE Untouched
  BY <1>1, <1>3, ByeMeasures
<1>4. ASSUME NEW id \in Ids, NEW seq \in 0 .. MaxSeq, NEW r \in Readings,
             Telemetry(id, seq, r[1], r[2])
      PROVE  MeasureTaken
  <2>1. seq \in Nat /\ r[1] \in VarNames /\ r[2] \in Int
    BY ServerAssumption
  <2> QED BY <1>1, <1>4, <2>1, TelemetryMeasures
<1>5. ASSUME WatchdogVisit PROVE Untouched
  BY <1>5, VisitMeasures
<1>6. ASSUME UNCHANGED g_nodes PROVE Untouched
  BY <1>6 DEF Untouched
<1> QED BY <1>2, <1>3, <1>4, <1>5, <1>6
        DEF Next, Watchdog, TelemetryRejected, TelemetryInvalid, WatchdogWake, WatchdogLock,
            WatchdogUnlock, Tick, vars

\* An entry that REGISTER may take into use holds no measures.
FreeIsBare ==
  \A i \in Slots : ~g_nodes[i].used => \A v \in VarNames : g_nodes[i].vars[v] = NoValue

LEMMA NextBare == IInv /\ FreeIsBare /\ [Next]_vars => FreeIsBare'
<1> SUFFICES ASSUME IInv, FreeIsBare, [Next]_vars PROVE FreeIsBare'
  OBVIOUS
<1>1. CASE Untouched
  BY <1>1 DEF FreeIsBare, Untouched
<1>2. CASE EntryTaken
  BY <1>2 DEF FreeIsBare, EntryTaken
<1>3. CASE MeasureTaken
  BY <1>3 DEF FreeIsBare, MeasureTaken
<1> QED BY <1>1, <1>2, <1>3, NextMeasures

\* What MeasuresKept says of one step.
Kept ==
  \A i \in Slots, v \in VarNames :
    Stored(i, v) /\ g_nodes'[i].vars[v] # g_nodes[i].vars[v] =>
      /\ Stored(i, v)' /\ g_nodes'[i].received > g_nodes[i].received
      /\ \A j \in Slots, w \in VarNames :
           <<j, w>> # <<i, v>> => g_nodes'[j].vars[w] = g_nodes[j].vars[w]

LEMMA NextKeeps == IInv /\ FreeIsBare /\ [Next]_vars => Kept
<1> SUFFICES ASSUME IInv, FreeIsBare, [Next]_vars, NEW i \in Slots, NEW v \in VarNames,
                    g_nodes[i].vars[v] # NoValue, g_nodes'[i].vars[v] # g_nodes[i].vars[v]
             PROVE  /\ g_nodes'[i].vars[v] # NoValue /\ g_nodes'[i].received > g_nodes[i].received
                    /\ \A j \in Slots, w \in VarNames :
                         <<j, w>> # <<i, v>> => g_nodes'[j].vars[w] = g_nodes[j].vars[w]
  BY DEF Kept, Stored
<1>1. ~Untouched
  BY DEF Untouched
<1>2. ~EntryTaken
  BY DEF EntryTaken, FreeIsBare
<1>3. PICK k \in Slots, var \in VarNames, value \in Int :
        /\ g_nodes'[k].received = g_nodes[k].received + 1
        /\ \/ g_nodes'[k].vars = g_nodes[k].vars
           \/ g_nodes'[k].vars = [g_nodes[k].vars EXCEPT ![var] = value]
        /\ \A j \in Slots : j # k => g_nodes'[j].vars = g_nodes[j].vars
  BY <1>1, <1>2, NextMeasures DEF MeasureTaken
<1>4. k = i /\ g_nodes'[i].vars = [g_nodes[i].vars EXCEPT ![var] = value]
  BY <1>3
<1>5. g_nodes[i] \in NodeEntry
  BY DEF IInv, TypeOK
<1>6. /\ g_nodes[i].received \in Nat
      /\ \A w \in VarNames : g_nodes'[i].vars[w] = IF w = var THEN value ELSE g_nodes[i].vars[w]
  BY <1>4, <1>5 DEF NodeEntry
<1>7. v = var /\ g_nodes'[i].vars[v] = value
  BY <1>6
<1>8. value # NoValue
  BY ServerAssumption
<1>9. g_nodes'[i].received > g_nodes[i].received
  BY <1>3, <1>4, <1>6
<1>10. ASSUME NEW j \in Slots, NEW w \in VarNames, <<j, w>> # <<i, v>>
       PROVE  g_nodes'[j].vars[w] = g_nodes[j].vars[w]
  BY <1>3, <1>4, <1>6, <1>7, <1>10
<1> QED BY <1>7, <1>8, <1>9, <1>10

\* A measure of a node is never lost or changed but by a newer one of the same variable,
\* whatever the table and the entry hold and whoever registers again.
THEOREM MeasuresStay == Spec => MeasuresKept
<1>1. Init => FreeIsBare
  BY DEF Init, EmptyNode, FreeIsBare
<1>2. Kept => [Kept]_vars
  OBVIOUS
<1>3. [][Kept]_vars => MeasuresKept
  <2>1. Kept => \A i \in Slots, v \in VarNames :
                  Stored(i, v) /\ g_nodes'[i].vars[v] # g_nodes[i].vars[v] =>
                    /\ Stored(i, v)' /\ g_nodes'[i].received > g_nodes[i].received
                    /\ \A j \in Slots, w \in VarNames :
                         <<j, w>> # <<i, v>> => g_nodes'[j].vars[w] = g_nodes[j].vars[w]
    BY DEF Kept
  <2> QED BY <2>1, PTL DEF MeasuresKept
<1> QED BY <1>1, <1>2, <1>3, NextBare, NextKeeps, Invariance, PTL DEF Spec
=============================================================================
