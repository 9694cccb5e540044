---------------------------- MODULE ServerProofs ----------------------------
(***************************************************************************)
(* Proofs about Server, for every value of its constants: the node table   *)
(* and the flags of its entries stay consistent, a node is marked inactive *)
(* only when it deserves it and is then reported exactly once, and the     *)
(* ring of alerts implements AlertLog.                                     *)
(***************************************************************************)
EXTENDS Server, Sequences, TLAPS

----------------------------------------------------------------------------
(* The inductive invariant. *)

\* What holds of one entry by itself.  Beyond the flags: an unused entry is not
\* active, and no node was last seen in the future.
EntryOK(n) ==
  /\ n.used => n.id \in Ids
  /\ n.used => (n.active <=> ~n.inactive_alerted)
  /\ ~n.used => ~n.active
  /\ n.last_seen <= now

\* The watchdog compares with a clock it read in the past.
ClockReadEarlier == wdNow <= now

IInv ==
  /\ TypeOK
  /\ TableConsistent
  /\ \A i \in Slots : EntryOK(g_nodes[i])
  /\ ClockReadEarlier

----------------------------------------------------------------------------
(* Lemmas about the operators. *)

\* A ring index that is out by at most one turn.
LEMMA ModOnce ==
  ASSUME NEW m \in Nat \ {0}, NEW x \in Int, 0 <= x, x < 2 * m
  PROVE  x % m = IF x < m THEN x ELSE x - m
  <1>1. CASE x < m
    BY <1>1
  <1>2. CASE x >= m
    BY <1>2
  <1> QED BY <1>1, <1>2

\* A lookup in the table finds at most one entry.
LEMMA FirstUnique ==
  ASSUME NEW S \in SUBSET Slots, NEW i \in First(S), NEW j \in First(S)
  PROVE  i = j
  BY ServerAssumption DEF First, Slots

\* A lookup only returns used entries with that id.
LEMMA FindNodeFacts ==
  ASSUME NEW tab, NEW id, NEW i \in FindNode(tab, id)
  PROVE  i \in Slots /\ tab[i].used /\ tab[i].id = id
  BY DEF FindNode, First

\* A used entry of a table without duplicates is what a lookup of its id finds.
LEMMA FindNodeHit ==
  ASSUME NEW tab, NEW i \in Slots, tab[i].used,
         \A j \in Slots : tab[j].used /\ tab[j].id = tab[i].id => j = i
  PROVE  FindNode(tab, tab[i].id) = {i}
  BY ServerAssumption DEF FindNode, First, Slots

\* A zeroed entry is an entry.
LEMMA EmptyNodeTyped == EmptyNode \in NodeEntry
  BY DEF EmptyNode, NodeEntry

\* REGISTER of a known node leaves its entry active, with both flags right.
LEMMA EnrolledTyped ==
  ASSUME NEW n \in NodeEntry, now \in Nat
  PROVE  /\ Enrolled(n) \in NodeEntry
         /\ Enrolled(n).used = n.used /\ Enrolled(n).id = n.id
         /\ Enrolled(n).active /\ ~Enrolled(n).inactive_alerted
         /\ Enrolled(n).last_seen = now
  BY DEF Enrolled, Alive, NodeEntry

\* So does REGISTER of a new one.
LEMMA EnlistedTyped ==
  ASSUME NEW id \in Ids, now \in Nat
  PROVE  /\ Enlisted(id) \in NodeEntry
         /\ Enlisted(id).used /\ Enlisted(id).id = id
         /\ Enlisted(id).active /\ ~Enlisted(id).inactive_alerted
         /\ Enlisted(id).last_seen = now
  <1> DEFINE e == [EmptyNode EXCEPT !.used = TRUE, !.id = id]
  <1>1. e \in NodeEntry /\ e.used /\ e.id = id
    BY EmptyNodeTyped DEF NodeEntry, EmptyNode
  <1> HIDE DEF e
  <1>2. /\ Enrolled(e) \in NodeEntry
        /\ Enrolled(e).used = e.used /\ Enrolled(e).id = e.id
        /\ Enrolled(e).active /\ ~Enrolled(e).inactive_alerted
        /\ Enrolled(e).last_seen = now
    BY <1>1, EnrolledTyped
  <1>3. Enlisted(id) = Enrolled(e)
    BY DEF Enlisted, e
  <1> QED BY <1>1, <1>2, <1>3

\* Neither the loss accounting nor the last sequence number goes below zero.
LEMMA SeqRules ==
  ASSUME NEW last \in Nat, NEW seq \in Nat
  PROVE  Gap(last, seq) \in Nat /\ NextLastSeq(last, seq) \in Nat
  BY DEF Gap, NextLastSeq

\* The fields of an entry that the invariant speaks of.
SameKeyAndFlags(m, n) ==
  /\ m.used = n.used /\ m.id = n.id /\ m.active = n.active
  /\ m.inactive_alerted = n.inactive_alerted /\ m.last_seen = n.last_seen

\* Writing a counter disturbs neither the key nor the flags of an entry.
LEMMA CountingKeepsFlags ==
  ASSUME NEW n \in NodeEntry, NEW x \in Nat
  PROVE  /\ [n EXCEPT !.lost = x] \in NodeEntry
         /\ SameKeyAndFlags([n EXCEPT !.lost = x], n)
         /\ [n EXCEPT !.last_seq = x] \in NodeEntry
         /\ SameKeyAndFlags([n EXCEPT !.last_seq = x], n)
         /\ [n EXCEPT !.received = x] \in NodeEntry
         /\ SameKeyAndFlags([n EXCEPT !.received = x], n)
         /\ [n EXCEPT !.alerts = x] \in NodeEntry
         /\ SameKeyAndFlags([n EXCEPT !.alerts = x], n)
         /\ [n EXCEPT !.alerts = x].alerts = x
  BY DEF SameKeyAndFlags, NodeEntry

\* Storing a measure disturbs neither the key nor the flags of an entry.
LEMMA SetMeasureTyped ==
  ASSUME NEW n \in NodeEntry, NEW var \in VarNames, NEW value \in Int
  PROVE  /\ SetMeasure(n, var, value) \in NodeEntry
         /\ SameKeyAndFlags(SetMeasure(n, var, value), n)
  <1>1. /\ [n EXCEPT !.vars[var] = value] \in NodeEntry
        /\ SameKeyAndFlags([n EXCEPT !.vars[var] = value], n)
    BY DEF SameKeyAndFlags, NodeEntry
  <1>2. \/ SetMeasure(n, var, value) = n
        \/ SetMeasure(n, var, value) = [n EXCEPT !.vars[var] = value]
    BY DEF SetMeasure
  <1> QED BY <1>1, <1>2 DEF SameKeyAndFlags

\* An accepted datagram does to the key and the flags what Alive does.
LEMMA ReportedTyped ==
  ASSUME NEW n \in NodeEntry, now \in Nat,
         NEW seq \in Nat, NEW var \in VarNames, NEW value \in Int
  PROVE  /\ Reported(n, seq, var, value) \in NodeEntry
         /\ SameKeyAndFlags(Reported(n, seq, var, value), Alive(n))
  <1> DEFINE a == Alive(n)
             b == [a EXCEPT !.lost = a.lost + Gap(n.last_seq, seq)]
             c == [b EXCEPT !.last_seq = NextLastSeq(a.last_seq, seq)]
             d == [c EXCEPT !.received = a.received + 1]
  <1>1. a \in NodeEntry
    BY DEF Alive, NodeEntry
  <1> HIDE DEF a
  <1>2. a.last_seq \in Nat /\ a.lost \in Nat /\ a.received \in Nat /\ n.last_seq \in Nat
    BY <1>1 DEF NodeEntry
  <1>3. /\ a.lost + Gap(n.last_seq, seq) \in Nat
        /\ NextLastSeq(a.last_seq, seq) \in Nat
        /\ a.received + 1 \in Nat
    <2>1. Gap(n.last_seq, seq) \in Nat
      BY <1>2, SeqRules
    <2>2. NextLastSeq(a.last_seq, seq) \in Nat
      BY <1>2, SeqRules
    <2>3. \A x, y \in Nat : x + y \in Nat /\ x + 1 \in Nat
      OBVIOUS
    <2> QED BY <1>2, <2>1, <2>2, <2>3
  <1>4. b \in NodeEntry /\ SameKeyAndFlags(b, a)
    BY <1>1, <1>3, CountingKeepsFlags
  <1> HIDE DEF b
  <1>5. c \in NodeEntry /\ SameKeyAndFlags(c, b)
    BY <1>3, <1>4, CountingKeepsFlags
  <1> HIDE DEF c
  <1>6. d \in NodeEntry /\ SameKeyAndFlags(d, c)
    BY <1>3, <1>5, CountingKeepsFlags
  <1>7. Reported(n, seq, var, value) = SetMeasure(d, var, value)
    BY DEF Reported, a, b, c
  <1> HIDE DEF d
  <1>8. /\ SetMeasure(d, var, value) \in NodeEntry
        /\ SameKeyAndFlags(SetMeasure(d, var, value), d)
    BY <1>6, SetMeasureTyped
  <1> QED BY <1>4, <1>5, <1>6, <1>7, <1>8 DEF SameKeyAndFlags, a

\* Alive keeps the key of an entry and sets its flags.
LEMMA AliveFlags ==
  ASSUME NEW n \in NodeEntry
  PROVE  /\ Alive(n).used = n.used /\ Alive(n).id = n.id
         /\ Alive(n).active = TRUE /\ Alive(n).inactive_alerted = FALSE
         /\ Alive(n).last_seen = now
  BY DEF Alive, NodeEntry

\* The next ring position stays in the ring.
LEMMA NextRingSlot ==
  ASSUME NEW m \in Nat \ {0}, NEW h \in 0 .. m - 1
  PROVE  (h + 1) % m = IF h + 1 < m THEN h + 1 ELSE 0
  BY ModOnce

\* state_add_alert counts the alert on its node and changes nothing else there.
LEMMA AddAlertFacts ==
  ASSUME TypeOK, NEW tab \in [Slots -> NodeEntry], NEW id \in Ids, NEW type \in Types,
         AddAlert(tab, id, type)
  PROVE  /\ g_nodes' \in [Slots -> NodeEntry]
         /\ \A i \in Slots : SameKeyAndFlags(g_nodes'[i], tab[i])
         /\ \A i \in FindNode(tab, id) : g_nodes'[i].alerts = tab[i].alerts + 1
         /\ g_alerts' \in [RingSlots -> Alert \cup {NoAlert}]
         /\ g_alerts'[g_alert_head] = [node |-> id, type |-> type]
         /\ g_alert_head' \in RingSlots
         /\ g_alert_count' \in 0 .. MaxAlerts
         /\ alerts_total' = alerts_total + 1
  <1> DEFINE counted(i) == [tab[i] EXCEPT !.alerts = tab[i].alerts + 1]
  <1>1. ASSUME NEW i \in Slots
        PROVE  /\ counted(i) \in NodeEntry
               /\ SameKeyAndFlags(counted(i), tab[i])
               /\ counted(i).alerts = tab[i].alerts + 1
    <2>1. tab[i] \in NodeEntry /\ tab[i].alerts + 1 \in Nat
      BY DEF NodeEntry
    <2> QED BY <2>1, CountingKeepsFlags
  <1>2. g_nodes' = [i \in Slots |-> IF i \in FindNode(tab, id) THEN counted(i) ELSE tab[i]]
    BY DEF AddAlert
  <1> HIDE DEF counted
  <1>3. g_nodes' \in [Slots -> NodeEntry]
    BY <1>1, <1>2
  <1>4. \A i \in Slots : SameKeyAndFlags(g_nodes'[i], tab[i])
    BY <1>1, <1>2 DEF SameKeyAndFlags
  <1>5. \A i \in FindNode(tab, id) : g_nodes'[i].alerts = tab[i].alerts + 1
    BY <1>1, <1>2, FindNodeFacts
  <1>6. [node |-> id, type |-> type] \in Alert
    BY DEF Alert
  <1>7. /\ g_alerts' \in [RingSlots -> Alert \cup {NoAlert}]
        /\ g_alerts'[g_alert_head] = [node |-> id, type |-> type]
    BY <1>6 DEF AddAlert, TypeOK
  <1>8. MaxAlerts \in Nat \ {0}
    BY ServerAssumption
  <1>9. g_alert_head' \in RingSlots
    <2>1. (g_alert_head + 1) % MaxAlerts =
            IF g_alert_head + 1 < MaxAlerts THEN g_alert_head + 1 ELSE 0
      BY <1>8, NextRingSlot DEF TypeOK, RingSlots
    <2>2. g_alert_head' = IF g_alert_head + 1 < MaxAlerts THEN g_alert_head + 1 ELSE 0
      BY <2>1 DEF AddAlert
    <2> QED BY <1>8, <2>2 DEF TypeOK, RingSlots
  <1>10. g_alert_count' \in 0 .. MaxAlerts /\ alerts_total' = alerts_total + 1
    BY <1>8 DEF AddAlert, TypeOK
  <1> QED BY <1>3, <1>4, <1>5, <1>7, <1>9, <1>10

----------------------------------------------------------------------------
(* The invariant is inductive: one lemma for each action that writes the table. *)

\* The invariant holds when state_init is over.
LEMMA InitIInv == Init => IInv
  <1> SUFFICES ASSUME Init PROVE IInv
    OBVIOUS
  <1>1. MaxNodes \in Nat \ {0} /\ MaxAlerts \in Nat \ {0}
    BY ServerAssumption
  <1>2. TypeOK
    BY <1>1, EmptyNodeTyped DEF Init, TypeOK, RingSlots
  <1>3. \A i \in Slots : g_nodes[i] = EmptyNode
    BY DEF Init
  <1>4. ~EmptyNode.used /\ ~EmptyNode.active /\ EmptyNode.last_seen = 0
    BY DEF EmptyNode
  <1>5. TableConsistent
    BY <1>3, <1>4 DEF TableConsistent
  <1>6. \A i \in Slots : EntryOK(g_nodes[i])
    BY <1>3, <1>4 DEF EntryOK, Init
  <1> QED BY <1>2, <1>5, <1>6 DEF IInv, ClockReadEarlier, Init

\* A step that leaves the keys of every entry alone leaves the table consistent.
LEMMA SameKeysConsistent ==
  ASSUME TableConsistent,
         \A i \in Slots : g_nodes'[i].used = g_nodes[i].used /\ g_nodes'[i].id = g_nodes[i].id
  PROVE  TableConsistent'
  BY DEF TableConsistent

\* The part of the invariant that the entries of a table make up.
TableOK(tab) ==
  /\ tab \in [Slots -> NodeEntry]
  /\ \A i \in Slots : EntryOK(tab[i])
  /\ \A i \in Slots : tab[i].used = g_nodes[i].used /\ tab[i].id = g_nodes[i].id

\* Replacing one entry by a good one with the same key.
LEMMA UpdateOne ==
  ASSUME IInv, NEW i \in Slots, NEW m \in NodeEntry, EntryOK(m),
         m.used = g_nodes[i].used, m.id = g_nodes[i].id
  PROVE  TableOK([g_nodes EXCEPT ![i] = m])
  BY DEF IInv, TypeOK, TableOK

\* EntryOK speaks of the key, the flags and last_seen only.
LEMMA EntryOKDependsOnFlags ==
  ASSUME NEW n, EntryOK(n), NEW m, SameKeyAndFlags(m, n)
  PROVE  EntryOK(m)
  BY DEF EntryOK, SameKeyAndFlags

\* REGISTER keeps the invariant: of a known node, and of a new one in the first free entry.
LEMMA RegisterInv ==
  ASSUME IInv, NEW id \in Ids, Register(id)
  PROVE  IInv'
  <1>1. now \in Nat /\ g_nodes \in [Slots -> NodeEntry]
    BY DEF IInv, TypeOK
  <1>2. now' = now /\ UNCHANGED <<alertVars, udpVars, wdVars>>
    BY DEF Register
  <1>3. CASE \E i \in FindNode(g_nodes, id) : g_nodes' = [g_nodes EXCEPT ![i] = Enrolled(@)]
    <2>1. PICK i \in FindNode(g_nodes, id) : g_nodes' = [g_nodes EXCEPT ![i] = Enrolled(g_nodes[i])]
      BY <1>3
    <2>2. i \in Slots /\ g_nodes[i].used /\ g_nodes[i].id = id
      BY FindNodeFacts
    <2> DEFINE m == Enrolled(g_nodes[i])
    <2>3. /\ m \in NodeEntry /\ m.used = g_nodes[i].used /\ m.id = g_nodes[i].id
          /\ m.active /\ ~m.inactive_alerted /\ m.last_seen = now
      BY <1>1, <2>2, EnrolledTyped
    <2> HIDE DEF m
    <2>4. EntryOK(m)
      BY <1>1, <2>2, <2>3 DEF EntryOK
    <2>5. TableOK(g_nodes')
      BY <2>1, <2>2, <2>3, <2>4, UpdateOne DEF m
    <2>6. TableConsistent'
      BY <2>5, SameKeysConsistent DEF TableOK, IInv
    <2>7. \A j \in Slots : EntryOK(g_nodes[j])'
      BY <1>2, <2>5 DEF TableOK, EntryOK
    <2> QED BY <1>2, <2>5, <2>6, <2>7
            DEF IInv, TypeOK, TableOK, ClockReadEarlier, alertVars, udpVars, wdVars
  <1>4. CASE /\ FindNode(g_nodes, id) = {}
             /\ \E i \in FreeSlot : g_nodes' = [g_nodes EXCEPT ![i] = Enlisted(id)]
    <2>1. PICK i \in FreeSlot : g_nodes' = [g_nodes EXCEPT ![i] = Enlisted(id)]
      BY <1>4
    <2>2. i \in Slots /\ ~g_nodes[i].used /\ \A j \in Slots : ~g_nodes[j].used => i <= j
      BY DEF FreeSlot, First
    <2>3. \A j \in Slots : ~(g_nodes[j].used /\ g_nodes[j].id = id)
      <3> SUFFICES ASSUME NEW j \in Slots, g_nodes[j].used, g_nodes[j].id = id PROVE FALSE
        OBVIOUS
      <3>1. \A k \in Slots : g_nodes[k].used /\ g_nodes[k].id = id => k = j
        BY DEF IInv, TableConsistent
      <3>2. FindNode(g_nodes, g_nodes[j].id) = {j}
        BY <3>1, FindNodeHit
      <3> QED BY <1>4, <3>2
    <2> DEFINE m == Enlisted(id)
    <2>4. /\ m \in NodeEntry /\ m.used /\ m.id = id
          /\ m.active /\ ~m.inactive_alerted /\ m.last_seen = now
      BY <1>1, EnlistedTyped
    <2> HIDE DEF m
    <2>5. /\ g_nodes' \in [Slots -> NodeEntry]
          /\ g_nodes'[i] = m
          /\ \A j \in Slots : j # i => g_nodes'[j] = g_nodes[j]
      BY <1>1, <2>1, <2>2, <2>4 DEF m
    <2>6. TableConsistent'
      <3>1. \A j, k \in Slots :
              g_nodes'[j].used /\ g_nodes'[k].used /\ g_nodes'[j].id = g_nodes'[k].id => j = k
        BY <2>2, <2>3, <2>4, <2>5 DEF IInv, TableConsistent
      <3>2. \A j, k \in Slots : j < k /\ g_nodes'[k].used => g_nodes'[j].used
        <4> SUFFICES ASSUME NEW j \in Slots, NEW k \in Slots, j < k, g_nodes'[k].used
                     PROVE  g_nodes'[j].used
          OBVIOUS
        <4>1. CASE j = i
          BY <2>4, <2>5, <4>1
        <4>2. CASE j # i /\ k = i
          BY <2>2, <2>5, <4>2, ServerAssumption DEF Slots
        <4>3. CASE j # i /\ k # i
          BY <2>5, <4>3 DEF IInv, TableConsistent
        <4> QED BY <4>1, <4>2, <4>3
      <3>3. \A j \in Slots : g_nodes'[j].used => g_nodes'[j].id \in Ids
        BY <2>2, <2>4, <2>5 DEF IInv, TableConsistent
      <3> QED BY <3>1, <3>2, <3>3 DEF TableConsistent
    <2>7. \A j \in Slots : EntryOK(g_nodes[j])'
      <3>1. EntryOK(m)
        BY <1>1, <2>4 DEF EntryOK
      <3>2. \A j \in Slots : EntryOK(g_nodes'[j])
        BY <2>5, <3>1 DEF IInv
      <3> QED BY <1>2, <3>2 DEF EntryOK
    <2> QED BY <1>2, <2>5, <2>6, <2>7
            DEF IInv, TypeOK, ClockReadEarlier, alertVars, udpVars, wdVars
  <1> QED BY <1>3, <1>4 DEF Register

\* BYE keeps the invariant.
LEMMA ByeInv ==
  ASSUME IInv, NEW id \in Ids, Bye(id)
  PROVE  IInv'
  <1>1. now' = now /\ UNCHANGED <<alertVars, udpVars, wdVars>>
    BY DEF Bye
  <1>2. PICK i \in FindNode(g_nodes, id) :
          g_nodes' = [g_nodes EXCEPT ![i] = Marked(g_nodes[i])]
    BY DEF Bye
  <1>3. i \in Slots /\ g_nodes[i].used
    BY FindNodeFacts
  <1> DEFINE m == Marked(g_nodes[i])
  <1>4. g_nodes[i] \in NodeEntry /\ EntryOK(g_nodes[i])
    BY <1>3 DEF IInv, TypeOK
  <1>5. /\ m \in NodeEntry /\ m.used = g_nodes[i].used /\ m.id = g_nodes[i].id
        /\ ~m.active /\ m.inactive_alerted /\ m.last_seen = g_nodes[i].last_seen
    BY <1>4 DEF Marked, NodeEntry
  <1>6. g_nodes' = [g_nodes EXCEPT ![i] = m]
    BY <1>2
  <1> HIDE DEF m
  <1>7. EntryOK(m)
    BY <1>3, <1>4, <1>5 DEF EntryOK
  <1>8. TableOK(g_nodes')
    BY <1>3, <1>5, <1>6, <1>7, UpdateOne
  <1>9. TableConsistent'
    BY <1>8, SameKeysConsistent DEF TableOK, IInv
  <1>10. \A j \in Slots : EntryOK(g_nodes[j])'
    BY <1>1, <1>8 DEF TableOK, EntryOK
  <1> QED BY <1>1, <1>8, <1>9, <1>10
          DEF IInv, TypeOK, TableOK, ClockReadEarlier, alertVars, udpVars, wdVars

\* Logging an alert on a good table.
LEMMA AddAlertInv ==
  ASSUME IInv, NEW tab, TableOK(tab), NEW id \in Ids, NEW type \in Types,
         AddAlert(tab, id, type), now' = now
  PROVE  /\ TableConsistent'
         /\ \A i \in Slots : EntryOK(g_nodes[i])'
         /\ g_nodes' \in [Slots -> NodeEntry]
         /\ g_alerts' \in [RingSlots -> Alert \cup {NoAlert}]
         /\ g_alert_head' \in RingSlots
         /\ g_alert_count' \in 0 .. MaxAlerts
         /\ alerts_total' \in Nat
  <1>1. TypeOK /\ tab \in [Slots -> NodeEntry]
    BY DEF IInv, TableOK
  <1>2. /\ g_nodes' \in [Slots -> NodeEntry]
        /\ \A i \in Slots : SameKeyAndFlags(g_nodes'[i], tab[i])
        /\ g_alerts' \in [RingSlots -> Alert \cup {NoAlert}]
        /\ g_alert_head' \in RingSlots
        /\ g_alert_count' \in 0 .. MaxAlerts
        /\ alerts_total' = alerts_total + 1
    BY <1>1, AddAlertFacts
  <1>3. \A i \in Slots : EntryOK(g_nodes'[i])
    BY <1>2, EntryOKDependsOnFlags DEF TableOK
  <1>4. TableConsistent'
    BY <1>2, SameKeysConsistent DEF TableOK, SameKeyAndFlags, IInv
  <1> QED BY <1>1, <1>2, <1>3, <1>4 DEF EntryOK, TypeOK

\* Thresholds raise only alerts that the log can hold.
LEMMA AlertTypesTyped ==
  ASSUME NEW var, NEW value, NEW type \in AlertTypes(var, value)
  PROVE  type \in Types
  BY DEF AlertTypes, Types, ThresholdTypes

\* An accepted datagram keeps the invariant, with or without an alert.
LEMMA TelemetryInv ==
  ASSUME IInv, NEW id \in Ids, NEW seq \in Nat, NEW var \in VarNames, NEW value \in Int,
         Telemetry(id, seq, var, value)
  PROVE  IInv'
  <1>1. now \in Nat /\ now' = now /\ UNCHANGED <<udp_rejected, udp_invalid, wdVars>>
    BY DEF Telemetry, IInv, TypeOK
  <1> DEFINE m(i) == Reported(g_nodes[i], seq, var, value)
             tab(i) == [g_nodes EXCEPT ![i] = m(i)]
  <1>2. PICK i \in FindNode(g_nodes, id) :
          /\ udp_lost' = udp_lost + Gap(g_nodes[i].last_seq, seq)
          /\ \/ g_nodes' = tab(i) /\ UNCHANGED alertVars
             \/ \E type \in AlertTypes(var, value) : AddAlert(tab(i), id, type)
    BY DEF Telemetry
  <1>3. i \in Slots /\ g_nodes[i].used
    BY FindNodeFacts
  <1>4. g_nodes[i] \in NodeEntry /\ EntryOK(g_nodes[i])
    BY <1>3 DEF IInv, TypeOK
  <1>5. /\ m(i) \in NodeEntry
        /\ m(i).used = g_nodes[i].used /\ m(i).id = g_nodes[i].id
        /\ m(i).active = TRUE /\ m(i).inactive_alerted = FALSE /\ m(i).last_seen = now
    <2>1. m(i) \in NodeEntry /\ SameKeyAndFlags(m(i), Alive(g_nodes[i]))
      BY <1>1, <1>4, ReportedTyped
    <2> HIDE DEF m
    <2>2. /\ Alive(g_nodes[i]).used = g_nodes[i].used
          /\ Alive(g_nodes[i]).id = g_nodes[i].id
          /\ Alive(g_nodes[i]).active = TRUE
          /\ Alive(g_nodes[i]).inactive_alerted = FALSE
          /\ Alive(g_nodes[i]).last_seen = now
      BY <1>4, AliveFlags
    <2> QED BY <2>1, <2>2 DEF SameKeyAndFlags
  <1> HIDE DEF m
  <1>6. EntryOK(m(i))
    BY <1>1, <1>3, <1>4, <1>5 DEF EntryOK
  <1>7. TableOK(tab(i))
    BY <1>3, <1>5, <1>6, UpdateOne
  <1> HIDE DEF tab
  <1>8. udp_lost' \in Nat
    <2>1. g_nodes[i].last_seq \in Nat /\ udp_lost \in Nat
      BY <1>4 DEF NodeEntry, IInv, TypeOK
    <2>2. Gap(g_nodes[i].last_seq, seq) \in Nat
      BY <2>1, SeqRules
    <2> QED BY <1>2, <2>1, <2>2
  <1>9. udp_received' \in Nat
    BY DEF Telemetry, IInv, TypeOK
  <1>10. {udp_received, udp_lost, udp_rejected, udp_invalid}' \subseteq Nat
    BY <1>1, <1>8, <1>9 DEF IInv, TypeOK
  <1>11. CASE g_nodes' = tab(i) /\ UNCHANGED alertVars
    <2>1. TableConsistent'
      BY <1>7, <1>11, SameKeysConsistent DEF TableOK, IInv
    <2>2. \A j \in Slots : EntryOK(g_nodes[j])'
      BY <1>1, <1>7, <1>11 DEF TableOK, EntryOK
    <2> QED BY <1>1, <1>7, <1>10, <1>11, <2>1, <2>2
            DEF IInv, TypeOK, TableOK, ClockReadEarlier, alertVars, wdVars
  <1>12. CASE \E type \in AlertTypes(var, value) : AddAlert(tab(i), id, type)
    <2>1. PICK type \in AlertTypes(var, value) : AddAlert(tab(i), id, type)
      BY <1>12
    <2>2. type \in Types
      BY AlertTypesTyped
    <2>3. /\ TableConsistent'
          /\ \A j \in Slots : EntryOK(g_nodes[j])'
          /\ g_nodes' \in [Slots -> NodeEntry]
          /\ g_alerts' \in [RingSlots -> Alert \cup {NoAlert}]
          /\ g_alert_head' \in RingSlots
          /\ g_alert_count' \in 0 .. MaxAlerts
          /\ alerts_total' \in Nat
      BY <1>1, <1>7, <2>1, <2>2, AddAlertInv
    <2> QED BY <1>1, <1>10, <2>3 DEF IInv, TypeOK, ClockReadEarlier, wdVars
  <1> QED BY <1>2, <1>11, <1>12

\* The table once the sweep has marked the entry it visits.
MarkedTable == [g_nodes EXCEPT ![wdPos] = Marked(g_nodes[wdPos])]

\* Under the invariant a visit does one of two things: nothing, or mark and report.
LEMMA VisitCases ==
  ASSUME IInv, WatchdogVisit
  PROVE  /\ wdPos \in Slots
         /\ TableOK(MarkedTable)
         /\ \/ UNCHANGED <<g_nodes, alertVars>>
            \/ /\ TimedOut(g_nodes[wdPos])
               /\ AddAlert(MarkedTable, g_nodes[wdPos].id, "NODE_INACTIVE")
  <1>1. wdPos \in Slots
    BY ServerAssumption DEF WatchdogVisit, IInv, TypeOK, Slots
  <1> DEFINE n == g_nodes[wdPos]
  <1>2. n \in NodeEntry /\ EntryOK(n) /\ g_nodes \in [Slots -> NodeEntry]
    BY <1>1 DEF IInv, TypeOK
  <1>3. /\ Marked(n) \in NodeEntry /\ Marked(n).used = n.used /\ Marked(n).id = n.id
        /\ ~Marked(n).active /\ Marked(n).inactive_alerted
        /\ Marked(n).last_seen = n.last_seen
    BY <1>2 DEF NodeEntry, Marked
  <1>4. EntryOK(Marked(n))
    BY <1>2, <1>3 DEF EntryOK
  <1>5. TableOK(MarkedTable)
    BY <1>1, <1>3, <1>4, UpdateOne DEF MarkedTable
  <1>7. ASSUME TimedOut(n) PROVE ~n.inactive_alerted
    BY <1>2, <1>7 DEF TimedOut, EntryOK
  <1>8. \/ UNCHANGED <<g_nodes, alertVars>>
        \/ TimedOut(n) /\ AddAlert(MarkedTable, n.id, "NODE_INACTIVE")
    BY <1>7 DEF WatchdogVisit, MarkedTable
  <1> QED BY <1>1, <1>5, <1>8

\* A visit of the watchdog keeps the invariant.
LEMMA VisitInv ==
  ASSUME IInv, WatchdogVisit
  PROVE  IInv'
  <1>1. wdPos \in Slots /\ TableOK(MarkedTable)
    BY VisitCases
  <1>2. wdPos' \in 0 .. MaxNodes
    BY <1>1, ServerAssumption DEF WatchdogVisit, Slots
  <1>3. now' = now /\ UNCHANGED <<udpVars, wdPc, wdNow>>
    BY DEF WatchdogVisit
  <1>4. CASE UNCHANGED <<g_nodes, alertVars>>
    BY <1>2, <1>3, <1>4
       DEF IInv, TypeOK, TableConsistent, EntryOK, ClockReadEarlier, alertVars, udpVars
  <1>5. CASE /\ TimedOut(g_nodes[wdPos])
             /\ AddAlert(MarkedTable, g_nodes[wdPos].id, "NODE_INACTIVE")
    <2>1. g_nodes[wdPos].id \in Ids
      BY <1>1, <1>5 DEF TimedOut, IInv, EntryOK
    <2>2. "NODE_INACTIVE" \in Types
      BY DEF Types
    <2>3. /\ TableConsistent'
          /\ \A j \in Slots : EntryOK(g_nodes[j])'
          /\ g_nodes' \in [Slots -> NodeEntry]
          /\ g_alerts' \in [RingSlots -> Alert \cup {NoAlert}]
          /\ g_alert_head' \in RingSlots
          /\ g_alert_count' \in 0 .. MaxAlerts
          /\ alerts_total' \in Nat
      BY <1>1, <1>3, <1>5, <2>1, <2>2, AddAlertInv
    <2> QED BY <1>2, <1>3, <2>3 DEF IInv, TypeOK, ClockReadEarlier, udpVars
  <1> QED BY <1>4, <1>5, VisitCases

\* Every other step leaves the table and the alerts alone.
LEMMA OtherInv ==
  ASSUME IInv, UNCHANGED <<g_nodes, alertVars>>,
         {udp_received, udp_lost, udp_rejected, udp_invalid}' \subseteq Nat,
         now' \in Nat, now <= now',
         wdPc' \in {"sleep", "woken", "sweep"}, wdNow' \in Nat, wdNow' <= now',
         wdPos' \in 0 .. MaxNodes
  PROVE  IInv'
  <1>1. TypeOK'
    BY DEF IInv, TypeOK, alertVars
  <1>2. TableConsistent'
    BY DEF IInv, TableConsistent
  <1>3. \A i \in Slots : EntryOK(g_nodes[i])'
    <2> SUFFICES ASSUME NEW i \in Slots PROVE EntryOK(g_nodes[i])'
      OBVIOUS
    <2>1. EntryOK(g_nodes[i]) /\ g_nodes'[i] = g_nodes[i]
      BY DEF IInv
    <2>2. g_nodes[i].last_seen \in Nat /\ now \in Nat
      BY DEF IInv, TypeOK, NodeEntry
    <2> QED BY <2>1, <2>2 DEF EntryOK
  <1> QED BY <1>1, <1>2, <1>3 DEF IInv, ClockReadEarlier

\* Every step keeps the invariant.
LEMMA NextIInv == IInv /\ [Next]_vars => IInv'
  <1> SUFFICES ASSUME IInv, [Next]_vars PROVE IInv'
    OBVIOUS
  <1> USE DEF IInv, TypeOK, ClockReadEarlier, alertVars, udpVars, wdVars
  <1>1. ASSUME NEW id \in Ids, Register(id) PROVE IInv'
    BY <1>1, RegisterInv
  <1>2. ASSUME NEW id \in Ids, Bye(id) PROVE IInv'
    BY <1>2, ByeInv
  <1>3. ASSUME NEW id \in Ids, TelemetryRejected(id) PROVE IInv'
    BY <1>3, OtherInv DEF TelemetryRejected
  <1>4. ASSUME NEW id \in Ids, NEW seq \in 0 .. MaxSeq, NEW r \in Readings,
               Telemetry(id, seq, r[1], r[2])
        PROVE  IInv'
    <2>1. seq \in Nat /\ r[1] \in VarNames /\ r[2] \in Int
      BY ServerAssumption
    <2> QED BY <1>4, <2>1, TelemetryInv
  <1>5. ASSUME TelemetryInvalid PROVE IInv'
    BY <1>5, OtherInv DEF TelemetryInvalid
  <1>6. ASSUME WatchdogWake PROVE IInv'
    BY <1>6, OtherInv DEF WatchdogWake
  <1>7. ASSUME WatchdogLock PROVE IInv'
    BY <1>7, OtherInv, ServerAssumption DEF WatchdogLock
  <1>8. ASSUME WatchdogVisit PROVE IInv'
    BY <1>8, VisitInv
  <1>9. ASSUME WatchdogUnlock PROVE IInv'
    BY <1>9, OtherInv DEF WatchdogUnlock
  <1>10. ASSUME Tick PROVE IInv'
    BY <1>10, OtherInv DEF Tick
  <1>11. ASSUME UNCHANGED vars PROVE IInv'
    BY <1>11, OtherInv DEF vars
  <1> QED BY <1>1, <1>2, <1>3, <1>4, <1>5, <1>6, <1>7, <1>8, <1>9, <1>10, <1>11
          DEF Next, Watchdog

\* The table is consistent, the flags of its entries are opposite and the clock the
\* watchdog read is in the past, in every reachable state.
THEOREM Invariance == Spec => []IInv
  BY InitIInv, NextIInv, PTL DEF Spec

\* Every variable keeps to its type.
THEOREM TypeCorrect == Spec => []TypeOK
  <1>1. IInv => TypeOK
    BY DEF IInv
  <1> QED BY <1>1, Invariance, PTL

\* A node has one entry and the used entries come first.
THEOREM TableIsConsistent == Spec => []TableConsistent
  <1>1. IInv => TableConsistent
    BY DEF IInv
  <1> QED BY <1>1, Invariance, PTL

\* The two flags of an entry stay opposite, so that the test of inactive_alerted in
\* the watchdog can never suppress an alert.
THEOREM FlagsOpposite == Spec => []ActiveIffNotAlerted
  <1>1. IInv => ActiveIffNotAlerted
    BY DEF IInv, ActiveIffNotAlerted, EntryOK
  <1> QED BY <1>1, Invariance, PTL

----------------------------------------------------------------------------
(* The watchdog is right about the nodes it marks. *)

\* The step property behind MarkedInactiveRightly.
MarkStep ==
  \A i \in Slots :
    g_nodes[i].active /\ ~g_nodes'[i].active =>
      \/ wdPc # "sweep" /\ UNCHANGED alertVars
      \/ /\ now - g_nodes[i].last_seen > InactiveAfter
         /\ alerts_total' = alerts_total + 1
         /\ g_nodes'[i].alerts = g_nodes[i].alerts + 1
         /\ g_alerts'[g_alert_head] = [node |-> g_nodes[i].id, type |-> "NODE_INACTIVE"]

\* REGISTER and telemetry only make nodes active.
LEMMA TalkKeepsActive ==
  ASSUME IInv, NEW id \in Ids, NEW i \in Slots, g_nodes[i].active,
         \/ Register(id)
         \/ \E seq \in Nat, var \in VarNames, value \in Int : Telemetry(id, seq, var, value)
  PROVE  g_nodes'[i].active
  <1>1. now \in Nat /\ g_nodes \in [Slots -> NodeEntry] /\ TypeOK
    BY DEF IInv, TypeOK
  <1>2. CASE Register(id)
    <2>1. g_nodes[i].used
      BY DEF IInv, EntryOK
    <2>2. \A j \in Slots : Enrolled(g_nodes[j]).active
      BY <1>1, EnrolledTyped
    <2>3. \A j \in FindNode(g_nodes, id) : j \in Slots
      BY FindNodeFacts
    <2>4. \A j \in FreeSlot : j # i
      BY <2>1 DEF FreeSlot, First
    <2>5. \/ \E j \in FindNode(g_nodes, id) : g_nodes' = [g_nodes EXCEPT ![j] = Enrolled(g_nodes[j])]
          \/ \E j \in FreeSlot : g_nodes' = [g_nodes EXCEPT ![j] = Enlisted(id)]
      BY <1>2 DEF Register
    <2>6. CASE \E j \in FindNode(g_nodes, id) : g_nodes' = [g_nodes EXCEPT ![j] = Enrolled(g_nodes[j])]
      BY <1>1, <2>2, <2>3, <2>6
    <2>7. CASE \E j \in FreeSlot : g_nodes' = [g_nodes EXCEPT ![j] = Enlisted(id)]
      BY <1>1, <2>4, <2>7
    <2> QED BY <2>5, <2>6, <2>7
  <1>3. CASE \E seq \in Nat, var \in VarNames, value \in Int : Telemetry(id, seq, var, value)
    <2>1. PICK seq \in Nat, var \in VarNames, value \in Int : Telemetry(id, seq, var, value)
      BY <1>3
    <2> DEFINE m(j) == Reported(g_nodes[j], seq, var, value)
               tab(j) == [g_nodes EXCEPT ![j] = m(j)]
    <2>2. PICK j \in FindNode(g_nodes, id) :
            \/ g_nodes' = tab(j)
            \/ \E type \in AlertTypes(var, value) : AddAlert(tab(j), id, type)
      BY <2>1 DEF Telemetry
    <2>3. j \in Slots /\ g_nodes[j] \in NodeEntry
      BY <1>1, FindNodeFacts
    <2>4. m(j) \in NodeEntry /\ m(j).active
      <3>1. m(j) \in NodeEntry /\ SameKeyAndFlags(m(j), Alive(g_nodes[j]))
        BY <1>1, <2>3, ReportedTyped
      <3> HIDE DEF m
      <3>2. Alive(g_nodes[j]).active = TRUE
        BY <2>3, AliveFlags
      <3> QED BY <3>1, <3>2 DEF SameKeyAndFlags
    <2> HIDE DEF m
    <2>5. tab(j) \in [Slots -> NodeEntry] /\ tab(j)[i].active
      BY <1>1, <2>3, <2>4
    <2> HIDE DEF tab
    <2>6. CASE g_nodes' = tab(j)
      BY <2>5, <2>6
    <2>7. CASE \E type \in AlertTypes(var, value) : AddAlert(tab(j), id, type)
      <3>1. PICK type \in Types : AddAlert(tab(j), id, type)
        BY <2>7, AlertTypesTyped
      <3>2. SameKeyAndFlags(g_nodes'[i], tab(j)[i])
        BY <1>1, <2>5, <3>1, AddAlertFacts
      <3> QED BY <2>5, <3>2 DEF SameKeyAndFlags
    <2> QED BY <2>2, <2>6, <2>7
  <1> QED BY <1>2, <1>3

\* The entry a marking visit changes, and how.
LEMMA MarkFacts ==
  ASSUME IInv, wdPos \in Slots, TimedOut(g_nodes[wdPos]), TableOK(MarkedTable),
         AddAlert(MarkedTable, g_nodes[wdPos].id, "NODE_INACTIVE")
  PROVE  /\ g_nodes[wdPos].active /\ ~g_nodes'[wdPos].active
         /\ \A i \in Slots : i # wdPos => g_nodes'[i].active = g_nodes[i].active
         /\ now - g_nodes[wdPos].last_seen > InactiveAfter
         /\ alerts_total' = alerts_total + 1
         /\ g_nodes'[wdPos].alerts = g_nodes[wdPos].alerts + 1
         /\ g_alerts'[g_alert_head] = [node |-> g_nodes[wdPos].id, type |-> "NODE_INACTIVE"]
  <1> DEFINE n == g_nodes[wdPos]
  <1>1. n \in NodeEntry /\ g_nodes \in [Slots -> NodeEntry] /\ TypeOK
    BY DEF IInv, TypeOK
  <1>2. n.used /\ n.active /\ n.id \in Ids /\ "NODE_INACTIVE" \in Types
    BY DEF TimedOut, IInv, EntryOK, Types
  <1>3. now - n.last_seen > InactiveAfter
    <2>1. n.last_seen \in Nat /\ now \in Nat /\ wdNow \in Nat /\ wdNow <= now
      BY <1>1 DEF NodeEntry, TypeOK, IInv, ClockReadEarlier
    <2>2. wdNow - n.last_seen > InactiveAfter /\ InactiveAfter \in Nat
      BY ServerAssumption DEF TimedOut
    <2> QED BY <2>1, <2>2
  <1>4. /\ MarkedTable \in [Slots -> NodeEntry]
        /\ MarkedTable[wdPos] = Marked(n)
        /\ \A i \in Slots : i # wdPos => MarkedTable[i] = g_nodes[i]
    BY <1>1 DEF MarkedTable, TableOK
  <1>5. /\ Marked(n).used = n.used /\ Marked(n).id = n.id
        /\ Marked(n).active = FALSE /\ Marked(n).alerts = n.alerts
    BY <1>1 DEF Marked, NodeEntry
  <1>6. FindNode(MarkedTable, n.id) = {wdPos}
    <2>1. \A j \in Slots : MarkedTable[j].used = g_nodes[j].used /\ MarkedTable[j].id = g_nodes[j].id
      BY DEF TableOK
    <2>2. MarkedTable[wdPos].used
      BY <1>2, <2>1
    <2>3. \A j \in Slots : MarkedTable[j].used /\ MarkedTable[j].id = MarkedTable[wdPos].id => j = wdPos
      BY <1>2, <2>1 DEF IInv, TableConsistent
    <2>4. FindNode(MarkedTable, MarkedTable[wdPos].id) = {wdPos}
      BY <2>2, <2>3, FindNodeHit
    <2> QED BY <2>1, <2>4
  <1>7. /\ \A i \in Slots : SameKeyAndFlags(g_nodes'[i], MarkedTable[i])
        /\ \A i \in FindNode(MarkedTable, n.id) : g_nodes'[i].alerts = MarkedTable[i].alerts + 1
        /\ g_alerts'[g_alert_head] = [node |-> n.id, type |-> "NODE_INACTIVE"]
        /\ alerts_total' = alerts_total + 1
    BY <1>1, <1>2, <1>4, AddAlertFacts
  <1>8. ~g_nodes'[wdPos].active /\ g_nodes'[wdPos].alerts = n.alerts + 1
    BY <1>4, <1>5, <1>6, <1>7 DEF SameKeyAndFlags
  <1>9. \A i \in Slots : i # wdPos => g_nodes'[i].active = g_nodes[i].active
    BY <1>4, <1>7 DEF SameKeyAndFlags
  <1> QED BY <1>2, <1>3, <1>7, <1>8, <1>9

\* Every step that makes a node inactive does so rightly.
LEMMA NextMarkStep == IInv /\ [Next]_vars => MarkStep
  <1> SUFFICES ASSUME IInv, [Next]_vars,
                      NEW i \in Slots, g_nodes[i].active, ~g_nodes'[i].active
               PROVE  \/ wdPc # "sweep" /\ UNCHANGED alertVars
                      \/ /\ now - g_nodes[i].last_seen > InactiveAfter
                         /\ alerts_total' = alerts_total + 1
                         /\ g_nodes'[i].alerts = g_nodes[i].alerts + 1
                         /\ g_alerts'[g_alert_head] =
                              [node |-> g_nodes[i].id, type |-> "NODE_INACTIVE"]
    BY DEF MarkStep
  <1>1. ASSUME NEW id \in Ids, Register(id) PROVE FALSE
    BY <1>1, TalkKeepsActive
  <1>2. ASSUME NEW id \in Ids, Bye(id) PROVE wdPc # "sweep" /\ UNCHANGED alertVars
    BY <1>2 DEF Bye, MutexFree
  <1>3. ASSUME NEW id \in Ids, NEW seq \in 0 .. MaxSeq, NEW r \in Readings,
               Telemetry(id, seq, r[1], r[2])
        PROVE  FALSE
    <2>1. seq \in Nat /\ r[1] \in VarNames /\ r[2] \in Int
      BY ServerAssumption
    <2> QED BY <1>3, <2>1, TalkKeepsActive
  <1>4. ASSUME WatchdogVisit
        PROVE  /\ now - g_nodes[i].last_seen > InactiveAfter
               /\ alerts_total' = alerts_total + 1
               /\ g_nodes'[i].alerts = g_nodes[i].alerts + 1
               /\ g_alerts'[g_alert_head] = [node |-> g_nodes[i].id, type |-> "NODE_INACTIVE"]
    <2>1. /\ wdPos \in Slots /\ TableOK(MarkedTable) /\ TimedOut(g_nodes[wdPos])
          /\ AddAlert(MarkedTable, g_nodes[wdPos].id, "NODE_INACTIVE")
      BY <1>4, VisitCases
    <2> QED BY <2>1, MarkFacts
  <1>5. ASSUME UNCHANGED g_nodes PROVE FALSE
    BY <1>5
  <1> QED BY <1>1, <1>2, <1>3, <1>4, <1>5
          DEF Next, Watchdog, TelemetryRejected, TelemetryInvalid, WatchdogWake,
              WatchdogLock, WatchdogUnlock, Tick, vars

\* A node becomes inactive by its BYE, silently, or because it has really been silent
\* for longer than InactiveAfter, and then it gets exactly one alert.
THEOREM MarkedRightly == Spec => MarkedInactiveRightly
  <1>1. IInv /\ [Next]_vars => [MarkStep]_vars
    BY NextMarkStep
  <1>2. MarkedInactiveRightly <=> [][MarkStep]_vars
    BY PTL DEF MarkedInactiveRightly, MarkStep
  <1> QED BY <1>1, <1>2, Invariance, PTL DEF Spec

\* Every alert raised during a sweep comes with a node becoming inactive.
LEMMA NextSweepAlerts ==
  ASSUME IInv, [Next]_vars, wdPc = "sweep", alerts_total' # alerts_total
  PROVE  \E i \in Slots : g_nodes[i].active /\ ~g_nodes'[i].active
  <1>1. WatchdogVisit
    BY DEF Next, Watchdog, vars, Register, Bye, Telemetry, TelemetryRejected,
           TelemetryInvalid, WatchdogWake, WatchdogLock, WatchdogUnlock, Tick,
           MutexFree, alertVars
  <1>2. /\ wdPos \in Slots /\ TableOK(MarkedTable) /\ TimedOut(g_nodes[wdPos])
        /\ AddAlert(MarkedTable, g_nodes[wdPos].id, "NODE_INACTIVE")
    BY <1>1, VisitCases DEF alertVars
  <1> QED BY <1>2, MarkFacts

\* A sweep reports only nodes it marks inactive in that very step, so no node is
\* reported twice in one silence nor after its BYE.
THEOREM SweepReportsOnce == Spec => SweepAlertsOnce
  <1>1. IInv /\ [Next]_vars =>
          [wdPc = "sweep" /\ alerts_total' # alerts_total =>
             \E i \in Slots : g_nodes[i].active /\ ~g_nodes'[i].active]_vars
    BY NextSweepAlerts
  <1> QED BY <1>1, Invariance, PTL DEF Spec, SweepAlertsOnce

----------------------------------------------------------------------------
(* The watchdog is right about the nodes it leaves alone. *)

\* No entry behind the sweep belongs to an active node that had been silent for too long
\* when the watchdog read the clock.
SweptSoFar ==
  wdPc = "sweep" => \A i \in Slots : i < wdPos => ~TimedOut(g_nodes[i])

\* A visit deals with its own entry and does not reactivate any other.
LEMMA VisitSweeps ==
  ASSUME IInv, SweptSoFar, WatchdogVisit
  PROVE  SweptSoFar'
  <1>1. wdPc = "sweep" /\ wdPos' = wdPos + 1 /\ wdNow' = wdNow /\ wdPos \in Nat /\ MaxNodes \in Nat
    BY ServerAssumption DEF WatchdogVisit, IInv, TypeOK
  <1>2. \A i \in Slots : i \in Int
    BY DEF Slots
  <1>3. CASE UNCHANGED <<g_nodes, alertVars>>
    <2>1. ~TimedOut(g_nodes[wdPos])
      <3>1. TimedOut(g_nodes[wdPos]) => g_nodes' # g_nodes
        <4> SUFFICES ASSUME TimedOut(g_nodes[wdPos]) PROVE g_nodes' # g_nodes
          OBVIOUS
        <4>1. wdPos \in Slots /\ g_nodes[wdPos].active /\ g_nodes[wdPos].used
              /\ g_nodes[wdPos] \in NodeEntry
          BY VisitCases DEF TimedOut, IInv, TypeOK
        <4>2. ~g_nodes[wdPos].inactive_alerted
          BY <4>1 DEF IInv, EntryOK
        <4>3. AddAlert(MarkedTable, g_nodes[wdPos].id, "NODE_INACTIVE")
          BY <4>2 DEF WatchdogVisit, MarkedTable
        <4>4. ~g_nodes'[wdPos].active
          BY <4>1, <4>3, MarkFacts, VisitCases
        <4> QED BY <4>1, <4>4
      <3> QED BY <1>3, <3>1
    <2> QED BY <1>1, <1>2, <1>3, <2>1 DEF SweptSoFar, TimedOut
  <1>4. CASE /\ TimedOut(g_nodes[wdPos])
             /\ AddAlert(MarkedTable, g_nodes[wdPos].id, "NODE_INACTIVE")
    <2>1. wdPos \in Slots
      BY VisitCases
    <2>2. ASSUME NEW i \in Slots, i < wdPos + 1 PROVE ~TimedOut(g_nodes[i])'
      <3>1. g_nodes \in [Slots -> NodeEntry]
        BY DEF IInv, TypeOK
      <3>2. MarkedTable[i] \in NodeEntry /\ (i # wdPos => MarkedTable[i] = g_nodes[i])
            /\ (i = wdPos => ~MarkedTable[i].active)
        BY <2>1, <3>1 DEF MarkedTable, Marked, NodeEntry
      <3>3. /\ g_nodes'[i].used = MarkedTable[i].used
            /\ g_nodes'[i].active = MarkedTable[i].active
            /\ g_nodes'[i].last_seen = MarkedTable[i].last_seen
        BY <1>4, <3>2 DEF AddAlert, NodeEntry
      <3>4. CASE i = wdPos
        BY <3>2, <3>3, <3>4 DEF TimedOut
      <3>5. CASE i # wdPos
        <4>1. i < wdPos
          BY <1>1, <1>2, <2>2, <3>5
        <4> QED BY <1>1, <3>2, <3>3, <3>5, <4>1 DEF SweptSoFar, TimedOut
      <3> QED BY <3>4, <3>5
    <2> QED BY <1>1, <2>2 DEF SweptSoFar
  <1> QED BY <1>3, <1>4, VisitCases

LEMMA NextSwept == IInv /\ SweptSoFar /\ [Next]_vars => SweptSoFar'
  <1> SUFFICES ASSUME IInv, SweptSoFar, [Next]_vars PROVE SweptSoFar'
    OBVIOUS
  <1>1. CASE WatchdogVisit
    BY <1>1, VisitSweeps
  <1>2. CASE WatchdogLock
    <2>1. wdPos' = 0 /\ \A i \in Slots : ~(i < 0)
      BY <1>2 DEF WatchdogLock, Slots
    <2> QED BY <2>1 DEF SweptSoFar
  <1>3. CASE WatchdogWake \/ WatchdogUnlock
    BY <1>3 DEF WatchdogWake, WatchdogUnlock, SweptSoFar
  <1>4. CASE Tick \/ UNCHANGED vars
    BY <1>4 DEF Tick, vars, wdVars, SweptSoFar, TimedOut
  <1>5. ASSUME ~WatchdogVisit, ~WatchdogLock, ~WatchdogWake, ~WatchdogUnlock, ~Tick,
               ~UNCHANGED vars
        PROVE  wdPc' # "sweep"
    BY <1>5 DEF Next, Watchdog, Register, Bye, Telemetry, TelemetryRejected, TelemetryInvalid,
                MutexFree, wdVars
  <1> QED BY <1>1, <1>2, <1>3, <1>4, <1>5 DEF SweptSoFar

\* When the watchdog gives the mutex back, no node is active that had been silent for more
\* than InactiveAfter when it read the clock: whatever nodes and operators did since then, a
\* sweep misses nobody.
THEOREM SweepMissesNobody ==
  Spec => [][WatchdogUnlock => \A i \in Slots : ~TimedOut(g_nodes[i])]_vars
  <1>1. Init => SweptSoFar
    BY DEF Init, SweptSoFar
  <1>2. ASSUME SweptSoFar, WatchdogUnlock, NEW i \in Slots PROVE ~TimedOut(g_nodes[i])
    <2>1. i < wdPos
      BY <1>2, ServerAssumption DEF WatchdogUnlock, Slots
    <2> QED BY <1>2, <2>1 DEF SweptSoFar, WatchdogUnlock
  <1>3. SweptSoFar /\ [Next]_vars
          => [WatchdogUnlock => \A i \in Slots : ~TimedOut(g_nodes[i])]_vars
    BY <1>2
  <1> QED BY <1>1, <1>3, NextSwept, Invariance, PTL DEF Spec

----------------------------------------------------------------------------
(* The ring implements AlertLog. *)

\* Where the k-th newest alert is.
Pos(head, k) == (head - k + MaxAlerts) % MaxAlerts

\* Before an alert is written at head, the k-th newest is away from head and is the
\* (k+1)-st newest afterwards.
LEMMA PosShift ==
  ASSUME NEW head \in RingSlots, NEW k \in 1 .. MaxAlerts
  PROVE  LET head2 == (head + 1) % MaxAlerts
         IN /\ Pos(head2, 1) = head
            /\ Pos(head, k) \in RingSlots
            /\ k < MaxAlerts => Pos(head2, k + 1) = Pos(head, k) /\ Pos(head, k) # head
  <1>1. MaxAlerts \in Nat \ {0} /\ head \in 0 .. MaxAlerts - 1
    BY ServerAssumption DEF RingSlots
  <1> DEFINE head2 == (head + 1) % MaxAlerts
  <1>2. head2 = IF head + 1 < MaxAlerts THEN head + 1 ELSE 0
    BY <1>1, NextRingSlot
  <1> HIDE DEF head2
  <1>3. ASSUME NEW h \in 0 .. MaxAlerts - 1, NEW j \in 1 .. MaxAlerts
        PROVE  Pos(h, j) = IF h < j THEN h - j + MaxAlerts ELSE h - j
    <2> DEFINE x == h - j + MaxAlerts
    <2>1. x \in Int /\ 0 <= x /\ x < 2 * MaxAlerts
      BY <1>1
    <2>2. x < MaxAlerts <=> h < j
      BY <1>1
    <2>3. x - MaxAlerts = h - j
      BY <1>1
    <2> HIDE DEF x
    <2>4. x % MaxAlerts = IF x < MaxAlerts THEN x ELSE x - MaxAlerts
      BY <1>1, <2>1, ModOnce
    <2>5. Pos(h, j) = x % MaxAlerts
      BY DEF Pos, x
    <2>6. Pos(h, j) = IF h < j THEN x ELSE h - j
      BY <2>2, <2>3, <2>4, <2>5
    <2> QED BY <2>6 DEF x
  <1>4. head2 \in 0 .. MaxAlerts - 1
    BY <1>1, <1>2
  <1>5. Pos(head2, 1) = head
    BY <1>1, <1>2, <1>3, <1>4
  <1>6. Pos(head, k) = IF head < k THEN head - k + MaxAlerts ELSE head - k
    BY <1>1, <1>3
  <1>7. Pos(head, k) \in RingSlots /\ (k < MaxAlerts => Pos(head, k) # head)
    BY <1>1, <1>6 DEF RingSlots
  <1>8. ASSUME k < MaxAlerts PROVE Pos(head2, k + 1) = Pos(head, k)
    <2>1. k + 1 \in 1 .. MaxAlerts
      BY <1>1, <1>8
    <2>2. Pos(head2, k + 1) = IF head2 < k + 1 THEN head2 - (k + 1) + MaxAlerts ELSE head2 - (k + 1)
      BY <1>3, <1>4, <2>1
    <2> QED BY <1>1, <1>2, <1>6, <1>8, <2>2
  <1> QED BY <1>5, <1>7, <1>8 DEF head2

\* The snapshot of the whole ring has g_alert_count alerts.
LEMMA SnapshotFacts ==
  ASSUME TypeOK
  PROVE  /\ AlertsSnapshot(MaxAlerts) =
              [k \in 1 .. g_alert_count |-> g_alerts[Pos(g_alert_head, k)]]
         /\ Len(AlertsSnapshot(MaxAlerts)) = g_alert_count
  <1>1. MaxAlerts \in Nat \ {0} /\ g_alert_count \in Nat /\ g_alert_count <= MaxAlerts
    BY ServerAssumption DEF TypeOK
  <1>2. (IF g_alert_count < MaxAlerts THEN g_alert_count ELSE MaxAlerts) = g_alert_count
    BY <1>1
  <1>3. AlertsSnapshot(MaxAlerts) =
          [k \in 1 .. g_alert_count |-> g_alerts[Pos(g_alert_head, k)]]
    BY <1>2 DEF AlertsSnapshot, Pos
  <1>4. ASSUME NEW k \in 1 .. g_alert_count
        PROVE  g_alerts[Pos(g_alert_head, k)] \in Alert \cup {NoAlert}
    <2>1. k \in 1 .. MaxAlerts
      BY <1>1
    <2>2. Pos(g_alert_head, k) \in RingSlots
      BY <2>1, PosShift DEF TypeOK
    <2> QED BY <2>2 DEF TypeOK
  <1>5. AlertsSnapshot(MaxAlerts) \in Seq(Alert \cup {NoAlert})
    BY <1>1, <1>3, <1>4
  <1>6. DOMAIN AlertsSnapshot(MaxAlerts) = 1 .. g_alert_count
    BY <1>3
  <1>7. Len(AlertsSnapshot(MaxAlerts)) = g_alert_count
    BY <1>1, <1>5, <1>6
  <1> QED BY <1>3, <1>7

\* Writing one alert in the ring is one Raise of the abstract log.
LEMMA AddAlertRaises ==
  ASSUME TypeOK, TypeOK', NEW tab, NEW id \in Ids, NEW type \in Types,
         AddAlert(tab, id, type)
  PROVE  Log!Next
  <1> DEFINE a == [node |-> id, type |-> type]
  <1>1. a \in Alert
    BY DEF Alert
  <1> HIDE DEF a
  <1>2. /\ g_alerts' = [g_alerts EXCEPT ![g_alert_head] = a]
        /\ g_alert_head' = (g_alert_head + 1) % MaxAlerts
        /\ g_alert_count' = IF g_alert_count < MaxAlerts THEN g_alert_count + 1
                                                         ELSE g_alert_count
    BY DEF AddAlert, a
  <1>3. /\ g_alerts \in [RingSlots -> Alert \cup {NoAlert}]
        /\ g_alert_head \in RingSlots
        /\ g_alert_count \in Nat /\ g_alert_count <= MaxAlerts
        /\ MaxAlerts \in Nat \ {0}
    BY ServerAssumption DEF TypeOK
  <1> DEFINE old == AlertsSnapshot(MaxAlerts)
             new == [k \in 1 .. g_alert_count' |-> g_alerts'[Pos(g_alert_head', k)]]
  <1>4. /\ old = [k \in 1 .. g_alert_count |-> g_alerts[Pos(g_alert_head, k)]]
        /\ Len(old) = g_alert_count
    BY SnapshotFacts
  <1>5. AlertsSnapshot(MaxAlerts)' = new
    <2>1. (IF g_alert_count' < MaxAlerts THEN g_alert_count' ELSE MaxAlerts) = g_alert_count'
      BY <1>2, <1>3
    <2> QED BY <2>1 DEF AlertsSnapshot, Pos
  <1> HIDE DEF old
  <1>6. ASSUME NEW k \in 1 .. g_alert_count'
        PROVE  g_alerts'[Pos(g_alert_head', k)] = IF k = 1 THEN a ELSE old[k - 1]
    <2>1. CASE k = 1
      <3>1. 1 \in 1 .. MaxAlerts
        BY <1>3
      <3>2. Pos(g_alert_head', 1) = g_alert_head
        BY <1>2, <1>3, <3>1, PosShift
      <3> QED BY <1>2, <1>3, <2>1, <3>2
    <2>2. CASE k # 1
      <3> DEFINE j == k - 1
      <3>1. /\ j \in 1 .. MaxAlerts /\ j < MaxAlerts /\ k = j + 1
            /\ j \in 1 .. g_alert_count
        BY <1>2, <1>3, <2>2
      <3> HIDE DEF j
      <3>2. /\ Pos(g_alert_head, j) \in RingSlots
            /\ Pos((g_alert_head + 1) % MaxAlerts, j + 1) = Pos(g_alert_head, j)
            /\ Pos(g_alert_head, j) # g_alert_head
        BY <1>3, <3>1, PosShift
      <3>3. g_alerts'[Pos(g_alert_head', k)] = g_alerts[Pos(g_alert_head, j)]
        BY <1>2, <1>3, <3>1, <3>2
      <3>4. old[j] = g_alerts[Pos(g_alert_head, j)]
        BY <1>4, <3>1
      <3>5. k # 1 => old[k - 1] = old[j]
        BY DEF j
      <3> QED BY <2>2, <3>3, <3>4, <3>5
    <2> QED BY <2>1, <2>2
  <1>7. new = [k \in 1 .. g_alert_count' |-> IF k = 1 THEN a ELSE old[k - 1]]
    BY <1>6
  <1>8. Log!Remember(a) = [k \in 1 .. g_alert_count' |-> IF k = 1 THEN a ELSE old[k - 1]]
    <2>1. Log!Remember(a) =
            [k \in 1 .. (IF Len(old) < MaxAlerts THEN Len(old) + 1 ELSE MaxAlerts) |->
               IF k = 1 THEN a ELSE old[k - 1]]
      BY DEF Log!Remember, old
    <2>2. (IF Len(old) < MaxAlerts THEN Len(old) + 1 ELSE MaxAlerts) = g_alert_count'
      BY <1>2, <1>3, <1>4
    <2> QED BY <2>1, <2>2
  <1>9. Log!Raise(a)
    BY <1>5, <1>7, <1>8 DEF Log!Raise
  <1> QED BY <1>1, <1>9 DEF Log!Next

\* Every step of the server is a step of the log or leaves it alone.
LEMMA NextRefinesLog ==
  ASSUME IInv, IInv', [Next]_vars
  PROVE  [Log!Next]_(AlertsSnapshot(MaxAlerts))
  <1>1. ASSUME UNCHANGED alertVars PROVE UNCHANGED AlertsSnapshot(MaxAlerts)
    BY <1>1 DEF AlertsSnapshot, alertVars
  <1>2. TypeOK /\ TypeOK'
    BY DEF IInv
  <1>3. ASSUME NEW tab, NEW id \in Ids, NEW type \in Types, AddAlert(tab, id, type)
        PROVE  Log!Next
    BY <1>2, <1>3, AddAlertRaises
  <1>4. ASSUME NEW id \in Ids, NEW seq, NEW r, Telemetry(id, seq, r[1], r[2])
        PROVE  UNCHANGED alertVars \/ Log!Next
    <2>1. \/ UNCHANGED alertVars
          \/ \E tab : \E type \in AlertTypes(r[1], r[2]) : AddAlert(tab, id, type)
      BY <1>4 DEF Telemetry
    <2> QED BY <2>1, <1>3, AlertTypesTyped
  <1>5. ASSUME WatchdogVisit PROVE UNCHANGED alertVars \/ Log!Next
    <2>1. CASE UNCHANGED alertVars
      BY <2>1
    <2>2. CASE /\ TimedOut(g_nodes[wdPos])
               /\ AddAlert(MarkedTable, g_nodes[wdPos].id, "NODE_INACTIVE")
      <3>1. g_nodes[wdPos].id \in Ids /\ "NODE_INACTIVE" \in Types
        BY <1>5, <2>2, VisitCases DEF TimedOut, IInv, EntryOK, Types
      <3> QED BY <1>3, <2>2, <3>1
    <2> QED BY <1>5, <2>1, <2>2, VisitCases
  <1>6. UNCHANGED alertVars \/ Log!Next
    BY <1>4, <1>5
       DEF Next, Watchdog, Register, Bye, TelemetryRejected, TelemetryInvalid, WatchdogWake,
           WatchdogLock, WatchdogUnlock, Tick, vars
  <1> QED BY <1>1, <1>6

\* GET_ALERTS and the web page always see the newest alerts, newest first, none missing
\* and none repeated, whatever the size of the ring and however often it wrapped.
THEOREM ImplementsAlertLog == Spec => AlertLogSpec
  <1>1. Init => Log!Init
    <2> SUFFICES ASSUME Init PROVE AlertsSnapshot(MaxAlerts) = << >>
      BY DEF Log!Init
    <2>1. (IF g_alert_count < MaxAlerts THEN g_alert_count ELSE MaxAlerts) = 0
      BY ServerAssumption DEF Init
    <2>2. 1 .. 0 = {}
      OBVIOUS
    <2> QED BY <2>1, <2>2 DEF AlertsSnapshot
  <1>2. IInv /\ IInv' /\ [Next]_vars => [Log!Next]_(AlertsSnapshot(MaxAlerts))
    BY NextRefinesLog
  <1> QED BY <1>1, <1>2, Invariance, PTL DEF Spec, AlertLogSpec, Log!Spec
=============================================================================
