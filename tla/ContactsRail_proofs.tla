-------------------------- MODULE ContactsRail_proofs -----------------------
(***************************************************************************)
(* Theorems about ContactsRail, for any devices, relays, operations and    *)
(* bounds.                                                                 *)
(***************************************************************************)
EXTENDS ContactsRailRounds, TLAPS, FiniteSetTheorems, WellFoundedInduction

USE RailAssumption DEF RailAssumption

-----------------------------------------------------------------------------
(* The helpers.                                                            *)

LEMMA NothingType == \A t \in Tags : Nothing(t) \in Events
  BY DEF Nothing, Events

LEMMA ConstantsType ==
    NoFetch \in Fetches /\ Idle \in Cycles /\ NoRef \in Refs /\ NoMark \in Marks
  BY NothingType DEF NoFetch, Idle, NoRef, NoMark, CheckpointStates, Tags,
                     Fetches, Cycles, Refs, Marks

LEMMA MaxOfType == \A a, b \in Nat : MaxOf(a, b) \in Nat /\ MaxOf(a, b) >= a /\ MaxOf(a, b) >= b
  BY DEF MaxOf

LEMMA MergeIdsType == \A ids \in Seq(Devices), d \in Devices : MergeIds(ids, d) \in Seq(Devices)
  <1> SUFFICES ASSUME NEW ids \in Seq(Devices), NEW d \in Devices
               PROVE  MergeIds(ids, d) \in Seq(Devices)
    OBVIOUS
  <1> DEFINE all == IF d \in Listed(ids) THEN ids ELSE Append(ids, d)
             n   == Len(all)
  <1>1. all \in Seq(Devices) /\ n \in Nat
    OBVIOUS
  <1>2. CASE n <= MaxIds
    BY <1>1, <1>2 DEF MergeIds
  <1>3. CASE ~(n <= MaxIds)
    <2>1. n - MaxIds + 1 \in 1..n /\ n \in 1..n
      BY <1>1, <1>3
    <2>2. SubSeq(all, n - MaxIds + 1, n) \in Seq(Devices)
      BY <1>1, <2>1
    <2> QED
      BY <1>3, <2>2 DEF MergeIds
  <1> QED
    BY <1>2, <1>3

LEMMA NewestType ==
    ASSUME TypeOK, NEW R \in SUBSET Relays, NEW t \in Tags
    PROVE  /\ Newest(R, t) \subseteq Events
           /\ \A e \in Newest(R, t) : \E r \in Relays : e = held[r][t]
  BY DEF Newest, TypeOK

LEMMA AnsweringType == Answering \subseteq SUBSET Relays
  BY DEF Answering

-----------------------------------------------------------------------------
(* Types.                                                                  *)

LEMMA TypeInit == Init => TypeOK
  BY ConstantsType, NothingType DEF Init, TypeOK, Tags

LEMMA TypeNext == TypeOK /\ [Next]_vars => TypeOK'
  <1> SUFFICES ASSUME TypeOK, [Next]_vars PROVE TypeOK'
    OBVIOUS
  <1> USE DEF TypeOK, relayVars, storeVars, memoryVars, cycleVars
  <1>1. ASSUME NEW d \in Devices, Edit(d) PROVE TypeOK'
    BY <1>1 DEF Edit
  <1>2. ASSUME NEW d \in Devices, StartFetch(d), app' \in [Devices -> {"closed", "open"}],
               log' \in [Devices -> SUBSET Ops]
        PROVE  TypeOK'
    <2>1. [NoFetch EXCEPT !.pc = "probe", !.mark = seen[d]] \in Fetches
      BY ConstantsType DEF Fetches
    <2>2. high' \in [Devices -> Nat]
      BY <1>2, MaxOfType DEF StartFetch, Marks
    <2> QED
      BY <1>2, <2>1, <2>2 DEF StartFetch
  <1>3. ASSUME NEW d \in Devices, Open(d) PROVE TypeOK'
    BY <1>2, <1>3 DEF Open
  <1>4. ASSUME NEW d \in Devices, Retry(d) PROVE TypeOK'
    BY <1>2, <1>4 DEF Retry
  <1>5. ASSUME NEW d \in Devices, Refetch(d) PROVE TypeOK'
    <2>1. fetch[d].got \in SUBSET Ops
      BY DEF Fetches
    <2>2. log' \in [Devices -> SUBSET Ops]
      BY <1>5, <2>1 DEF Refetch
    <2> QED
      BY <1>2, <1>5, <2>2 DEF Refetch
  <1>6. ASSUME NEW d \in Devices, Close(d) PROVE TypeOK'
    BY <1>6, ConstantsType DEF Close
  <1>7. ASSUME NEW d \in Devices, Unreachable(d) PROVE TypeOK'
    BY <1>7, ConstantsType DEF Unreachable
  <1>8. ASSUME NEW d \in Devices, Probe(d) PROVE TypeOK'
    <2>1. PICK R \in Answering \ {{}} :
            \E c \in Newest(R, CheckpointTag), opened \in BOOLEAN :
               fetch' = [fetch EXCEPT ![d] = ProbeResult(d, c, opened)]
      BY <1>8 DEF Probe
    <2>2. PICK c \in Newest(R, CheckpointTag), opened \in BOOLEAN :
               fetch' = [fetch EXCEPT ![d] = ProbeResult(d, c, opened)]
      BY <2>1
    <2>3. c \in Events /\ Nothing(CheckpointTag) \in Events
      BY NewestType, AnsweringType, NothingType DEF Tags
    <2>4. MergeIds(IF opened THEN c.ids ELSE <<>>, d) \in Seq(Devices)
      <3>1. c.ids \in Seq(Devices) /\ <<>> \in Seq(Devices)
        BY <2>3 DEF Events
      <3>2. (IF opened THEN c.ids ELSE <<>>) \in Seq(Devices)
        BY <3>1
      <3> QED
        BY <3>2, MergeIdsType
    <2>5. ProbeResult(d, c, opened) \in Fetches
      BY <2>3, <2>4 DEF ProbeResult, Verdict, CheckpointStates, Events, Fetches
    <2> QED
      BY <1>8, <2>2, <2>5 DEF Probe
  <1>9. ASSUME NEW d \in Devices, ReadOutbox(d) PROVE TypeOK'
    <2>1. PICK R \in Answering :
            \E add \in {e.ops : e \in Newest(R, Head(fetch[d].todo))}
                      \cup (IF R = {} \/ "opaque" \in Disturbances THEN {{}} ELSE {}) :
              fetch' = [fetch EXCEPT ![d].todo = Tail(@), ![d].got = @ \cup add]
      BY <1>9 DEF ReadOutbox
    <2>2. /\ fetch[d] \in Fetches
          /\ Head(fetch[d].todo) \in Tags /\ Tail(fetch[d].todo) \in Seq(Devices)
      BY <1>9 DEF ReadOutbox, Tags, Fetches
    <2>3. Newest(R, Head(fetch[d].todo)) \subseteq Events
      BY <2>2, NewestType, AnsweringType
    <2>4. PICK add \in SUBSET Ops :
            fetch' = [fetch EXCEPT ![d].todo = Tail(@), ![d].got = @ \cup add]
      <3>1. \A e \in Newest(R, Head(fetch[d].todo)) : e.ops \in SUBSET Ops
        BY <2>3 DEF Events
      <3>2. {e.ops : e \in Newest(R, Head(fetch[d].todo))}
              \cup (IF R = {} \/ "opaque" \in Disturbances THEN {{}} ELSE {}) \subseteq SUBSET Ops
        BY <3>1
      <3> QED
        BY <2>1, <3>2
    <2>5. [fetch[d] EXCEPT !.todo = Tail(@), !.got = @ \cup add] \in Fetches
      BY <2>2 DEF Fetches
    <2>6. fetch' = [fetch EXCEPT ![d] = [fetch[d] EXCEPT !.todo = Tail(@), !.got = @ \cup add]]
      BY <2>4
    <2> QED
      BY <1>9, <2>5, <2>6 DEF ReadOutbox
  <1>10. ASSUME NEW d \in Devices, Learn(d) PROVE TypeOK'
    <2> DEFINE c == fetch[d].found
    <2>1. fetch[d] \in Fetches /\ c \in Events
      BY DEF Fetches
    <2>2. ref' \in [Devices -> Refs]
      BY <1>10, <2>1, ConstantsType DEF Learn, Refs, NoRef, Events, CheckpointStates, Fetches
    <2>3. seen' \in [Devices -> Marks]
      BY <1>10, <2>1 DEF Learn, Marks, Events
    <2>4. high' \in [Devices -> Nat]
      BY <1>10, <2>1, MaxOfType DEF Learn, Events
    <2>5. [fetch[d] EXCEPT !.pc = "merge"] \in Fetches
      BY <2>1 DEF Fetches
    <2> QED
      BY <1>10, <2>2, <2>3, <2>4, <2>5 DEF Learn
  <1>11. ASSUME NEW d \in Devices, Merge(d) PROVE TypeOK'
    <2>1. fetch[d].got \in SUBSET Ops
      BY DEF Fetches
    <2> QED
      BY <1>11, <2>1, ConstantsType DEF Merge
  <1>12. ASSUME NEW d \in Devices, Fire(d) PROVE TypeOK'
    <2>1. [Idle EXCEPT !.pc = "read", !.ops = log[d]] \in Cycles
      BY ConstantsType DEF Cycles
    <2>2. timer' \in [Devices -> SUBSET {"effect", "rearm"}]
      BY <1>12 DEF Fire
    <2>3. cycle' = [cycle EXCEPT ![d] = [Idle EXCEPT !.pc = "read", !.ops = log[d]]]
            \/ UNCHANGED cycle
      BY <1>12 DEF Fire
    <2>4. pending' = [pending EXCEPT ![d] = TRUE] \/ UNCHANGED pending
      BY <1>12 DEF Fire
    <2>5. cycle' \in [Devices -> Cycles]
      BY <2>1, <2>3
    <2>6. pending' \in [Devices -> BOOLEAN]
      BY <2>4
    <2> QED
      BY <1>12, <2>2, <2>5, <2>6 DEF Fire
  <1>13. ASSUME NEW d \in Devices, NEW e \in Events, Send(d, e) PROVE TypeOK'
    <2>1. cycle' = [cycle EXCEPT ![d] = [cycle[d] EXCEPT !.pc = "sent", !.event = e]]
      BY <1>13 DEF Send
    <2>2. [cycle[d] EXCEPT !.pc = "sent", !.event = e] \in Cycles
      <3>1. cycle[d] \in Cycles
        OBVIOUS
      <3> QED
        BY <3>1 DEF Cycles
    <2> QED
      BY <1>13, <2>1, <2>2 DEF Send, Mails
  <1>14. ASSUME NEW d \in Devices, Compact(d) PROVE TypeOK'
    <2>1. NextSeq(d) \in Nat
      <3>1. ref[d] \in Refs /\ high[d] \in Nat
        OBVIOUS
      <3>2. ref[d].seq \in Nat
        BY <3>1 DEF Refs
      <3>3. MaxOf(ref[d].seq, high[d]) \in Nat
        BY <3>1, <3>2, MaxOfType
      <3> QED
        BY <3>3 DEF NextSeq
    <2>2. MergeIds(ref[d].ids, d) \in Seq(Devices)
      BY MergeIdsType DEF Refs
    <2>3. [tag |-> CheckpointTag, seq |-> NextSeq(d), ids |-> MergeIds(ref[d].ids, d),
                ops |-> cycle[d].ops, base |-> ref[d].ops, stamp |-> now + 1] \in Events
      BY <2>1, <2>2 DEF Events, Tags, Refs, Cycles
    <2> QED
      BY <1>13, <1>14, <2>3 DEF Compact
  <1>15. ASSUME NEW d \in Devices, SendOutbox(d) PROVE TypeOK'
    <2>1. [tag |-> d, seq |-> 0, ids |-> <<>>, ops |-> Outbox(d), base |-> {},
                stamp |-> now + 1] \in Events
      BY DEF Events, Tags, Outbox, Cycles
    <2> QED
      BY <1>13, <1>15, <2>1 DEF SendOutbox
  <1>16. ASSUME NEW d \in Devices, NothingToSend(d) PROVE TypeOK'
    BY <1>16, ConstantsType DEF NothingToSend, EndCycle
  <1>17. ASSUME NEW d \in Devices, SendFails(d) PROVE TypeOK'
    BY <1>17, ConstantsType DEF SendFails, EndCycle
  <1>18. ASSUME NEW m \in wire, Arrive(m) PROVE TypeOK'
    <2>1. m.to \in Relays /\ m.from \in Devices /\ m.event \in Events /\ m.event.tag \in Tags
      BY <1>18 DEF Mails, Events
    <2>2. held' \in [Relays -> [Tags -> Events]]
      BY <1>18, <2>1 DEF Arrive
    <2>3. [cycle[m.from] EXCEPT !.landed = TRUE] \in Cycles
      <3>1. cycle[m.from] \in Cycles
        BY <2>1
      <3> QED
        BY <3>1 DEF Cycles
    <2>4. cycle' \in [Devices -> Cycles]
      BY <1>18, <2>1, <2>3 DEF Arrive
    <2> QED
      BY <1>18, <2>2, <2>4 DEF Arrive
  <1>19. ASSUME NEW d \in Devices, Confirmed(d) PROVE TypeOK'
    <2> DEFINE e == cycle[d].event
    <2>1. e \in Events
      BY DEF Cycles
    <2>2. [state |-> "present", seq |-> e.seq, ids |-> e.ids, ops |-> e.ops] \in Refs
      BY <2>1 DEF Refs, Events, CheckpointStates
    <2>3. e.seq \in Nat /\ e.ops \in SUBSET Ops
      BY <2>1 DEF Events
    <2> HIDE DEF e
    <2>4. cycle' \in [Devices -> Cycles] /\ timer' \in [Devices -> SUBSET {"effect", "rearm"}]
            /\ pending' \in [Devices -> BOOLEAN]
      BY <1>19, ConstantsType DEF Confirmed, EndCycle
    <2>5. ref' \in [Devices -> Refs] /\ high' \in [Devices -> Nat]
            /\ lastSent' \in [Devices -> SUBSET Ops]
      BY <1>19, <2>2, <2>3 DEF Confirmed, e
    <2> QED
      BY <1>19, <2>4, <2>5 DEF Confirmed
  <1>20. CASE UNCHANGED vars
    BY <1>20 DEF vars
  <1> QED
    BY <1>1, <1>3, <1>4, <1>5, <1>6, <1>7, <1>8, <1>9, <1>10, <1>11, <1>12, <1>14, <1>15,
       <1>16, <1>17, <1>18, <1>19, <1>20 DEF Next, Fetching, Publishing

(* Every variable keeps its type.                                          *)
THEOREM TypeCorrect == Spec => []TypeOK
  BY TypeInit, TypeNext, PTL DEF Spec

-----------------------------------------------------------------------------
(* Provenance.  Logs only grow, so what was in some log stays in some log; *)
(* each step then only has to draw on a log, the wire, a relay or a fetch. *)

LEMMA LogsGrow ==
    TypeOK /\ [Next]_vars => /\ \A d \in Devices : log[d] \subseteq log'[d]
                             /\ Authored \subseteq Authored'
  <1> SUFFICES ASSUME TypeOK, [Next]_vars PROVE \A d \in Devices : log[d] \subseteq log'[d]
    BY DEF Authored
  <1> USE DEF TypeOK
  <1> DEFINE Grows == \A e \in Devices : log[e] \subseteq log'[e]
  <1>1. ASSUME NEW d \in Devices, NEW S, log' = [log EXCEPT ![d] = log[d] \cup S] PROVE Grows
    BY <1>1
  <1>2. UNCHANGED log => Grows
    OBVIOUS
  <1>3. ASSUME NEW d \in Devices, Edit(d) PROVE Grows
    BY <1>1, <1>3 DEF Edit
  <1>4. ASSUME NEW d \in Devices, Refetch(d) PROVE Grows
    BY <1>1, <1>2, <1>4 DEF Refetch
  <1>5. ASSUME NEW d \in Devices, Merge(d) PROVE Grows
    BY <1>5 DEF Merge
  <1>6. ASSUME NEW d \in Devices, Open(d) \/ Retry(d) \/ Close(d) PROVE Grows
    BY <1>2, <1>6 DEF Open, Retry, Close, storeVars
  <1>7. ASSUME NEW d \in Devices, Unreachable(d) \/ Probe(d) \/ ReadOutbox(d) \/ Learn(d)
        PROVE  Grows
    BY <1>2, <1>7 DEF Unreachable, Probe, ReadOutbox, Learn, storeVars
  <1>8. ASSUME NEW d \in Devices, Publishing(d) \/ SendFails(d) PROVE Grows
    BY <1>2, <1>8 DEF Publishing, Fire, Compact, SendOutbox, Send, NothingToSend, Confirmed,
                      SendFails, storeVars
  <1>9. ASSUME NEW m \in wire, Arrive(m) PROVE Grows
    BY <1>2, <1>9 DEF Arrive, storeVars
  <1>10. ASSUME UNCHANGED vars PROVE Grows
    BY <1>2, <1>10 DEF vars, storeVars
  <1> HIDE DEF Grows, TypeOK
  <1>11. ASSUME NEW d \in Devices, Edit(d) \/ Open(d) \/ Retry(d) \/ Refetch(d) \/ Close(d)
                                    \/ Fetching(d) \/ Publishing(d) \/ SendFails(d)
         PROVE  Grows
    BY <1>3, <1>4, <1>5, <1>6, <1>7, <1>8, <1>11 DEF Fetching
  <1>12. ASSUME Next PROVE Grows
    BY <1>9, <1>11, <1>12 DEF Next
  <1>13. Grows
    BY <1>10, <1>12
  <1> QED
    BY <1>13 DEF Grows

LEMMA ProvenanceInit == Init => Provenance
  BY DEF Init, Provenance, Nothing, NoFetch, Idle

LEMMA ProvenanceNext == TypeOK /\ Provenance /\ [Next]_vars => Provenance'
  <1> SUFFICES ASSUME TypeOK, Provenance, [Next]_vars PROVE Provenance'
    OBVIOUS
  <1> DEFINE Drawn == /\ \A m \in wire' : m.event.ops \subseteq Authored
                      /\ \A r \in Relays, t \in Tags : held'[r][t].ops \subseteq Authored
                      /\ \A d \in Devices : /\ fetch'[d].got \subseteq Authored
                                            /\ cycle'[d].ops \subseteq Authored
  <1>1. SUFFICES Drawn
    BY LogsGrow DEF Provenance
  <1> USE DEF TypeOK, Provenance, relayVars, storeVars, memoryVars, cycleVars
  <1>2. \A d \in Devices : log[d] \subseteq Authored
    BY DEF Authored
  <1>3. ASSUME NEW d \in Devices, Edit(d) PROVE Drawn
    BY <1>3 DEF Edit
  <1>4. ASSUME NEW d \in Devices, StartFetch(d) PROVE Drawn
    BY <1>4, ConstantsType DEF StartFetch, NoFetch
  <1>5. ASSUME NEW d \in Devices, Open(d) \/ Retry(d) \/ Refetch(d) PROVE Drawn
    BY <1>4, <1>5 DEF Open, Retry, Refetch
  <1>6. ASSUME NEW d \in Devices, Close(d) PROVE Drawn
    BY <1>6 DEF Close, NoFetch, Idle
  <1>7. ASSUME NEW d \in Devices, Unreachable(d) PROVE Drawn
    BY <1>7 DEF Unreachable, NoFetch
  <1>8. ASSUME NEW d \in Devices, Probe(d) PROVE Drawn
    <2>1. PICK R \in Answering \ {{}} :
            \E c \in Newest(R, CheckpointTag), opened \in BOOLEAN :
               fetch' = [fetch EXCEPT ![d] = ProbeResult(d, c, opened)]
      BY <1>8 DEF Probe
    <2>2. PICK c \in Newest(R, CheckpointTag), opened \in BOOLEAN :
               fetch' = [fetch EXCEPT ![d] = ProbeResult(d, c, opened)]
      BY <2>1
    <2>3. PICK r \in Relays : c = held[r][CheckpointTag]
      <3>1. R \in SUBSET Relays /\ CheckpointTag \in Tags
        BY AnsweringType DEF Tags
      <3> QED
        BY <3>1, NewestType
    <2>4. c.ops \subseteq Authored
      BY <2>3 DEF Tags
    <2>5. ProbeResult(d, c, opened).got \subseteq Authored
      BY <2>4 DEF ProbeResult
    <2>6. \A e \in Devices : fetch'[e].got \subseteq Authored
      BY <2>2, <2>5
    <2> QED
      BY <1>8, <2>6 DEF Probe
  <1>9. ASSUME NEW d \in Devices, ReadOutbox(d) PROVE Drawn
    <2>1. PICK R \in Answering :
            \E add \in {e.ops : e \in Newest(R, Head(fetch[d].todo))}
                      \cup (IF R = {} \/ "opaque" \in Disturbances THEN {{}} ELSE {}) :
              fetch' = [fetch EXCEPT ![d].todo = Tail(@), ![d].got = @ \cup add]
      BY <1>9 DEF ReadOutbox
    <2>2. /\ fetch[d] \in Fetches
          /\ Head(fetch[d].todo) \in Tags
      BY <1>9 DEF ReadOutbox, Tags, Fetches
    <2>3. \A e \in Newest(R, Head(fetch[d].todo)) : e.ops \subseteq Authored
      BY <2>2, NewestType, AnsweringType
    <2>4. PICK add \in SUBSET Authored :
            fetch' = [fetch EXCEPT ![d].todo = Tail(@), ![d].got = @ \cup add]
      <3>1. {e.ops : e \in Newest(R, Head(fetch[d].todo))}
              \cup (IF R = {} \/ "opaque" \in Disturbances THEN {{}} ELSE {}) \subseteq SUBSET Authored
        BY <2>3
      <3> QED
        BY <2>1, <3>1
    <2>5. [fetch[d] EXCEPT !.todo = Tail(@), !.got = @ \cup add].got \subseteq Authored
      BY <2>2, <2>4 DEF Fetches
    <2>6. fetch' = [fetch EXCEPT ![d] = [fetch[d] EXCEPT !.todo = Tail(@), !.got = @ \cup add]]
      BY <2>4
    <2>7. \A e \in Devices : fetch'[e].got \subseteq Authored
      BY <2>5, <2>6
    <2> QED
      BY <1>9, <2>7 DEF ReadOutbox
  <1>10. ASSUME NEW d \in Devices, Learn(d) PROVE Drawn
    <2>1. fetch' = [fetch EXCEPT ![d] = [fetch[d] EXCEPT !.pc = "merge"]]
      BY <1>10 DEF Learn
    <2>2. [fetch[d] EXCEPT !.pc = "merge"].got = fetch[d].got
      <3>1. fetch[d] \in Fetches
        OBVIOUS
      <3> QED
        BY <3>1 DEF Fetches
    <2>3. \A e \in Devices : fetch'[e].got \subseteq Authored
      BY <2>1, <2>2
    <2> QED
      BY <1>10, <2>3 DEF Learn
  <1>11. ASSUME NEW d \in Devices, Merge(d) PROVE Drawn
    BY <1>11 DEF Merge, NoFetch
  <1>12. ASSUME NEW d \in Devices, Fire(d) PROVE Drawn
    <2>1. [Idle EXCEPT !.pc = "read", !.ops = log[d]].ops = log[d]
      BY DEF Idle
    <2>2. cycle' = [cycle EXCEPT ![d] = [Idle EXCEPT !.pc = "read", !.ops = log[d]]]
            \/ UNCHANGED cycle
      BY <1>12 DEF Fire
    <2>3. \A e \in Devices : cycle'[e].ops \subseteq Authored
      BY <1>2, <2>1, <2>2
    <2> QED
      BY <1>12, <2>3 DEF Fire
  <1>13. ASSUME NEW d \in Devices, NEW e, e.ops \subseteq Authored, Send(d, e) PROVE Drawn
    <2>1. cycle' = [cycle EXCEPT ![d] = [cycle[d] EXCEPT !.pc = "sent", !.event = e]]
      BY <1>13 DEF Send
    <2>2. [cycle[d] EXCEPT !.pc = "sent", !.event = e].ops = cycle[d].ops
      <3>1. cycle[d] \in Cycles
        OBVIOUS
      <3> QED
        BY <3>1 DEF Cycles
    <2>3. \A f \in Devices : cycle'[f].ops \subseteq Authored
      BY <2>1, <2>2
    <2> QED
      BY <1>13, <2>3 DEF Send
  <1>14. ASSUME NEW d \in Devices, Compact(d) PROVE Drawn
    BY <1>13, <1>14 DEF Compact
  <1>15. ASSUME NEW d \in Devices, SendOutbox(d) PROVE Drawn
    BY <1>13, <1>15 DEF SendOutbox, Outbox
  <1>16. ASSUME NEW d \in Devices, NothingToSend(d) \/ SendFails(d) \/ Confirmed(d) PROVE Drawn
    <2>1. cycle' = [cycle EXCEPT ![d] = Idle]
      BY <1>16 DEF NothingToSend, SendFails, Confirmed, EndCycle
    <2>2. UNCHANGED <<wire, held, fetch>>
      BY <1>16 DEF NothingToSend, SendFails, Confirmed
    <2> QED
      BY <2>1, <2>2 DEF Idle
  <1>17. ASSUME NEW m \in wire, Arrive(m) PROVE Drawn
    <2>1. m.to \in Relays /\ m.event.tag \in Tags /\ m.event.ops \subseteq Authored
      BY <1>17 DEF Mails, Events
    <2>2. \A r \in Relays, t \in Tags : held'[r][t].ops \subseteq Authored
      BY <1>17, <2>1 DEF Arrive
    <2>3. [cycle[m.from] EXCEPT !.landed = TRUE].ops = cycle[m.from].ops
      <3>1. m.from \in Devices /\ cycle[m.from] \in Cycles
        BY DEF Mails
      <3> QED
        BY <3>1 DEF Cycles
    <2>4. \A d \in Devices : cycle'[d].ops \subseteq Authored
      <3>1. cycle' = [cycle EXCEPT ![m.from] = [cycle[m.from] EXCEPT !.landed = TRUE]]
              \/ UNCHANGED cycle
        BY <1>17 DEF Arrive
      <3> QED
        BY <2>3, <3>1
    <2> QED
      BY <1>17, <2>2, <2>4 DEF Arrive
  <1>18. ASSUME UNCHANGED vars PROVE Drawn
    BY <1>18 DEF vars
  <1> HIDE DEF Drawn, TypeOK, Provenance
  <1>19. ASSUME NEW d \in Devices, Fetching(d) \/ Publishing(d) PROVE Drawn
    BY <1>7, <1>8, <1>9, <1>10, <1>11, <1>12, <1>14, <1>15, <1>16, <1>19
       DEF Fetching, Publishing
  <1>20. ASSUME Next PROVE Drawn
    BY <1>3, <1>5, <1>6, <1>16, <1>17, <1>19, <1>20 DEF Next
  <1> QED
    BY <1>18, <1>20

(* Whatever reaches a device comes from a log that still holds it.         *)
THEOREM ProvenanceHolds == Spec => []Provenance
  BY TypeCorrect, ProvenanceInit, ProvenanceNext, PTL DEF Spec

-----------------------------------------------------------------------------
(* The logs implement GrowOnlyLogs.                                        *)

LEMMA LogsStep == TypeOK /\ Provenance /\ [Next]_vars => [Logs!Next]_log
  <1> SUFFICES ASSUME TypeOK, Provenance, [Next]_vars PROVE [Logs!Next]_log
    OBVIOUS
  <1> USE DEF TypeOK
  <1> DEFINE Step == [Logs!Next]_log
  <1>1. Logs!Held = Authored
    BY DEF Logs!Held, Authored
  <1>2. ASSUME NEW d \in Devices, NEW S \in SUBSET Authored, log' = [log EXCEPT ![d] = @ \cup S]
        PROVE  Step
    BY <1>1, <1>2 DEF Logs!Next, Logs!Receive
  <1>3. UNCHANGED log => Step
    OBVIOUS
  <1>4. ASSUME NEW d \in Devices, Edit(d) PROVE Step
    BY <1>1, <1>4 DEF Edit, Logs!Next, Logs!Author, Authored
  <1>5. ASSUME NEW d \in Devices, Refetch(d) PROVE Step
    BY <1>2, <1>3, <1>5 DEF Refetch, Provenance
  <1>6. ASSUME NEW d \in Devices, Merge(d) PROVE Step
    <2>1. UNCHANGED log \/ log' = [log EXCEPT ![d] = @ \cup fetch[d].got]
      BY <1>6 DEF Merge
    <2> QED
      BY <1>2, <1>3, <2>1 DEF Provenance
  <1>7. ASSUME NEW d \in Devices, Open(d) \/ Retry(d) \/ Close(d) PROVE Step
    BY <1>3, <1>7 DEF Open, Retry, Close, storeVars
  <1>8. ASSUME NEW d \in Devices, Unreachable(d) \/ Probe(d) \/ ReadOutbox(d) \/ Learn(d)
        PROVE  Step
    BY <1>3, <1>8 DEF Unreachable, Probe, ReadOutbox, Learn, storeVars
  <1>9. ASSUME NEW d \in Devices, Publishing(d) \/ SendFails(d) PROVE Step
    BY <1>3, <1>9 DEF Publishing, Fire, Compact, SendOutbox, Send, NothingToSend, Confirmed,
                      SendFails, storeVars
  <1>10. ASSUME NEW m \in wire, Arrive(m) PROVE Step
    BY <1>3, <1>10 DEF Arrive, storeVars
  <1>11. ASSUME UNCHANGED vars PROVE Step
    BY <1>3, <1>11 DEF vars, storeVars
  <1> HIDE DEF Step, TypeOK
  <1>12. ASSUME NEW d \in Devices, Edit(d) \/ Open(d) \/ Retry(d) \/ Refetch(d) \/ Close(d)
                                    \/ Fetching(d) \/ Publishing(d) \/ SendFails(d)
         PROVE  Step
    BY <1>4, <1>5, <1>6, <1>7, <1>8, <1>9, <1>12 DEF Fetching
  <1>13. ASSUME Next PROVE Step
    BY <1>10, <1>12, <1>13 DEF Next
  <1>14. Step
    BY <1>11, <1>13
  <1> QED
    BY <1>14 DEF Step

(* The rail only ever moves operations from log to log: whatever the relays *)
(* lose, reorder or serve late, it invents none and no device loses one.    *)
THEOREM LogsImplemented == Spec => ImplementsLogs
  <1>1. Init => Logs!Init
    BY DEF Init, Logs!Init
  <1> QED
    BY <1>1, LogsStep, TypeCorrect, ProvenanceHolds, PTL DEF Spec, ImplementsLogs, Logs!Spec

-----------------------------------------------------------------------------
(* The recorded checkpoint.                                                *)

LEMMA MarkNext == TypeOK /\ MarkInv /\ [Next]_vars => MarkInv'
  <1> SUFFICES ASSUME TypeOK, MarkInv, [Next]_vars PROVE MarkInv'
    OBVIOUS
  <1> DEFINE Marked(d) ==
        /\ fetch[d].pc \in {"probe", "outboxes"} => fetch[d].mark = seen[d]
        /\ fetch[d].pc = "outboxes" /\ fetch[d].state = "present"
               => ~RolledBack(fetch[d].found, fetch[d].mark)
  <1>1. SUFFICES ASSUME NEW d \in Devices PROVE Marked(d)'
    BY DEF MarkInv
  <1> USE DEF TypeOK, storeVars
  <1>2. Marked(d)
    BY DEF MarkInv
  <1>3. UNCHANGED <<fetch, seen>> => Marked(d)'
    BY <1>2
  <1>4. ASSUME NEW e \in Devices, StartFetch(e) PROVE Marked(d)'
    <2>1. /\ [NoFetch EXCEPT !.pc = "probe", !.mark = seen[e]].pc = "probe"
          /\ [NoFetch EXCEPT !.pc = "probe", !.mark = seen[e]].mark = seen[e]
      BY DEF NoFetch
    <2> QED
      BY <1>2, <1>4, <2>1 DEF StartFetch
  <1>5. ASSUME NEW e \in Devices, fetch' = [fetch EXCEPT ![e] = NoFetch], UNCHANGED seen
        PROVE  Marked(d)'
    BY <1>2, <1>5 DEF NoFetch
  <1>6. ASSUME NEW e \in Devices, Probe(e) PROVE Marked(d)'
    <2>1. PICK R \in Answering \ {{}} :
            \E c \in Newest(R, CheckpointTag), opened \in BOOLEAN :
               fetch' = [fetch EXCEPT ![e] = ProbeResult(e, c, opened)]
      BY <1>6 DEF Probe
    <2>2. PICK c \in Newest(R, CheckpointTag), opened \in BOOLEAN :
               fetch' = [fetch EXCEPT ![e] = ProbeResult(e, c, opened)]
      BY <2>1
    <2> DEFINE p == ProbeResult(e, c, opened)
    <2>3. p.mark = fetch[e].mark /\ p.pc = "outboxes"
      BY DEF ProbeResult
    <2>4. p.state = "present" => p.found = c /\ ~RolledBack(c, p.mark)
      BY DEF ProbeResult, Verdict
    <2>5. fetch[e].mark = seen[e] /\ UNCHANGED seen
      BY <1>6 DEF Probe, MarkInv
    <2> HIDE DEF p
    <2> QED
      BY <1>2, <2>2, <2>3, <2>4, <2>5 DEF p, RolledBack
  <1>7. ASSUME NEW e \in Devices, ReadOutbox(e) PROVE Marked(d)'
    <2>1. fetch[e] \in Fetches /\ fetch[d] \in Fetches
      OBVIOUS
    <2>2. PICK todo, got : fetch' = [fetch EXCEPT ![e] = [fetch[e] EXCEPT !.todo = todo, !.got = got]]
      <3>1. \E R \in Answering : \E add :
              fetch' = [fetch EXCEPT ![e].todo = Tail(@), ![e].got = @ \cup add]
        BY <1>7 DEF ReadOutbox
      <3>2. PICK add : fetch' = [fetch EXCEPT ![e].todo = Tail(@), ![e].got = @ \cup add]
        BY <3>1
      <3>3. fetch' = [fetch EXCEPT ![e] = [fetch[e] EXCEPT !.todo = Tail(fetch[e].todo),
                                                           !.got = fetch[e].got \cup add]]
        BY <3>2
      <3> QED
        BY <3>3
    <2>3. /\ fetch'[d].pc = fetch[d].pc /\ fetch'[d].mark = fetch[d].mark
          /\ fetch'[d].state = fetch[d].state /\ fetch'[d].found = fetch[d].found
      BY <2>1, <2>2 DEF Fetches
    <2> QED
      BY <1>2, <1>7, <2>3 DEF ReadOutbox, RolledBack
  <1>8. ASSUME NEW e \in Devices, Learn(e) PROVE Marked(d)'
    <2>1. fetch[e] \in Fetches
      OBVIOUS
    <2>2. fetch' = [fetch EXCEPT ![e] = [fetch[e] EXCEPT !.pc = "merge"]]
      BY <1>8 DEF Learn
    <2>3. CASE d = e
      BY <2>1, <2>2, <2>3 DEF Fetches
    <2>4. CASE d # e
      BY <1>2, <1>8, <2>2, <2>4 DEF Learn
    <2> QED
      BY <2>3, <2>4
  <1>9. ASSUME NEW e \in Devices, Open(e) \/ Retry(e) \/ Refetch(e) PROVE Marked(d)'
    BY <1>4, <1>9 DEF Open, Retry, Refetch
  <1>10. ASSUME NEW e \in Devices, Close(e) \/ Unreachable(e) \/ Merge(e) PROVE Marked(d)'
    BY <1>5, <1>10 DEF Close, Unreachable, Merge
  <1>11. ASSUME NEW e \in Devices, Edit(e) \/ Publishing(e) \/ SendFails(e) PROVE Marked(d)'
    BY <1>3, <1>11 DEF Edit, Publishing, Fire, Compact, SendOutbox, Send, NothingToSend,
                       Confirmed, SendFails
  <1>12. ASSUME NEW m \in wire, Arrive(m) PROVE Marked(d)'
    BY <1>3, <1>12 DEF Arrive
  <1>13. ASSUME UNCHANGED vars PROVE Marked(d)'
    BY <1>3, <1>13 DEF vars
  <1> HIDE DEF Marked, TypeOK
  <1>14. ASSUME NEW e \in Devices, Edit(e) \/ Open(e) \/ Retry(e) \/ Refetch(e) \/ Close(e)
                                    \/ Fetching(e) \/ Publishing(e) \/ SendFails(e)
         PROVE  Marked(d)'
    BY <1>6, <1>7, <1>8, <1>9, <1>10, <1>11, <1>14 DEF Fetching
  <1>15. ASSUME Next PROVE Marked(d)'
    BY <1>12, <1>14, <1>15 DEF Next
  <1> QED
    BY <1>13, <1>15

LEMMA SeenStep ==
    TypeOK /\ MarkInv /\ [Next]_vars
        => \A d \in Devices : seen'[d].seq >= seen[d].seq /\ seen'[d].stamp >= seen[d].stamp
  <1> SUFFICES ASSUME TypeOK, MarkInv, [Next]_vars, NEW d \in Devices
               PROVE  seen'[d].seq >= seen[d].seq /\ seen'[d].stamp >= seen[d].stamp
    OBVIOUS
  <1> DEFINE Advances == seen'[d].seq >= seen[d].seq /\ seen'[d].stamp >= seen[d].stamp
  <1> USE DEF storeVars
  <1>1. seen \in [Devices -> Marks] /\ seen[d].seq \in Nat /\ seen[d].stamp \in Nat
    BY DEF TypeOK, Marks
  <1>2. UNCHANGED seen => Advances
    BY <1>1
  <1>3. ASSUME NEW e \in Devices, Learn(e) PROVE Advances
    <2>1. /\ fetch[e].found.seq \in Nat /\ fetch[e].found.stamp \in Nat
          /\ fetch[e].mark = seen[e] /\ seen[e].seq \in Nat /\ seen[e].stamp \in Nat
      BY <1>3 DEF Learn, TypeOK, MarkInv, Fetches, Events, Marks
    <2>2. CASE fetch[e].state = "present"
      <3>1. ~RolledBack(fetch[e].found, seen[e])
        BY <1>3, <2>2 DEF Learn, MarkInv
      <3>2. /\ fetch[e].found.seq >= seen[e].seq /\ fetch[e].found.stamp >= seen[e].stamp
        BY <2>1, <3>1 DEF RolledBack
      <3>3. seen' = [seen EXCEPT ![e] = [seq |-> fetch[e].found.seq, stamp |-> fetch[e].found.stamp]]
        BY <1>3, <2>2 DEF Learn
      <3> QED
        BY <1>1, <3>2, <3>3
    <2>3. CASE fetch[e].state # "present"
      <3>1. seen' = [seen EXCEPT ![e] = seen[e]]
        BY <1>3, <2>3 DEF Learn
      <3> QED
        BY <1>1, <3>1
    <2> QED
      BY <2>2, <2>3
  <1>4. ASSUME NEW e \in Devices, Open(e) \/ Retry(e) \/ Refetch(e) \/ Close(e) \/ Edit(e)
        PROVE  Advances
    BY <1>2, <1>4 DEF Open, Retry, Refetch, StartFetch, Close, Edit
  <1>5. ASSUME NEW e \in Devices, Unreachable(e) \/ Probe(e) \/ ReadOutbox(e) \/ Merge(e)
        PROVE  Advances
    BY <1>2, <1>5 DEF Unreachable, Probe, ReadOutbox, Merge
  <1>6. ASSUME NEW e \in Devices, Publishing(e) \/ SendFails(e) PROVE Advances
    BY <1>2, <1>6 DEF Publishing, Fire, Compact, SendOutbox, Send, NothingToSend, Confirmed,
                      SendFails
  <1>7. ASSUME NEW m \in wire, Arrive(m) PROVE Advances
    BY <1>2, <1>7 DEF Arrive
  <1>8. ASSUME UNCHANGED vars PROVE Advances
    BY <1>2, <1>8 DEF vars
  <1> HIDE DEF Advances
  <1>9. ASSUME NEW e \in Devices, Edit(e) \/ Open(e) \/ Retry(e) \/ Refetch(e) \/ Close(e)
                                    \/ Fetching(e) \/ Publishing(e) \/ SendFails(e)
        PROVE  Advances
    BY <1>3, <1>4, <1>5, <1>6, <1>9 DEF Fetching
  <1>10. ASSUME Next PROVE Advances
    BY <1>7, <1>9, <1>10 DEF Next
  <1>11. Advances
    BY <1>8, <1>10
  <1> QED
    BY <1>11 DEF Advances

(* A fetch may run beside edits and publishes, be dropped and started again *)
(* in a live page: the checkpoint a device has recorded never goes back.    *)
THEOREM SeenAdvances == Spec => SeenOnlyAdvances
  <1>1. Init => MarkInv
    BY DEF Init, MarkInv, NoFetch
  <1>2. TypeOK /\ MarkInv /\ [Next]_vars
           => [\A d \in Devices : /\ seen'[d].seq >= seen[d].seq
                                  /\ seen'[d].stamp >= seen[d].stamp]_vars
    BY SeenStep
  <1> QED
    BY <1>1, <1>2, MarkNext, TypeCorrect, PTL DEF Spec, SeenOnlyAdvances

-----------------------------------------------------------------------------
(* Publishing, while saves succeed and a live page fetches once.  A step of *)
(* one device leaves the others as they are; then one lemma per action.     *)

Same(x) ==
    /\ app'[x] = app[x] /\ ref'[x] = ref[x] /\ high'[x] = high[x] /\ seen'[x] = seen[x]
    /\ remote'[x] = remote[x] /\ hydrated'[x] = hydrated[x] /\ fetch'[x] = fetch[x]
    /\ timer'[x] = timer[x] /\ cycle'[x] = cycle[x] /\ log'[x] = log[x]

LEMMA SameKeeps == ASSUME NEW x \in Devices, DeviceInv(x), Same(x) PROVE DeviceInv(x)'
  BY DEF Same, DeviceInv, ClosedInv, TurnInv, HoldsInv, HighInv

LEMMA OthersSame ==
    ASSUME TypeOK, NEW d \in Devices, NEW x \in Devices, x # d,
           \/ Edit(d) \/ Open(d) \/ Retry(d) \/ Close(d)
           \/ Fetching(d) \/ Publishing(d) \/ SendFails(d)
    PROVE  Same(x)
  <1> USE DEF TypeOK, Same, storeVars, memoryVars, cycleVars
  <1>1. CASE Edit(d)
    BY <1>1 DEF Edit
  <1>2. CASE Open(d)
    BY <1>2 DEF Open, StartFetch
  <1>3. CASE Retry(d)
    BY <1>3 DEF Retry, StartFetch
  <1>4. CASE Close(d)
    BY <1>4 DEF Close
  <1>5. CASE Unreachable(d)
    BY <1>5 DEF Unreachable
  <1>6. CASE Probe(d)
    <2>1. \E R \in Answering \ {{}} : \E p : fetch' = [fetch EXCEPT ![d] = p]
      BY <1>6 DEF Probe
    <2> QED
      BY <1>6, <2>1 DEF Probe
  <1>7. CASE ReadOutbox(d)
    <2>1. \E R \in Answering : \E add :
              fetch' = [fetch EXCEPT ![d].todo = Tail(@), ![d].got = @ \cup add]
      BY <1>7 DEF ReadOutbox
    <2> QED
      BY <1>7, <2>1 DEF ReadOutbox
  <1>8. CASE Learn(d)
    BY <1>8 DEF Learn
  <1>9. CASE Merge(d)
    BY <1>9 DEF Merge
  <1>10. CASE Fire(d)
    BY <1>10 DEF Fire
  <1>11. CASE Compact(d) \/ SendOutbox(d)
    BY <1>11 DEF Compact, SendOutbox, Send
  <1>12. CASE NothingToSend(d) \/ SendFails(d)
    BY <1>12 DEF NothingToSend, SendFails, EndCycle
  <1>13. CASE Confirmed(d)
    BY <1>13 DEF Confirmed, EndCycle
  <1> QED
    BY <1>1, <1>2, <1>3, <1>4, <1>5, <1>6, <1>7, <1>8, <1>9, <1>10, <1>11, <1>12, <1>13
       DEF Fetching, Publishing

\* What the type invariant says of one device.
LEMMA DeviceType ==
    ASSUME TypeOK, NEW d \in Devices
    PROVE  /\ ref[d] \in Refs /\ ref[d].seq \in Nat /\ high[d] \in Nat
           /\ seen[d] \in Marks /\ seen[d].seq \in Nat
           /\ fetch[d] \in Fetches /\ fetch[d].found \in Events /\ fetch[d].found.seq \in Nat
           /\ cycle[d] \in Cycles /\ cycle[d].event \in Events /\ cycle[d].event.seq \in Nat
           /\ app[d] \in {"closed", "open"}
  BY DEF TypeOK, Refs, Marks, Fetches, Cycles, Events

LEMMA EditKeeps ==
    ASSUME TypeOK, NEW d \in Devices, DeviceInv(d), Edit(d) PROVE DeviceInv(d)'
  <1>1. /\ app'[d] = "open" /\ log[d] \subseteq log'[d]
        /\ timer'[d] # {} => timer[d] # {} \/ Gate(d)
    BY DEF Edit, TypeOK
  <1>2. UNCHANGED <<app, ref, high, seen, remote, hydrated, fetch, cycle>>
    BY DEF Edit, memoryVars
  <1>3. ClosedInv(d)'
    BY <1>1 DEF ClosedInv
  <1>4. TurnInv(d)'
    BY <1>1, <1>2 DEF DeviceInv, TurnInv, Gate, TypeOK
  <1>5. HoldsInv(d)'
    BY <1>1, <1>2 DEF DeviceInv, HoldsInv
  <1>6. HighInv(d)'
    BY <1>2 DEF DeviceInv, HighInv
  <1> QED
    BY <1>3, <1>4, <1>5, <1>6 DEF DeviceInv

\* Opening the page, or reading an unreachable pool again.
LEMMA StartFetchKeeps ==
    ASSUME TypeOK, NEW d \in Devices, DeviceInv(d), Open(d) \/ Retry(d) PROVE DeviceInv(d)'
  <1>1. /\ app'[d] = "open" /\ ~hydrated'[d] /\ fetch'[d].pc = "probe"
        /\ high'[d] = MaxOf(high[d], seen[d].seq)
        /\ timer'[d] \subseteq timer[d]
    <2>1. StartFetch(d) /\ app'[d] = "open"
      BY DEF Open, Retry, TypeOK
    <2>2. [NoFetch EXCEPT !.pc = "probe", !.mark = seen[d]].pc = "probe"
      BY DEF NoFetch
    <2> QED
      BY <2>1, <2>2 DEF StartFetch, TypeOK
  <1>2. UNCHANGED <<ref, seen, remote, cycle, log>>
    BY DEF Open, Retry, StartFetch
  <1>3. /\ timer[d] = {} /\ cycle[d].pc = "idle" /\ ref[d].ops \subseteq log[d]
        /\ app[d] = "open" => ref[d].seq <= high[d]
        /\ app[d] = "closed" => ref[d].seq = 0
    BY DEF Open, Retry, DeviceInv, ClosedInv, TurnInv, HoldsInv, HighInv, NoRef
  <1>4. ClosedInv(d)' /\ TurnInv(d)'
    BY <1>1, <1>2, <1>3 DEF ClosedInv, TurnInv
  <1>5. HoldsInv(d)'
    BY <1>1, <1>2, <1>3 DEF HoldsInv
  <1>6. HighInv(d)'
    <2>1. /\ ref[d].seq \in Nat /\ high[d] \in Nat /\ seen[d].seq \in Nat
          /\ app[d] \in {"closed", "open"}
      BY DeviceType
    <2>2. high'[d] \in Nat /\ high'[d] >= high[d] /\ high'[d] >= seen[d].seq
      BY <1>1, <2>1, MaxOfType
    <2> QED
      BY <1>1, <1>2, <1>3, <2>1, <2>2 DEF HighInv
  <1> QED
    BY <1>4, <1>5, <1>6 DEF DeviceInv

LEMMA CloseKeeps == ASSUME TypeOK, NEW d \in Devices, Close(d) PROVE DeviceInv(d)'
  BY DEF Close, TypeOK, NoRef, NoFetch, Idle, DeviceInv, ClosedInv, TurnInv, HoldsInv, HighInv

\* A device that fetches publishes nothing, and its page is open.
LEMMA FetchingQuiet ==
    ASSUME TypeOK, NEW d \in Devices, DeviceInv(d), fetch[d].pc # "none"
    PROVE  timer[d] = {} /\ cycle[d].pc = "idle" /\ ~hydrated[d] /\ app[d] = "open"
  BY DEF DeviceInv, ClosedInv, TurnInv, TypeOK

\* A device that publishes fetches nothing, and its page is open.
LEMMA PublishingQuiet ==
    ASSUME TypeOK, NEW d \in Devices, DeviceInv(d), timer[d] # {} \/ cycle[d].pc # "idle"
    PROVE  /\ fetch[d].pc = "none" /\ hydrated[d] /\ remote[d] = "answered" /\ app[d] = "open"
           /\ ref[d].ops \subseteq log[d]
  BY DEF DeviceInv, ClosedInv, TurnInv, HoldsInv, TypeOK

LEMMA UnreachableKeeps ==
    ASSUME TypeOK, NEW d \in Devices, DeviceInv(d), Unreachable(d) PROVE DeviceInv(d)'
  <1>1. /\ remote'[d] = "unreachable" /\ hydrated'[d] /\ fetch'[d].pc = "none"
        /\ fetch[d].pc = "probe"
    BY DEF Unreachable, TypeOK, NoFetch
  <1>2. UNCHANGED <<app, ref, high, seen, timer, cycle, log>>
    BY DEF Unreachable, storeVars, cycleVars
  <1>3. timer[d] = {} /\ cycle[d].pc = "idle" /\ app[d] = "open"
    BY <1>1, FetchingQuiet
  <1> QED
    BY <1>1, <1>2, <1>3 DEF DeviceInv, ClosedInv, TurnInv, HoldsInv, HighInv

LEMMA ProbeKeeps ==
    ASSUME TypeOK, NEW d \in Devices, DeviceInv(d), Probe(d) PROVE DeviceInv(d)'
  <1>1. PICK R \in Answering \ {{}} :
          \E c \in Newest(R, CheckpointTag), opened \in BOOLEAN :
             fetch' = [fetch EXCEPT ![d] = ProbeResult(d, c, opened)]
    BY DEF Probe
  <1>2. PICK c \in Newest(R, CheckpointTag), opened \in BOOLEAN :
             fetch' = [fetch EXCEPT ![d] = ProbeResult(d, c, opened)]
    BY <1>1
  <1>3. /\ ProbeResult(d, c, opened).pc = "outboxes"
        /\ ProbeResult(d, c, opened).state = "present"
             => ProbeResult(d, c, opened).found.ops \subseteq ProbeResult(d, c, opened).got
    BY DEF ProbeResult, Verdict
  <1>4. fetch'[d] = ProbeResult(d, c, opened)
    BY <1>2 DEF TypeOK
  <1>5. /\ fetch'[d].pc = "outboxes" /\ fetch[d].pc = "probe"
        /\ fetch'[d].state = "present" => fetch'[d].found.ops \subseteq fetch'[d].got
    BY <1>3, <1>4 DEF Probe
  <1>6. UNCHANGED <<app, ref, high, seen, remote, hydrated, timer, cycle, log>>
    BY DEF Probe, storeVars, memoryVars, cycleVars
  <1>7. timer[d] = {} /\ cycle[d].pc = "idle" /\ ~hydrated[d] /\ app[d] = "open"
    BY <1>5, FetchingQuiet
  <1> QED
    BY <1>5, <1>6, <1>7 DEF DeviceInv, ClosedInv, TurnInv, HoldsInv, HighInv

LEMMA ReadOutboxKeeps ==
    ASSUME TypeOK, NEW d \in Devices, DeviceInv(d), ReadOutbox(d) PROVE DeviceInv(d)'
  <1>1. \E R \in Answering : \E add :
            fetch' = [fetch EXCEPT ![d].todo = Tail(@), ![d].got = @ \cup add]
    BY DEF ReadOutbox
  <1>2. PICK add : fetch' = [fetch EXCEPT ![d].todo = Tail(@), ![d].got = @ \cup add]
    BY <1>1
  <1>3. fetch'[d] = [fetch[d] EXCEPT !.todo = Tail(@), !.got = @ \cup add]
    BY <1>2 DEF TypeOK
  <1>4. /\ fetch'[d].pc = "outboxes" /\ fetch[d].pc = "outboxes"
        /\ fetch'[d].state = fetch[d].state /\ fetch'[d].found = fetch[d].found
        /\ fetch[d].got \subseteq fetch'[d].got
    <2>1. fetch[d] \in Fetches /\ fetch[d].pc = "outboxes"
      BY DEF ReadOutbox, TypeOK
    <2> QED
      BY <1>3, <2>1 DEF Fetches
  <1>5. UNCHANGED <<app, ref, high, seen, remote, hydrated, timer, cycle, log>>
    BY DEF ReadOutbox, storeVars, memoryVars, cycleVars
  <1>6. timer[d] = {} /\ cycle[d].pc = "idle" /\ ~hydrated[d] /\ app[d] = "open"
    BY <1>4, FetchingQuiet
  <1> QED
    BY <1>4, <1>5, <1>6 DEF DeviceInv, ClosedInv, TurnInv, HoldsInv, HighInv

LEMMA LearnKeeps ==
    ASSUME TypeOK, NEW d \in Devices, DeviceInv(d), Learn(d) PROVE DeviceInv(d)'
  <1> DEFINE c == fetch[d].found
  <1>1. UNCHANGED <<app, hydrated, timer, cycle, log>>
    BY DEF Learn, cycleVars
  <1>2. /\ timer[d] = {} /\ cycle[d].pc = "idle" /\ ~hydrated[d] /\ app[d] = "open"
        /\ remote'[d] = "answered"
    BY FetchingQuiet DEF Learn, TypeOK
  <1>3. fetch'[d].pc = "merge" /\ fetch'[d].got = fetch[d].got
    <2>1. fetch'[d] = [fetch[d] EXCEPT !.pc = "merge"]
      BY DEF Learn, TypeOK
    <2> QED
      BY <2>1, DeviceType DEF Fetches
  <1>4. ref'[d].ops \subseteq fetch[d].got
    <2>1. CASE fetch[d].state = "present"
      <3>1. ref'[d].ops = c.ops
        BY <2>1 DEF Learn, TypeOK
      <3> QED
        BY <2>1, <3>1 DEF Learn, DeviceInv, HoldsInv
    <2>2. CASE fetch[d].state # "present"
      <3>1. ref'[d] = [NoRef EXCEPT !.state = fetch[d].state]
        BY <2>2 DEF Learn, TypeOK
      <3> QED
        BY <3>1 DEF NoRef
    <2> QED
      BY <2>1, <2>2
  <1>5. seen'[d].seq <= high'[d] /\ ref'[d].seq <= high'[d]
    <2>1. /\ c.seq \in Nat /\ high[d] \in Nat /\ seen[d].seq \in Nat
          /\ seen[d].seq <= high[d]
      BY <1>2, DeviceType DEF DeviceInv, HighInv
    <2>2. CASE fetch[d].state = "present"
      <3>1. seen'[d].seq = c.seq /\ ref'[d].seq = c.seq /\ high'[d] = MaxOf(high[d], c.seq)
        BY <2>2 DEF Learn, TypeOK
      <3> QED
        BY <2>1, <3>1, MaxOfType
    <2>3. CASE fetch[d].state # "present"
      <3>1. /\ seen'[d] = seen[d] /\ high'[d] = high[d]
            /\ ref'[d] = [NoRef EXCEPT !.state = fetch[d].state]
        BY <2>3 DEF Learn, TypeOK
      <3>2. ref'[d].seq = 0
        BY <3>1 DEF NoRef
      <3> QED
        BY <2>1, <3>1, <3>2
    <2> QED
      BY <2>2, <2>3
  <1> QED
    BY <1>1, <1>2, <1>3, <1>4, <1>5 DEF DeviceInv, ClosedInv, TurnInv, HoldsInv, HighInv

\* Here the save has to succeed.
LEMMA MergeKeeps ==
    ASSUME TypeOK, Steady, NEW d \in Devices, DeviceInv(d), Merge(d) PROVE DeviceInv(d)'
  <1>1. /\ log'[d] = log[d] \cup fetch[d].got /\ fetch[d].pc = "merge"
        /\ hydrated'[d] /\ fetch'[d].pc = "none"
    BY DEF Merge, Steady, TypeOK, NoFetch
  <1>2. UNCHANGED <<app, ref, high, seen, remote, cycle>>
    BY DEF Merge
  <1>3. /\ app[d] = "open" /\ cycle[d].pc = "idle" /\ remote[d] = "answered"
        /\ ref[d].ops \subseteq log'[d]
    BY <1>1, FetchingQuiet DEF DeviceInv, TurnInv, HoldsInv
  <1> QED
    BY <1>1, <1>2, <1>3 DEF DeviceInv, ClosedInv, TurnInv, HoldsInv, HighInv

\* The cycle reads a log that holds the adopted checkpoint.
LEMMA FireKeeps ==
    ASSUME TypeOK, NEW d \in Devices, DeviceInv(d), Fire(d) PROVE DeviceInv(d)'
  <1>1. UNCHANGED <<app, ref, high, seen, remote, hydrated, fetch, log>>
    BY DEF Fire, storeVars, memoryVars
  <1>2. /\ fetch[d].pc = "none" /\ hydrated[d] /\ remote[d] = "answered" /\ app[d] = "open"
        /\ ref[d].ops \subseteq log[d]
    BY PublishingQuiet DEF Fire
  <1>3. CASE cycle'[d] = cycle[d]
    BY <1>1, <1>2, <1>3 DEF DeviceInv, ClosedInv, TurnInv, HoldsInv, HighInv
  <1>4. CASE cycle'[d] = [Idle EXCEPT !.pc = "read", !.ops = log[d]]
    <2>1. cycle'[d].pc = "read" /\ cycle'[d].ops = log[d]
      BY <1>4 DEF Idle
    <2> QED
      BY <1>1, <1>2, <2>1 DEF DeviceInv, ClosedInv, TurnInv, HoldsInv, HighInv
  <1> QED
    BY <1>3, <1>4 DEF Fire, TypeOK

LEMMA SendKeeps ==
    ASSUME TypeOK, NEW d \in Devices, DeviceInv(d), NEW e \in Events, Send(d, e),
           cycle[d].pc = "read", e.ops \subseteq cycle[d].ops,
           e.tag = CheckpointTag => e.seq > high[d]
    PROVE  DeviceInv(d)'
  <1>1. UNCHANGED <<app, ref, high, seen, remote, hydrated, fetch, timer, log>>
    BY DEF Send, storeVars, memoryVars
  <1>2. /\ fetch[d].pc = "none" /\ hydrated[d] /\ remote[d] = "answered" /\ app[d] = "open"
        /\ ref[d].ops \subseteq cycle[d].ops /\ cycle[d].ops \subseteq log[d]
    BY PublishingQuiet DEF DeviceInv, HoldsInv
  <1>3. cycle'[d].pc = "sent" /\ cycle'[d].event = e /\ cycle'[d].ops = cycle[d].ops
    <2>1. cycle'[d] = [cycle[d] EXCEPT !.pc = "sent", !.event = e]
      BY DEF Send, TypeOK
    <2>2. cycle[d] \in Cycles
      BY DEF TypeOK
    <2> QED
      BY <2>1, <2>2 DEF Cycles
  <1> QED
    BY <1>1, <1>2, <1>3 DEF DeviceInv, ClosedInv, TurnInv, HoldsInv, HighInv

\* A checkpoint goes out above everything the device has seen.
LEMMA CompactKeeps ==
    ASSUME TypeOK, NEW d \in Devices, DeviceInv(d), Compact(d) PROVE DeviceInv(d)'
  <1> DEFINE e == [tag |-> CheckpointTag, seq |-> NextSeq(d), ids |-> MergeIds(ref[d].ids, d),
                   ops |-> cycle[d].ops, base |-> ref[d].ops, stamp |-> now + 1]
  <1>1. NextSeq(d) \in Nat /\ NextSeq(d) > high[d]
    <2>1. ref[d].seq \in Nat /\ high[d] \in Nat
      BY DeviceType
    <2>2. MaxOf(ref[d].seq, high[d]) \in Nat /\ MaxOf(ref[d].seq, high[d]) >= high[d]
      BY <2>1, MaxOfType
    <2> QED
      BY <2>1, <2>2 DEF NextSeq
  <1>2. e \in Events
    <2>1. MergeIds(ref[d].ids, d) \in Seq(Devices)
      BY MergeIdsType, DeviceType DEF Refs
    <2>2. cycle[d].ops \in SUBSET Ops /\ ref[d].ops \in SUBSET Ops /\ now + 1 \in Nat
      BY DEF TypeOK, Cycles, Refs
    <2> QED
      BY <1>1, <2>1, <2>2 DEF Events, Tags
  <1>3. Send(d, e) /\ cycle[d].pc = "read"
    BY DEF Compact
  <1>4. e.ops \subseteq cycle[d].ops /\ e.seq > high[d]
    BY <1>1
  <1> HIDE DEF e
  <1> QED
    BY <1>2, <1>3, <1>4, SendKeeps

LEMMA SendOutboxKeeps ==
    ASSUME TypeOK, NEW d \in Devices, DeviceInv(d), SendOutbox(d) PROVE DeviceInv(d)'
  <1> DEFINE e == [tag |-> d, seq |-> 0, ids |-> <<>>, ops |-> Outbox(d), base |-> {},
                   stamp |-> now + 1]
  <1>1. e \in Events
    BY DEF Events, Tags, Outbox, TypeOK, Cycles
  <1>2. Send(d, e) /\ cycle[d].pc = "read"
    BY DEF SendOutbox
  <1>3. e.ops \subseteq cycle[d].ops /\ e.tag # CheckpointTag
    BY DEF Outbox
  <1> HIDE DEF e
  <1> QED
    BY <1>1, <1>2, <1>3, SendKeeps

\* A cycle that ends without adopting anything.
LEMMA EndKeeps ==
    ASSUME TypeOK, NEW d \in Devices, DeviceInv(d), NothingToSend(d) \/ SendFails(d)
    PROVE  DeviceInv(d)'
  <1>1. UNCHANGED <<app, ref, high, seen, remote, hydrated, fetch, log>> /\ cycle[d].pc # "idle"
    BY DEF NothingToSend, SendFails, storeVars, memoryVars
  <1>2. /\ fetch[d].pc = "none" /\ hydrated[d] /\ remote[d] = "answered" /\ app[d] = "open"
        /\ ref[d].ops \subseteq log[d]
    BY <1>1, PublishingQuiet
  <1>3. cycle'[d].pc = "idle"
    BY DEF NothingToSend, SendFails, EndCycle, TypeOK, Idle
  <1> QED
    BY <1>1, <1>2, <1>3 DEF DeviceInv, ClosedInv, TurnInv, HoldsInv, HighInv

\* What was sent becomes the adopted checkpoint.
LEMMA ConfirmedKeeps ==
    ASSUME TypeOK, NEW d \in Devices, DeviceInv(d), Confirmed(d) PROVE DeviceInv(d)'
  <1> DEFINE e == cycle[d].event
  <1>1. UNCHANGED <<app, seen, remote, hydrated, fetch, log>> /\ cycle[d].pc = "sent"
    BY DEF Confirmed, storeVars
  <1>2. /\ fetch[d].pc = "none" /\ hydrated[d] /\ remote[d] = "answered" /\ app[d] = "open"
        /\ ref[d].ops \subseteq log[d]
    BY <1>1, PublishingQuiet
  <1>3. cycle'[d].pc = "idle"
    BY DEF Confirmed, EndCycle, TypeOK, Idle
  <1>4. ref'[d].ops \subseteq log[d] /\ seen[d].seq <= high'[d] /\ ref'[d].seq <= high'[d]
    <2>1. e.ops \subseteq log[d] /\ seen[d].seq <= high[d] /\ ref[d].seq <= high[d]
      BY <1>1, <1>2 DEF DeviceInv, HoldsInv, HighInv
    <2>2. /\ e.seq \in Nat /\ high[d] \in Nat /\ seen[d].seq \in Nat /\ ref[d].seq \in Nat
      BY DeviceType
    <2>3. CASE e.tag = CheckpointTag
      <3>1. ref'[d].ops = e.ops /\ ref'[d].seq = e.seq /\ high'[d] = e.seq
        BY <2>3 DEF Confirmed, TypeOK
      <3>2. e.seq > high[d]
        BY <1>1, <2>3 DEF DeviceInv, HighInv
      <3> QED
        BY <2>1, <2>2, <3>1, <3>2
    <2>4. CASE e.tag # CheckpointTag
      <3>1. ref' = ref /\ high' = high
        BY <2>4 DEF Confirmed
      <3> QED
        BY <1>2, <2>1, <3>1
    <2> QED
      BY <2>3, <2>4
  <1> QED
    BY <1>1, <1>2, <1>3, <1>4 DEF DeviceInv, ClosedInv, TurnInv, HoldsInv, HighInv

LEMMA ArriveKeeps ==
    ASSUME TypeOK, NEW d \in Devices, DeviceInv(d), NEW m \in wire, Arrive(m)
    PROVE  DeviceInv(d)'
  <1>1. UNCHANGED <<app, ref, high, seen, remote, hydrated, fetch, timer, log>>
    BY DEF Arrive, storeVars, memoryVars
  <1>2. /\ cycle'[d].pc = cycle[d].pc /\ cycle'[d].ops = cycle[d].ops
        /\ cycle'[d].event = cycle[d].event
    <2>1. \/ cycle'[d] = cycle[d]
          \/ cycle'[d] = [cycle[d] EXCEPT !.landed = TRUE]
      BY DEF Arrive, TypeOK
    <2>2. cycle[d] \in Cycles
      BY DEF TypeOK
    <2> QED
      BY <2>1, <2>2 DEF Cycles
  <1> QED
    BY <1>1, <1>2 DEF DeviceInv, ClosedInv, TurnInv, HoldsInv, HighInv

LEMMA PublishNext == TypeOK /\ PublishInv /\ Steady /\ [Next]_vars => PublishInv'
  <1> SUFFICES ASSUME TypeOK, PublishInv, Steady, [Next]_vars, NEW x \in Devices
               PROVE  DeviceInv(x)'
    BY DEF PublishInv
  <1>1. DeviceInv(x)
    BY DEF PublishInv
  <1>2. ASSUME NEW d \in Devices,
               \/ Edit(d) \/ Open(d) \/ Retry(d) \/ Close(d)
               \/ Fetching(d) \/ Publishing(d) \/ SendFails(d)
        PROVE  DeviceInv(x)'
    <2>1. CASE x # d
      BY <1>1, <1>2, <2>1, OthersSame, SameKeeps
    <2>2. CASE x = d
      BY <1>1, <1>2, <2>2, EditKeeps, StartFetchKeeps, CloseKeeps, UnreachableKeeps, ProbeKeeps,
         ReadOutboxKeeps, LearnKeeps, MergeKeeps, FireKeeps, CompactKeeps, SendOutboxKeeps,
         EndKeeps, ConfirmedKeeps DEF Fetching, Publishing
    <2> QED
      BY <2>1, <2>2
  <1>3. ASSUME NEW m \in wire, Arrive(m) PROVE DeviceInv(x)'
    BY <1>1, <1>3, ArriveKeeps
  <1>4. CASE UNCHANGED vars
    BY <1>1, <1>4, SameKeeps DEF vars, storeVars, memoryVars, cycleVars, Same
  <1>5. \A d \in Devices : ~Refetch(d)
    BY DEF Refetch, Steady
  <1> QED
    BY <1>2, <1>3, <1>4, <1>5 DEF Next

LEMMA PublishInit == Init => PublishInv
  BY DEF Init, PublishInv, DeviceInv, ClosedInv, TurnInv, HoldsInv, HighInv, NoRef, NoMark,
         NoFetch, Idle

(* A device only compacts what it holds, under a sequence above every one   *)
(* it has seen, in every history where saves succeed and a live page        *)
(* fetches once.                                                            *)
THEOREM PublishHolds == ASSUME Steady PROVE Spec => []PublishInv
  <1>1. TypeOK /\ PublishInv /\ [Next]_vars => PublishInv'
    BY PublishNext
  <1> QED
    BY <1>1, PublishInit, TypeCorrect, PTL DEF Spec

LEMMA FoldsNext == TypeOK /\ PublishInv /\ FoldsBase /\ [Next]_vars => FoldsBase'
  <1> SUFFICES ASSUME TypeOK, PublishInv, FoldsBase, [Next]_vars PROVE FoldsBase'
    OBVIOUS
  <1> DEFINE Folded == /\ \A m \in wire' : m.event.base \subseteq m.event.ops
                       /\ \A r \in Relays, t \in Tags : held'[r][t].base \subseteq held'[r][t].ops
  <1>1. SUFFICES Folded
    BY DEF FoldsBase, SentEvents
  <1>2. /\ \A m \in wire : m.event.base \subseteq m.event.ops
        /\ \A r \in Relays, t \in Tags : held[r][t].base \subseteq held[r][t].ops
    BY DEF FoldsBase, SentEvents
  <1>3. UNCHANGED <<wire, held>> => Folded
    BY <1>2
  <1>4. ASSUME NEW d \in Devices, NEW e, e.base \subseteq e.ops, Send(d, e) PROVE Folded
    BY <1>2, <1>4 DEF Send
  <1>5. ASSUME NEW d \in Devices, Compact(d) PROVE Folded
    <2>1. ref[d].ops \subseteq cycle[d].ops
      BY <1>5 DEF PublishInv, DeviceInv, HoldsInv, Compact
    <2> QED
      BY <1>4, <1>5, <2>1 DEF Compact
  <1>6. ASSUME NEW d \in Devices, SendOutbox(d) PROVE Folded
    BY <1>4, <1>6 DEF SendOutbox
  <1>7. ASSUME NEW m \in wire, Arrive(m) PROVE Folded
    <2>1. m.to \in Relays /\ m.event.tag \in Tags /\ m.event.base \subseteq m.event.ops
      BY <1>2, <1>7 DEF Mails, Events, TypeOK
    <2>2. \A r \in Relays, t \in Tags : held'[r][t].base \subseteq held'[r][t].ops
      BY <1>2, <1>7, <2>1 DEF Arrive, TypeOK
    <2> QED
      BY <1>2, <1>7, <2>2 DEF Arrive
  <1>8. ASSUME NEW d \in Devices,
               Edit(d) \/ Open(d) \/ Retry(d) \/ Refetch(d) \/ Close(d) \/ Fetching(d)
        PROVE  Folded
    BY <1>3, <1>8 DEF Edit, Open, Retry, Refetch, StartFetch, Close, Fetching, Unreachable, Probe,
                      ReadOutbox, Learn, Merge, relayVars
  <1>9. ASSUME NEW d \in Devices, Fire(d) \/ NothingToSend(d) \/ Confirmed(d) \/ SendFails(d)
        PROVE  Folded
    BY <1>3, <1>9 DEF Fire, NothingToSend, Confirmed, SendFails, relayVars
  <1>10. ASSUME UNCHANGED vars PROVE Folded
    BY <1>3, <1>10 DEF vars, relayVars
  <1> HIDE DEF Folded
  <1>11. ASSUME Next PROVE Folded
    BY <1>5, <1>6, <1>7, <1>8, <1>9, <1>11 DEF Next, Publishing
  <1> QED
    BY <1>10, <1>11

(* Compacting over the adopted checkpoint drops none of its operations.     *)
THEOREM FoldsBaseHolds == ASSUME Steady PROVE Spec => []FoldsBase
  <1>1. Init => FoldsBase
    BY DEF Init, FoldsBase, SentEvents, Nothing
  <1> QED
    BY <1>1, FoldsNext, PublishHolds, TypeCorrect, PTL DEF Spec

(* A checkpoint goes out above every sequence its author has adopted.       *)
THEOREM SequenceRisesHolds == ASSUME Steady PROVE Spec => []SequenceRises
  <1>1. TypeOK /\ PublishInv => SequenceRises
    <2> SUFFICES ASSUME TypeOK, PublishInv, NEW d \in Devices, cycle[d].pc = "sent",
                        cycle[d].event.tag = CheckpointTag
                 PROVE  cycle[d].event.seq > seen[d].seq /\ cycle[d].event.seq > ref[d].seq
      BY DEF SequenceRises
    <2>1. DeviceInv(d)
      BY DEF PublishInv
    <2>2. app[d] = "open"
      BY <2>1, PublishingQuiet
    <2>3. seen[d].seq <= high[d] /\ ref[d].seq <= high[d] /\ cycle[d].event.seq > high[d]
      BY <2>1, <2>2 DEF DeviceInv, HighInv
    <2> QED
      BY <2>3, DeviceType
  <1> QED
    BY <1>1, PublishHolds, TypeCorrect, PTL

LEMMA HighStep ==
    ASSUME TypeOK, PublishInv, Steady, [Next]_vars, NEW x \in Devices,
           app[x] = "open", app'[x] = "open"
    PROVE  high'[x] >= high[x]
  <1>1. high \in [Devices -> Nat] /\ high[x] \in Nat
    BY DEF TypeOK
  <1>2. high'[x] = high[x] => high'[x] >= high[x]
    BY <1>1
  <1>3. ASSUME NEW d \in Devices, Same(x) PROVE high'[x] >= high[x]
    BY <1>2, <1>3 DEF Same
  <1>4. ASSUME NEW d \in Devices,
               \/ Edit(d) \/ Open(d) \/ Retry(d) \/ Close(d)
               \/ Fetching(d) \/ Publishing(d) \/ SendFails(d)
        PROVE  high'[x] >= high[x]
    <2>1. CASE x # d
      BY <1>3, <1>4, <2>1, OthersSame
    <2>2. CASE x = d /\ Retry(d)
      <3>1. high'[x] = MaxOf(high[x], seen[x].seq) /\ seen[x].seq \in Nat
        BY <1>1, <2>2, DeviceType DEF Retry, StartFetch
      <3> QED
        BY <1>1, <3>1, MaxOfType
    <2>3. CASE x = d /\ Learn(d)
      <3>1. high'[x] = high[x] \/ high'[x] = MaxOf(high[x], fetch[x].found.seq)
        BY <1>1, <2>3 DEF Learn
      <3>2. fetch[x].found.seq \in Nat
        BY DeviceType
      <3> QED
        BY <1>1, <1>2, <3>1, <3>2, MaxOfType
    <2>4. CASE x = d /\ Confirmed(d)
      <3>1. high'[x] = high[x] \/ /\ cycle[x].event.tag = CheckpointTag
                                  /\ high'[x] = cycle[x].event.seq
        BY <1>1, <2>4 DEF Confirmed
      <3>2. cycle[x].event.seq \in Nat
            /\ (cycle[x].event.tag = CheckpointTag => cycle[x].event.seq > high[x])
        BY <2>4, DeviceType DEF PublishInv, DeviceInv, HighInv, Confirmed
      <3> QED
        BY <1>1, <1>2, <3>1, <3>2
    <2>5. CASE x = d /\ (Open(d) \/ Close(d))
      BY <2>5 DEF Open, Close, TypeOK
    <2>6. CASE x = d /\ (Edit(d) \/ Unreachable(d) \/ Probe(d) \/ ReadOutbox(d) \/ Merge(d))
      BY <1>2, <2>6 DEF Edit, Unreachable, Probe, ReadOutbox, Merge, memoryVars
    <2>7. CASE x = d /\ (Fire(d) \/ Compact(d) \/ SendOutbox(d) \/ NothingToSend(d) \/ SendFails(d))
      BY <1>2, <2>7 DEF Fire, Compact, SendOutbox, Send, NothingToSend, SendFails, memoryVars
    <2> QED
      BY <1>4, <2>1, <2>2, <2>3, <2>4, <2>5, <2>6, <2>7 DEF Fetching, Publishing
  <1>5. ASSUME NEW m \in wire, Arrive(m) PROVE high'[x] >= high[x]
    BY <1>2, <1>5 DEF Arrive, memoryVars
  <1>6. CASE UNCHANGED vars
    BY <1>2, <1>6 DEF vars, memoryVars
  <1>7. \A d \in Devices : ~Refetch(d)
    BY DEF Refetch, Steady
  <1> QED
    BY <1>4, <1>5, <1>6, <1>7 DEF Next

(* While the page lives its high-water mark only rises.                     *)
THEOREM HighWaterHolds == ASSUME Steady PROVE Spec => HighWaterKept
  <1>1. TypeOK /\ PublishInv /\ [Next]_vars
           => [\A d \in Devices : app[d] = "open" /\ app'[d] = "open" => high'[d] >= high[d]]_vars
    BY HighStep
  <1> QED
    BY <1>1, PublishHolds, TypeCorrect, PTL DEF HighWaterKept, Spec

-----------------------------------------------------------------------------
(* Rounds.  First what holds through the storm: every event has its own    *)
(* stamp and lists no device twice, and no relay falls behind what was read. *)

LEMMA OnceAppended ==
    ASSUME NEW ids \in Seq(Devices), Once(ids), NEW d \in Devices
    PROVE  Once(IF d \in Listed(ids) THEN ids ELSE Append(ids, d))
  <1> DEFINE all == IF d \in Listed(ids) THEN ids ELSE Append(ids, d)
  <1>1. CASE d \in Listed(ids)
    BY <1>1
  <1>2. CASE d \notin Listed(ids)
    <2>1. /\ DOMAIN all = 1..(Len(ids) + 1) /\ all[Len(ids) + 1] = d
          /\ \A i \in 1..Len(ids) : all[i] = ids[i] /\ ids[i] # d
      BY <1>2 DEF Listed
    <2> HIDE DEF all
    <2>2. ASSUME NEW i \in DOMAIN all, NEW j \in DOMAIN all, all[i] = all[j] PROVE i = j
      <3>1. (i \in 1..Len(ids) \/ i = Len(ids) + 1) /\ (j \in 1..Len(ids) \/ j = Len(ids) + 1)
        BY <2>1
      <3>2. DOMAIN ids = 1..Len(ids)
        OBVIOUS
      <3> QED
        BY <2>1, <2>2, <3>1, <3>2 DEF Once
    <2>3. Once(all)
      BY <2>2 DEF Once
    <2> QED
      BY <2>3 DEF all
  <1> QED
    BY <1>1, <1>2

LEMMA MergeIdsOnce ==
    ASSUME NEW ids \in Seq(Devices), Once(ids), NEW d \in Devices
    PROVE  Once(MergeIds(ids, d))
  <1> DEFINE all == IF d \in Listed(ids) THEN ids ELSE Append(ids, d)
             n   == Len(all)
  <1>1. all \in Seq(Devices) /\ n \in Nat
    OBVIOUS
  <1>2. Once(all)
    BY OnceAppended
  <1>3. CASE n <= MaxIds
    BY <1>2, <1>3 DEF MergeIds
  <1>4. CASE ~(n <= MaxIds)
    <2> DEFINE k == n - MaxIds + 1
               part == SubSeq(all, k, n)
    <2>1. k \in 1..n /\ n \in 1..n
      BY <1>1, <1>4
    <2>2. MergeIds(ids, d) = part
      BY <1>4 DEF MergeIds
    <2> HIDE DEF all
    <2>3. DOMAIN part = 1..(n - k + 1) /\ \A i \in 1..(n - k + 1) : part[i] = all[k + i - 1] /\ k + i - 1 \in DOMAIN all
      BY <1>1, <2>1
    <2> HIDE DEF part, k
    <2>4. ASSUME NEW i \in DOMAIN part, NEW j \in DOMAIN part, part[i] = part[j] PROVE i = j
      <3>1. k + i - 1 = k + j - 1
        BY <1>2, <2>3, <2>4 DEF Once
      <3> QED
        BY <2>1, <2>3, <3>1
    <2> QED
      BY <2>2, <2>4 DEF Once
  <1> QED
    BY <1>3, <1>4

\* Steps that leave the relays and the wire alone.
LEMMA RelaysRest ==
    ASSUME NEW d \in Devices,
           \/ Edit(d) \/ Open(d) \/ Retry(d) \/ Refetch(d) \/ Close(d)
           \/ Fetching(d) \/ Fire(d) \/ NothingToSend(d) \/ Confirmed(d) \/ SendFails(d)
    PROVE  held' = held /\ wire' = wire /\ now' = now
  BY DEF Edit, Open, Retry, Refetch, StartFetch, Close, Fetching, Unreachable, Probe, ReadOutbox, Learn,
         Merge, Fire, NothingToSend, Confirmed, SendFails, relayVars

LEMMA SendsOnce ==
    ASSUME TypeOK, NEW d \in Devices, Once(ref[d].ids), Compact(d) \/ SendOutbox(d)
    PROVE  \E e \in Events : Send(d, e) /\ e.stamp = now + 1 /\ Once(e.ids)
  <1>1. CASE Compact(d)
    <2> DEFINE e == [tag |-> CheckpointTag, seq |-> NextSeq(d), ids |-> MergeIds(ref[d].ids, d),
                     ops |-> cycle[d].ops, base |-> ref[d].ops, stamp |-> now + 1]
    <2>1. NextSeq(d) \in Nat
      <3>1. MaxOf(ref[d].seq, high[d]) \in Nat
        BY DeviceType, MaxOfType
      <3> QED
        BY <3>1 DEF NextSeq
    <2>2. MergeIds(ref[d].ids, d) \in Seq(Devices) /\ Once(MergeIds(ref[d].ids, d))
      BY MergeIdsType, MergeIdsOnce, DeviceType DEF Refs
    <2>3. cycle[d].ops \in SUBSET Ops /\ ref[d].ops \in SUBSET Ops /\ now + 1 \in Nat
      BY DEF TypeOK, Cycles, Refs
    <2>4. e \in Events
      BY <2>1, <2>2, <2>3 DEF Events, Tags
    <2>5. Send(d, e)
      BY <1>1 DEF Compact
    <2> QED
      BY <2>2, <2>4, <2>5
  <1>2. CASE SendOutbox(d)
    <2> DEFINE e == [tag |-> d, seq |-> 0, ids |-> <<>>, ops |-> Outbox(d), base |-> {}, stamp |-> now + 1]
    <2>1. e \in Events
      BY DEF Events, Tags, Outbox, TypeOK, Cycles
    <2>2. Send(d, e) /\ Once(e.ids)
      BY <1>2 DEF SendOutbox, Once
    <2> QED
      BY <2>1, <2>2
  <1> QED
    BY <1>1, <1>2

LEMMA ArriveHolds ==
    ASSUME TypeOK, NEW m \in wire, Arrive(m), NEW r \in Relays, NEW t \in Tags
    PROVE  held'[r][t] = IF r = m.to /\ t = m.event.tag /\ m.event.stamp > held[r][t].stamp
                         THEN m.event ELSE held[r][t]
  <1>1. m.to \in Relays /\ m.event.tag \in Tags
    BY DEF TypeOK, Mails, Events
  <1> QED
    BY <1>1 DEF Arrive, TypeOK

LEMMA EventsNext == TypeOK /\ StampInv /\ [Next]_vars => EventsInv'
  <1> SUFFICES ASSUME TypeOK, StampInv, [Next]_vars PROVE EventsInv'
    OBVIOUS
  <1> DEFINE Fine == EventsInv'
  <1>1. EventsInv /\ \A d \in Devices : ReadInv(d)
    BY DEF StampInv
  <1>2. held' = held /\ wire' = wire /\ now' = now => Fine
    BY <1>1 DEF EventsInv, SentEvents
  <1>3. ASSUME NEW d \in Devices, Compact(d) \/ SendOutbox(d) PROVE Fine
    <2>1. PICK e \in Events : Send(d, e) /\ e.stamp = now + 1 /\ Once(e.ids)
      BY <1>1, <1>3, SendsOnce DEF ReadInv
    <2>2. /\ held' = held /\ now' = now + 1
          /\ wire' = wire \cup {[to |-> r, from |-> d, event |-> e] : r \in Relays}
      BY <2>1 DEF Send
    <2>3. \A m \in wire' : m \in wire \/ m.event = e
      BY <2>2
    <2>4. \A x \in SentEvents' : x \in SentEvents \/ x = e
      BY <2>2, <2>3 DEF SentEvents
    <2>5. now \in Nat /\ \A x \in SentEvents : x.stamp \in Nat
      BY DEF TypeOK, SentEvents, Mails, Events
    <2>6. \A x \in SentEvents' : x.stamp <= now' /\ Once(x.ids)
      BY <1>1, <2>1, <2>2, <2>4, <2>5 DEF EventsInv
    <2>7. \A a, b \in SentEvents' : a.stamp = b.stamp /\ a.stamp > 0 => a = b
      BY <1>1, <2>1, <2>4, <2>5 DEF EventsInv
    <2>8. \A m \in wire' : m.event.stamp > 0
      BY <1>1, <2>1, <2>3, <2>5 DEF EventsInv
    <2> QED
      BY <1>1, <2>2, <2>6, <2>7, <2>8 DEF EventsInv
  <1>4. ASSUME NEW m \in wire, Arrive(m) PROVE Fine
    <2>1. wire' \subseteq wire /\ now' = now
      BY <1>4 DEF Arrive
    <2>2. \A r \in Relays, t \in Tags : held'[r][t] = held[r][t] \/ (held'[r][t] = m.event /\ m.event.tag = t)
      BY <1>4, ArriveHolds
    <2>3. SentEvents' \subseteq SentEvents
      BY <2>1, <2>2 DEF SentEvents
    <2>4. \A r \in Relays, t \in Tags :
              held'[r][t].tag = t /\ (held'[r][t].stamp = 0 => held'[r][t] = Nothing(t))
      BY <1>1, <2>2 DEF EventsInv
    <2> QED
      BY <1>1, <2>1, <2>3, <2>4 DEF EventsInv
  <1>5. ASSUME UNCHANGED vars PROVE Fine
    BY <1>2, <1>5 DEF vars, relayVars
  <1> HIDE DEF Fine
  <1>6. ASSUME NEW d \in Devices, Edit(d) \/ Open(d) \/ Retry(d) \/ Refetch(d) \/ Close(d)
                                    \/ Fetching(d) \/ Publishing(d) \/ SendFails(d)
        PROVE  Fine
    BY <1>2, <1>3, <1>6, RelaysRest DEF Publishing
  <1>7. ASSUME Next PROVE Fine
    BY <1>4, <1>6, <1>7 DEF Next
  <1>8. Fine
    BY <1>5, <1>7
  <1> QED
    BY <1>8 DEF Fine

BelowNext(stamp) == \E r \in Relays : stamp <= held'[r][CheckpointTag].stamp

\* What a relay holds of a tag only becomes newer.
LEMMA HeldRises ==
    ASSUME TypeOK, [Next]_vars, NEW stamp \in Nat, Below(stamp)
    PROVE  BelowNext(stamp)
  <1> DEFINE Fine == BelowNext(stamp)
  <1>1. held' = held => Fine
    BY DEF Below, BelowNext
  <1>2. ASSUME NEW m \in wire, Arrive(m) PROVE Fine
    <2>1. PICK r \in Relays : stamp <= held[r][CheckpointTag].stamp
      BY DEF Below
    <2>2. CheckpointTag \in Tags
      BY DEF Tags
    <2>3. /\ held'[r][CheckpointTag] = held[r][CheckpointTag]
             \/ (held'[r][CheckpointTag] = m.event /\ m.event.stamp > held[r][CheckpointTag].stamp)
          /\ held[r][CheckpointTag].stamp \in Nat /\ m.event.stamp \in Nat
      <3>1. m.event \in Events /\ held[r][CheckpointTag] \in Events
        BY <2>2 DEF TypeOK, Mails
      <3>2. m.event.stamp \in Nat /\ held[r][CheckpointTag].stamp \in Nat
        BY <3>1 DEF Events
      <3> QED
        BY <1>2, <2>2, <3>2, ArriveHolds
    <2>4. stamp <= held'[r][CheckpointTag].stamp
      BY <2>1, <2>3
    <2> QED
      BY <2>4 DEF BelowNext
  <1>3. ASSUME NEW d \in Devices, Compact(d) \/ SendOutbox(d) PROVE Fine
    BY <1>1, <1>3 DEF Compact, SendOutbox, Send
  <1>4. ASSUME UNCHANGED vars PROVE Fine
    BY <1>1, <1>4 DEF vars, relayVars
  <1> HIDE DEF Fine
  <1>5. ASSUME NEW d \in Devices, Edit(d) \/ Open(d) \/ Retry(d) \/ Refetch(d) \/ Close(d)
                                    \/ Fetching(d) \/ Publishing(d) \/ SendFails(d)
        PROVE  Fine
    BY <1>1, <1>3, <1>5, RelaysRest DEF Publishing
  <1>6. ASSUME Next PROVE Fine
    BY <1>2, <1>5, <1>6 DEF Next
  <1>7. Fine
    BY <1>4, <1>6
  <1> QED
    BY <1>7 DEF Fine

\* What a read of the checkpoint gives.
LEMMA ProbeReads ==
    ASSUME TypeOK, NEW d \in Devices, Probe(d)
    PROVE  \E R \in Answering, c \in Events, opened \in BOOLEAN :
               /\ c \in Newest(R, CheckpointTag)
               /\ \E r \in Relays : c = held[r][CheckpointTag]
               /\ opened \/ "opaque" \in Disturbances
               /\ fetch' = [fetch EXCEPT ![d] = ProbeResult(d, c, opened)]
               /\ fetch'[d] = ProbeResult(d, c, opened)
  <1>1. PICK R \in Answering \ {{}} :
          \E c \in Newest(R, CheckpointTag), opened \in BOOLEAN :
             /\ opened \/ ("opaque" \in Disturbances /\ c.stamp > 0)
             /\ fetch' = [fetch EXCEPT ![d] = ProbeResult(d, c, opened)]
    BY DEF Probe
  <1>2. PICK c \in Newest(R, CheckpointTag), opened \in BOOLEAN :
             /\ opened \/ ("opaque" \in Disturbances /\ c.stamp > 0)
             /\ fetch' = [fetch EXCEPT ![d] = ProbeResult(d, c, opened)]
    BY <1>1
  <1>3. R \in SUBSET Relays /\ CheckpointTag \in Tags
    BY AnsweringType DEF Tags
  <1>4. c \in Events /\ \E r \in Relays : c = held[r][CheckpointTag]
    BY <1>3, NewestType
  <1>5. fetch'[d] = ProbeResult(d, c, opened)
    BY <1>2 DEF TypeOK
  <1> QED
    BY <1>2, <1>4, <1>5

LEMMA ResultIs ==
    ASSUME NEW d, NEW c, NEW opened \in BOOLEAN
    PROVE  LET p == ProbeResult(d, c, opened) IN
           /\ p.pc = "outboxes" /\ p.found = (IF opened THEN c ELSE Nothing(CheckpointTag))
           /\ p.state = Verdict(c, opened, fetch[d].mark)
           /\ p.todo = MergeIds(IF opened THEN c.ids ELSE <<>>, d)
           /\ p.got = (IF opened THEN c.ops ELSE {})
  BY DEF ProbeResult

LEMMA ReadOutboxIs ==
    ASSUME TypeOK, NEW d \in Devices, ReadOutbox(d)
    PROVE  /\ \A x \in Devices : x # d => fetch'[x] = fetch[x]
           /\ fetch'[d].pc = "outboxes" /\ fetch'[d].found = fetch[d].found
           /\ fetch'[d].state = fetch[d].state /\ fetch'[d].mark = fetch[d].mark
           /\ fetch[d].pc = "outboxes" /\ fetch[d].todo # <<>>
           /\ fetch'[d].todo = Tail(fetch[d].todo)
           /\ fetch[d].got \subseteq fetch'[d].got
  <1>1. PICK R \in Answering :
            \E add \in {e.ops : e \in Newest(R, Head(fetch[d].todo))}
                          \cup (IF R = {} \/ "opaque" \in Disturbances THEN {{}} ELSE {}) :
                fetch' = [fetch EXCEPT ![d].todo = Tail(@), ![d].got = @ \cup add]
    BY DEF ReadOutbox
  <1>2. PICK add : fetch' = [fetch EXCEPT ![d].todo = Tail(@), ![d].got = @ \cup add]
    BY <1>1
  <1>3. fetch'[d] = [fetch[d] EXCEPT !.todo = Tail(@), !.got = @ \cup add]
        /\ \A x \in Devices : x # d => fetch'[x] = fetch[x]
    BY <1>2 DEF TypeOK
  <1>4. fetch[d] \in Fetches /\ fetch[d].pc = "outboxes" /\ fetch[d].todo # <<>>
    BY DEF ReadOutbox, TypeOK
  <1> QED
    BY <1>3, <1>4 DEF Fetches

LEMMA LearnIs ==
    ASSUME TypeOK, NEW d \in Devices, Learn(d)
    PROVE  /\ fetch[d].pc = "outboxes" /\ fetch[d].todo = <<>>
           /\ \A x \in Devices : x # d => fetch'[x] = fetch[x] /\ ref'[x] = ref[x] /\ seen'[x] = seen[x]
           /\ fetch'[d].pc = "merge" /\ fetch'[d].found = fetch[d].found /\ fetch'[d].got = fetch[d].got
           /\ fetch[d].state = "present" =>
                 /\ ref'[d].state = "present" /\ ref'[d].seq = fetch[d].found.seq
                 /\ ref'[d].ids = fetch[d].found.ids /\ ref'[d].ops = fetch[d].found.ops
                 /\ seen'[d].seq = fetch[d].found.seq /\ seen'[d].stamp = fetch[d].found.stamp
           /\ fetch[d].state # "present" =>
                 /\ ref'[d].state = fetch[d].state /\ ref'[d].ids = <<>> /\ ref'[d].ops = {}
                 /\ seen'[d] = seen[d]
  <1>1. fetch[d].pc = "outboxes" /\ fetch[d].todo = <<>>
    BY DEF Learn
  <1>2. /\ fetch'[d] = [fetch[d] EXCEPT !.pc = "merge"] /\ fetch[d] \in Fetches
        /\ \A x \in Devices : x # d => fetch'[x] = fetch[x]
    BY DEF Learn, TypeOK
  <1>3. fetch'[d].pc = "merge" /\ fetch'[d].found = fetch[d].found /\ fetch'[d].got = fetch[d].got
    BY <1>2 DEF Fetches
  <1>4. \A x \in Devices : x # d => ref'[x] = ref[x] /\ seen'[x] = seen[x]
    BY DEF Learn, TypeOK
  <1>5. ASSUME fetch[d].state = "present"
        PROVE  /\ ref'[d].state = "present" /\ ref'[d].seq = fetch[d].found.seq
               /\ ref'[d].ids = fetch[d].found.ids /\ ref'[d].ops = fetch[d].found.ops
               /\ seen'[d].seq = fetch[d].found.seq /\ seen'[d].stamp = fetch[d].found.stamp
    BY <1>5 DEF Learn, TypeOK
  <1>6. ASSUME fetch[d].state # "present"
        PROVE  /\ ref'[d].state = fetch[d].state /\ ref'[d].ids = <<>> /\ ref'[d].ops = {}
               /\ seen'[d] = seen[d]
    <2>1. ref'[d] = [NoRef EXCEPT !.state = fetch[d].state] /\ seen'[d] = seen[d]
      BY <1>6 DEF Learn, TypeOK
    <2> QED
      BY <2>1 DEF NoRef
  <1> QED
    BY <1>1, <1>2, <1>3, <1>4, <1>5, <1>6


LEMMA SentTogether ==
    ASSUME TypeOK, NEW d \in Devices, NEW e, Send(d, e)
    PROVE  /\ \A x \in Devices : x # d => cycle'[x] = cycle[x]
           /\ cycle'[d].pc = "sent" /\ cycle'[d].event = e /\ cycle'[d].ops = cycle[d].ops
  <1>1. /\ cycle'[d] = [cycle[d] EXCEPT !.pc = "sent", !.event = e] /\ cycle[d] \in Cycles
        /\ \A x \in Devices : x # d => cycle'[x] = cycle[x]
    BY DEF Send, TypeOK
  <1> QED
    BY <1>1 DEF Cycles

\* A cycle that has read the log.
Begun(ops) == [Idle EXCEPT !.pc = "read", !.ops = ops]

LEMMA BegunIs ==
    ASSUME NEW ops
    PROVE  /\ Idle.pc = "idle" /\ Idle.event = Nothing(CheckpointTag)
           /\ Begun(ops).pc = "read" /\ Begun(ops).ops = ops
           /\ Begun(ops).event = Nothing(CheckpointTag)
  BY DEF Begun, Idle

\* Reading, and what is recorded of it.
LEMMA ReadNext == TypeOK /\ StampInv /\ MarkInv /\ [Next]_vars => \A d \in Devices : ReadInv(d)'
  <1> SUFFICES ASSUME TypeOK, StampInv, MarkInv, [Next]_vars, NEW d \in Devices PROVE ReadInv(d)'
    OBVIOUS
  <1>1. EventsInv /\ ReadInv(d)
    BY DEF StampInv
  <1>2. /\ seen[d].stamp \in Nat /\ fetch[d].found.stamp \in Nat
        /\ \A x \in Nat : Below(x) => BelowNext(x)
    BY HeldRises DEF TypeOK, Marks, Fetches, Events
  <1>3. BelowNext(0)
    <2>1. PICK r : r \in Relays
      OBVIOUS
    <2>2. held[r][CheckpointTag].stamp \in Nat
      BY <2>1 DEF TypeOK, Events, Tags
    <2>3. 0 <= held[r][CheckpointTag].stamp
      BY <2>2
    <2>4. Below(0)
      BY <2>1, <2>3 DEF Below
    <2> QED
      BY <1>2, <2>4
  \* The three parts of it that steps write.
  <1> DEFINE Ref == Once(ref'[d].ids)
             Event == Once(cycle'[d].event.ids)
             Seen == BelowNext(seen'[d].stamp) /\ (seen'[d].stamp = 0 => seen'[d].seq = 0)
             Found == /\ Once(fetch'[d].found.ids) /\ BelowNext(fetch'[d].found.stamp)
                      /\ (fetch'[d].pc = "outboxes" /\ fetch'[d].state = "present"
                             => fetch'[d].found.stamp > 0)
  <1>4. Ref /\ Event /\ Seen /\ Found => ReadInv(d)'
    BY DEF ReadInv, Below, BelowNext
  <1>5. (ref'[d] = ref[d] => Ref) /\ (ref'[d].ids = <<>> => Ref)
    BY <1>1 DEF ReadInv, Once
  <1>6. (cycle'[d].event = cycle[d].event => Event) /\ (cycle'[d].event = Nothing(CheckpointTag) => Event)
    BY <1>1 DEF ReadInv, Once, Nothing
  <1>7. seen'[d] = seen[d] => Seen
    BY <1>1, <1>2 DEF ReadInv
  <1>8. /\ fetch'[d] = fetch[d] => Found
        /\ fetch'[d].found = Nothing(CheckpointTag) /\ fetch'[d].pc # "outboxes" => Found
    BY <1>1, <1>2, <1>3 DEF ReadInv, Once, Nothing
  <1> HIDE DEF Ref, Event, Seen, Found
  <1> DEFINE Fine == Ref /\ Event /\ Seen /\ Found
  <1>9. ASSUME NEW e \in Devices, StartFetch(e), cycle' = cycle, ref' = ref, seen' = seen PROVE Fine
    <2>1. fetch'[d] = fetch[d] \/ (fetch'[d].found = Nothing(CheckpointTag) /\ fetch'[d].pc # "outboxes")
      <3>1. fetch'[d] = fetch[d] \/ fetch'[d] = [NoFetch EXCEPT !.pc = "probe", !.mark = seen[e]]
        BY <1>9 DEF StartFetch, TypeOK
      <3> QED
        BY <3>1 DEF NoFetch
    <2> QED
      BY <1>5, <1>6, <1>7, <1>8, <1>9, <2>1
  <1>10. ASSUME NEW e \in Devices, Open(e) \/ Retry(e) \/ Refetch(e) PROVE Fine
    BY <1>9, <1>10 DEF Open, Retry, Refetch, StartFetch
  <1>11. ASSUME NEW e \in Devices, Close(e) PROVE Fine
    <2>1. /\ ref'[d] = ref[d] \/ ref'[d] = NoRef
          /\ fetch'[d] = fetch[d] \/ fetch'[d] = NoFetch
          /\ cycle'[d] = cycle[d] \/ cycle'[d] = Idle
          /\ seen' = seen
      BY <1>11 DEF Close, TypeOK, storeVars
    <2> QED
      BY <1>5, <1>6, <1>7, <1>8, <2>1 DEF NoRef, NoFetch, Idle
  <1>12. ASSUME NEW e \in Devices, Edit(e) \/ Unreachable(e) \/ Merge(e) PROVE Fine
    <2>1. /\ fetch'[d] = fetch[d] \/ fetch'[d] = NoFetch
          /\ ref' = ref /\ cycle' = cycle /\ seen' = seen
      BY <1>12 DEF Edit, Unreachable, Merge, TypeOK, storeVars, memoryVars, cycleVars
    <2> QED
      BY <1>5, <1>6, <1>7, <1>8, <2>1 DEF NoFetch
  <1>13. ASSUME NEW e \in Devices, Probe(e) PROVE Fine
    <2>1. PICK R \in Answering, c \in Events, opened \in BOOLEAN :
               /\ \E r \in Relays : c = held[r][CheckpointTag]
               /\ fetch' = [fetch EXCEPT ![e] = ProbeResult(e, c, opened)]
               /\ fetch'[e] = ProbeResult(e, c, opened)
      BY <1>13, ProbeReads
    <2> DEFINE p == ProbeResult(e, c, opened)
    <2>2. /\ p.found = (IF opened THEN c ELSE Nothing(CheckpointTag))
          /\ p.state = Verdict(c, opened, fetch[e].mark)
      BY ResultIs
    <2> HIDE DEF p
    <2>3. PICK r \in Relays : c = held[r][CheckpointTag]
      BY <2>1
    <2>4. Once(c.ids) /\ Below(c.stamp) /\ c.stamp \in Nat
      <3>1. c \in SentEvents
        BY <2>3 DEF SentEvents, Tags
      <3> QED
        BY <1>1, <2>3, <3>1 DEF EventsInv, Below, Events
    <2>5. BelowNext(c.stamp)
      BY <1>2, <2>4
    <2>6. CASE d = e
      <3>1. CASE opened
        <4>1. p.found = c /\ (p.state = "present" => c.stamp > 0)
          BY <2>2, <2>4, <3>1 DEF Verdict
        <4>2. fetch'[d] = p
          BY <2>1, <2>6 DEF p
        <4>3. Found
          BY <2>4, <2>5, <4>1, <4>2 DEF Found
        <4> QED
          BY <1>5, <1>6, <1>7, <1>13, <4>3 DEF Probe, storeVars, memoryVars, cycleVars
      <3>2. CASE ~opened
        <4>1. p.found = Nothing(CheckpointTag) /\ p.state # "present"
          BY <2>2, <3>2 DEF Verdict
        <4>2. fetch'[d] = p
          BY <2>1, <2>6 DEF p
        <4>3. Found
          BY <1>3, <4>1, <4>2 DEF Found, Nothing, Once
        <4> QED
          BY <1>5, <1>6, <1>7, <1>13, <4>3 DEF Probe, storeVars, memoryVars, cycleVars
      <3> QED
        BY <3>1, <3>2
    <2>7. CASE d # e
      <3>1. fetch'[d] = fetch[d]
        BY <2>1, <2>7 DEF TypeOK
      <3> QED
        BY <1>5, <1>6, <1>7, <1>8, <1>13, <3>1 DEF Probe, storeVars, memoryVars, cycleVars
    <2> QED
      BY <2>6, <2>7
  <1>14. ASSUME NEW e \in Devices, ReadOutbox(e) PROVE Fine
    <2>1. ref' = ref /\ cycle' = cycle /\ seen' = seen
      BY <1>14 DEF ReadOutbox, storeVars, memoryVars, cycleVars
    <2>2. CASE d = e
      <3>1. Found
        BY <1>1, <1>2, <1>14, <2>2, ReadOutboxIs DEF Found, ReadInv
      <3> QED
        BY <1>5, <1>6, <1>7, <2>1, <3>1
    <2>3. CASE d # e
      BY <1>5, <1>6, <1>7, <1>8, <1>14, <2>1, <2>3, ReadOutboxIs
    <2> QED
      BY <2>2, <2>3
  <1>15. ASSUME NEW e \in Devices, Learn(e) PROVE Fine
    <2>1. cycle' = cycle
      BY <1>15 DEF Learn, cycleVars
    <2>2. CASE d = e
      <3>1. Found
        BY <1>1, <1>2, <1>15, <2>2, LearnIs DEF Found, ReadInv
      <3>2. Ref
        BY <1>1, <1>15, <2>2, LearnIs DEF Ref, ReadInv, Once
      <3>3. Seen
        <4>1. CASE fetch[d].state = "present"
          BY <1>1, <1>2, <1>15, <2>2, <4>1, LearnIs DEF Seen, ReadInv
        <4>2. CASE fetch[d].state # "present"
          BY <1>7, <1>15, <2>2, <4>2, LearnIs
        <4> QED
          BY <4>1, <4>2
      <3> QED
        BY <1>6, <2>1, <3>1, <3>2, <3>3
    <2>3. CASE d # e
      BY <1>5, <1>6, <1>7, <1>8, <1>15, <2>1, <2>3, LearnIs
    <2> QED
      BY <2>2, <2>3
  <1>16. ASSUME NEW e \in Devices, Fire(e) \/ NothingToSend(e) \/ SendFails(e) PROVE Fine
    <2>1. /\ ref' = ref /\ fetch' = fetch /\ seen' = seen
          /\ \/ cycle'[d] = cycle[d] \/ cycle'[d] = Idle
             \/ cycle'[d] = Begun(log[e])
      BY <1>16 DEF Fire, Begun, NothingToSend, SendFails, EndCycle, TypeOK, storeVars, memoryVars
    <2>2. cycle'[d].event = cycle[d].event \/ cycle'[d].event = Nothing(CheckpointTag)
      BY <2>1, BegunIs
    <2> QED
      BY <1>5, <1>6, <1>7, <1>8, <2>1, <2>2
  <1>17. ASSUME NEW e \in Devices, Compact(e) \/ SendOutbox(e) PROVE Fine
    <2>1. Once(ref[e].ids)
      BY DEF StampInv, ReadInv
    <2>2. PICK x \in Events : Send(e, x) /\ Once(x.ids)
      BY <1>17, <2>1, SendsOnce
    <2>3. ref' = ref /\ fetch' = fetch /\ seen' = seen
      BY <2>2 DEF Send, storeVars, memoryVars
    <2>4. Event
      <3>1. cycle'[d].event = x \/ cycle'[d] = cycle[d]
        BY <2>2, SentTogether
      <3> QED
        BY <1>6, <2>2, <3>1 DEF Event
    <2> QED
      BY <1>5, <1>7, <1>8, <2>3, <2>4
  <1>18. ASSUME NEW e \in Devices, Confirmed(e) PROVE Fine
    <2>1. /\ fetch' = fetch /\ seen' = seen
          /\ cycle'[d] = cycle[d] \/ cycle'[d] = Idle
          /\ \/ ref'[d] = ref[d]
             \/ d = e /\ ref'[d].ids = cycle[d].event.ids
      BY <1>18 DEF Confirmed, EndCycle, TypeOK, storeVars
    <2>2. Ref
      BY <1>1, <1>5, <2>1 DEF Ref, ReadInv
    <2> QED
      BY <1>6, <1>7, <1>8, <2>1, <2>2 DEF Idle
  <1>19. ASSUME NEW m \in wire, Arrive(m) PROVE Fine
    <2>1. ref' = ref /\ fetch' = fetch /\ seen' = seen /\ cycle'[d].event = cycle[d].event
      <3>1. cycle'[d] = cycle[d] \/ cycle'[d] = [cycle[d] EXCEPT !.landed = TRUE]
        BY <1>19 DEF Arrive, TypeOK
      <3>2. cycle[d] \in Cycles
        BY DEF TypeOK
      <3>3. cycle'[d].event = cycle[d].event
        BY <3>1, <3>2 DEF Cycles
      <3> QED
        BY <1>19, <3>3 DEF Arrive, storeVars, memoryVars
    <2> QED
      BY <1>5, <1>6, <1>7, <1>8, <2>1
  <1>20. ASSUME UNCHANGED vars PROVE Fine
    BY <1>5, <1>6, <1>7, <1>8, <1>20 DEF vars, storeVars, memoryVars, cycleVars
  <1> HIDE DEF Fine
  <1>21. ASSUME NEW e \in Devices, Edit(e) \/ Open(e) \/ Retry(e) \/ Refetch(e) \/ Close(e)
                                    \/ Fetching(e) \/ Publishing(e) \/ SendFails(e)
         PROVE  Fine
    BY <1>10, <1>11, <1>12, <1>13, <1>14, <1>15, <1>16, <1>17, <1>18, <1>21 DEF Fetching, Publishing
  <1>22. ASSUME Next PROVE Fine
    BY <1>19, <1>21, <1>22 DEF Next
  <1>23. Fine
    BY <1>20, <1>22
  <1> QED
    BY <1>4, <1>23 DEF Fine

LEMMA StampNext == TypeOK /\ StampInv /\ MarkInv /\ [Next]_vars => StampInv'
  BY EventsNext, ReadNext DEF StampInv

LEMMA StampInit == Init => StampInv
  <1> SUFFICES ASSUME Init PROVE StampInv
    OBVIOUS
  <1>1. SentEvents = {Nothing(t) : t \in Tags}
    BY DEF Init, SentEvents
  <1>2. /\ \A t \in Tags : Nothing(t).stamp = 0 /\ Nothing(t).tag = t /\ Nothing(t).ids = <<>>
        /\ now = 0 /\ wire = {}
    BY DEF Nothing, Init
  <1>3. EventsInv
    BY <1>1, <1>2 DEF EventsInv, Init, Once
  <1>4. ASSUME NEW d \in Devices PROVE ReadInv(d)
    <2>1. Below(0)
      BY DEF Below, Init, Nothing, Tags
    <2> QED
      BY <2>1 DEF ReadInv, Init, NoRef, NoFetch, NoMark, Idle, Nothing, Once
  <1> QED
    BY <1>3, <1>4 DEF StampInv

\* No list of devices that names each once is cut short.
LEMMA MergeIdsAll ==
    ASSUME IsFiniteSet(Devices), Cardinality(Devices) <= MaxIds,
           NEW ids \in Seq(Devices), Once(ids), NEW d \in Devices
    PROVE  Listed(MergeIds(ids, d)) = Listed(ids) \cup {d}
  <1> DEFINE all == IF d \in Listed(ids) THEN ids ELSE Append(ids, d)
             n   == Len(all)
  <1>1. all \in Seq(Devices) /\ n \in Nat
    OBVIOUS
  <1>2. Once(all)
    BY OnceAppended
  <1>3. n <= MaxIds
    <2>1. SUFFICES ASSUME n > MaxIds PROVE FALSE
      BY <1>1
    <2>2. IsFiniteSet(1..n) /\ Cardinality(1..n) = n
      <3>1. 1 \in Int /\ n \in Int /\ ~(1 > n)
        BY <1>1, <2>1
      <3> HIDE DEF n
      <3> QED
        BY <3>1, FS_Interval
    <2>3. all \in [1..n -> Devices]
      <3> HIDE DEF all
      <3> QED
        BY <1>1
    <2>4. Cardinality(Devices) < Cardinality(1..n)
      <3>1. Cardinality(Devices) \in Nat
        BY FS_CardinalityType
      <3> HIDE DEF n
      <3> QED
        BY <2>1, <2>2, <3>1, <1>1
    <2> HIDE DEF all, n
    <2> DEFINE places == 1..n
    <2>5. PICK i, j \in places : i # j /\ all[i] = all[j]
      <3>1. /\ IsFiniteSet(places) /\ Cardinality(Devices) < Cardinality(places)
            /\ all \in [places -> Devices]
        BY <2>2, <2>3, <2>4
      <3> HIDE DEF places
      <3> QED
        BY <3>1, FS_PigeonHole
    <2> QED
      BY <1>2, <2>3, <2>5 DEF Once
  <1>4. Listed(all) = Listed(ids) \cup {d}
    <2>1. CASE d \in Listed(ids)
      BY <2>1
    <2>2. CASE d \notin Listed(ids)
      <3>1. /\ DOMAIN all = 1..(Len(ids) + 1) /\ all[Len(ids) + 1] = d
            /\ \A i \in 1..Len(ids) : all[i] = ids[i]
            /\ DOMAIN ids = 1..Len(ids) /\ Len(ids) \in Nat
        BY <2>2
      <3> HIDE DEF all
      <3>2. 1..(Len(ids) + 1) = 1..Len(ids) \cup {Len(ids) + 1}
        BY <3>1
      <3> QED
        BY <3>1, <3>2 DEF Listed
    <2> QED
      BY <2>1, <2>2
  <1> QED
    BY <1>3, <1>4 DEF MergeIds

\* A set of numbers that are no greater than n has a greatest one.
LEMMA GreatestNumber ==
    ASSUME NEW n \in Nat, NEW T \in SUBSET Nat, T # {}, \A x \in T : x <= n
    PROVE  \E x \in T : \A y \in T : y <= x
  <1> DEFINE R == OpToRel(<, Nat)
             gaps == {n - x : x \in T}
  <1>1. IsWellFoundedOn(R, Nat)
    BY NatLessThanWellFounded
  <1>2. R = {p \in Nat \X Nat : p[1] < p[2]}
    BY DEF OpToRel
  <1>3. gaps \subseteq Nat /\ gaps # {}
    <2>1. \A x \in T : n - x \in Nat
      OBVIOUS
    <2> QED
      BY <2>1
  <1> HIDE DEF R, gaps
  <1>4. PICK g \in gaps : \A h \in gaps : ~(<<h, g>> \in R)
    BY <1>1, <1>3, WFMin
  <1>5. \A h \in gaps : g <= h
    <2>1. SUFFICES ASSUME NEW h \in gaps PROVE ~(h < g)
      BY <1>3
    <2>2. <<h, g>> \in Nat \X Nat
      BY <1>3
    <2> QED
      BY <1>2, <1>4, <2>2
  <1>6. PICK x \in T : g = n - x
    BY DEF gaps
  <1>7. ASSUME NEW y \in T PROVE y <= x
    <2>1. n - y \in gaps
      BY DEF gaps
    <2> QED
      BY <1>5, <1>6, <2>1
  <1> QED
    BY <1>7

\* The relays agree on the newest event of a tag, as stamps are not shared.
LEMMA NewestOne ==
    ASSUME TypeOK, EventsInv, NEW t \in Tags
    PROVE  \E r \in Relays :
               /\ Newest(Relays, t) = {held[r][t]}
               /\ held[r][t] \in Events /\ held[r][t] \in SentEvents /\ held[r][t].tag = t
               /\ held[r][t].stamp \in Nat
               /\ held[r][t].stamp = 0 => held[r][t] = Nothing(t)
               /\ \A q \in Relays : held[q][t].stamp <= held[r][t].stamp
  <1> DEFINE stamps == {held[r][t].stamp : r \in Relays}
  <1>1. \A r \in Relays : /\ held[r][t] \in Events /\ held[r][t] \in SentEvents /\ held[r][t].tag = t
                          /\ held[r][t].stamp \in Nat
                          /\ held[r][t].stamp = 0 => held[r][t] = Nothing(t)
                          /\ held[r][t].stamp <= now
    BY DEF TypeOK, Events, EventsInv, SentEvents
  <1>2. stamps \in SUBSET Nat /\ stamps # {} /\ \A x \in stamps : x <= now
    BY <1>1
  <1>3. now \in Nat
    BY DEF TypeOK
  <1>4. PICK x \in stamps : \A y \in stamps : y <= x
    <2> HIDE DEF stamps
    <2> QED
      BY <1>2, <1>3, GreatestNumber
  <1>5. PICK r \in Relays : x = held[r][t].stamp
    OBVIOUS
  <1>6. \A q \in Relays : held[q][t].stamp <= held[r][t].stamp
    BY <1>4, <1>5
  <1> HIDE DEF stamps
  <1>7. ASSUME NEW q \in Relays, \A p \in Relays : held[p][t].stamp <= held[q][t].stamp
        PROVE  held[q][t] = held[r][t]
    <2>1. held[q][t].stamp = held[r][t].stamp
      BY <1>1, <1>6, <1>7
    <2>2. CASE held[r][t].stamp = 0
      BY <1>1, <2>1, <2>2
    <2>3. CASE held[r][t].stamp > 0
      BY <1>1, <2>1, <2>3 DEF EventsInv
    <2> QED
      BY <1>1, <2>2, <2>3
  <1>8. Newest(Relays, t) = {held[r][t]}
    BY <1>6, <1>7 DEF Newest
  <1> QED
    BY <1>1, <1>6, <1>8

LEMMA ReachIs ==
    ASSUME NEW c, Newest(Relays, CheckpointTag) = {c}
    PROVE  /\ c.ops \subseteq Reach
           /\ \A x \in Listed(c.ids) : \A e \in Newest(Relays, x) : e.ops \subseteq Reach
           /\ \A S : /\ c.ops \subseteq S
                     /\ \A x \in Listed(c.ids) : \A e \in Newest(Relays, x) : e.ops \subseteq S
                     => Reach \subseteq S
  <1>1. Reach = c.ops \cup UNION {UNION {e.ops : e \in Newest(Relays, x)} : x \in Listed(c.ids)}
    BY DEF Reach
  <1> QED
    BY <1>1

LEMMA HeldStays ==
    ASSUME held' = held
    PROVE  /\ \A t : Newest(Relays, t)' = Newest(Relays, t)
           /\ Reach' = Reach
           /\ \A d : OwnOutbox(d)' = OwnOutbox(d)
  BY DEF Reach, Newest, OwnOutbox

-----------------------------------------------------------------------------
(* A session of the calm, phase by phase.                                  *)

LEMMA CalmReads ==
    ASSUME Healable
    PROVE  /\ Answering = {Relays} /\ Relays # {}
           /\ "opaque" \notin Disturbances /\ "merge" \notin Disturbances
  BY DEF Healable, Answering

\* Most steps leave the relays, the logs and the marks alone.
LEMMA CalmRests ==
    ASSUME NEW d \in Devices,
           \/ Open(d) \/ Probe(d) \/ ReadOutbox(d) \/ Fire(d) \/ Compact(d) \/ SendOutbox(d)
           \/ NothingToSend(d) \/ Confirmed(d)
    PROVE  held' = held /\ seen' = seen /\ log' = log
  BY DEF Open, StartFetch, Probe, ReadOutbox, Fire, Compact, SendOutbox, Send, NothingToSend,
         Confirmed, relayVars, storeVars

LEMMA OpenPhase ==
    ASSUME TypeOK, NEW d \in Devices, Blank(d), wire = {}, Open(d)
    PROVE  Probing(d)'
  <1>1. fetch'[d].pc = "probe" /\ fetch'[d].mark = seen[d]
    <2> DEFINE f == [NoFetch EXCEPT !.pc = "probe", !.mark = seen[d]]
    <2>1. f.pc = "probe" /\ f.mark = seen[d]
      BY DEF NoFetch
    <2>2. fetch'[d] = f
      BY DEF Open, StartFetch, TypeOK
    <2> HIDE DEF f
    <2> QED
      BY <2>1, <2>2
  <1>2. /\ app'[d] = "open" /\ hydrated'[d] = FALSE /\ timer'[d] = timer[d] \ {"effect"}
        /\ cycle' = cycle /\ pending' = pending /\ lastSent' = lastSent /\ wire' = wire /\ seen' = seen
    BY DEF Open, StartFetch, TypeOK, relayVars
  <1>3. timer[d] = {} /\ ~pending[d] /\ lastSent[d] = {} /\ cycle[d].pc = "idle"
    BY BegunIs DEF Blank
  <1> QED
    BY <1>1, <1>2, <1>3 DEF Probing, Untouched

\* Untouched is kept by the steps of a fetch.
LEMMA FetchLeaves ==
    ASSUME TypeOK, NEW d \in Devices, Untouched(d), wire = {}, app[d] = "open",
           Probe(d) \/ ReadOutbox(d) \/ Learn(d)
    PROVE  Untouched(d)' /\ wire' = {} /\ app'[d] = "open"
  BY DEF Untouched, Probe, ReadOutbox, Learn, relayVars, storeVars, memoryVars, cycleVars

LEMMA ProbePhase ==
    ASSUME Healable, TypeOK, StampInv, NEW d \in Devices, Probing(d), Probe(d)
    PROVE  Reading(d)'
  <1>1. PICK R \in Answering, c \in Events, opened \in BOOLEAN :
               /\ c \in Newest(R, CheckpointTag)
               /\ \E r \in Relays : c = held[r][CheckpointTag]
               /\ opened \/ "opaque" \in Disturbances
               /\ fetch'[d] = ProbeResult(d, c, opened)
    BY ProbeReads
  <1>2. R = Relays /\ opened = TRUE
    BY <1>1, CalmReads
  <1>3. fetch'[d] = ProbeResult(d, c, TRUE) /\ c \in Newest(Relays, CheckpointTag)
    BY <1>1, <1>2
  <1> DEFINE p == ProbeResult(d, c, TRUE)
  <1>4. /\ p.pc = "outboxes" /\ p.found = c /\ p.state = Verdict(c, TRUE, fetch[d].mark)
        /\ p.todo = MergeIds(c.ids, d) /\ p.got = c.ops
    BY DEF ProbeResult
  <1>5. fetch'[d] = p
    BY <1>3
  <1> HIDE DEF p
  <1>6. held' = held /\ seen' = seen
    BY CalmRests
  <1>7. Listed(MergeIds(c.ids, d)) = Listed(c.ids) \cup {d}
    <2>1. c \in SentEvents
      BY <1>1 DEF SentEvents, Tags
    <2>2. c.ids \in Seq(Devices) /\ Once(c.ids)
      BY <2>1 DEF StampInv, EventsInv, Events
    <2> QED
      BY <2>2, MergeIdsAll DEF Healable
  <1>8. fetch[d].mark = seen[d] /\ Untouched(d)' /\ wire' = {} /\ app'[d] = "open"
    BY FetchLeaves DEF Probing
  <1>9. \A t : Newest(Relays, t)' = Newest(Relays, t)
    BY <1>6, HeldStays
  <1> QED
    BY <1>3, <1>4, <1>5, <1>6, <1>7, <1>8, <1>9 DEF Reading

LEMMA ReadOutboxPhase ==
    ASSUME Healable, TypeOK, StampInv, NEW d \in Devices, Reading(d), ReadOutbox(d)
    PROVE  Reading(d)'
  <1>1. PICK add \in {e.ops : e \in Newest(Relays, Head(fetch[d].todo))} :
            fetch' = [fetch EXCEPT ![d].todo = Tail(@), ![d].got = @ \cup add]
    BY CalmReads DEF ReadOutbox
  <1>2. fetch'[d] = [fetch[d] EXCEPT !.todo = Tail(@), !.got = @ \cup add] /\ fetch[d] \in Fetches
    BY <1>1 DEF TypeOK
  <1>3. fetch'[d].got = fetch[d].got \cup add
    BY <1>2 DEF Fetches
  <1>4. /\ fetch'[d].pc = "outboxes" /\ fetch'[d].found = fetch[d].found
        /\ fetch'[d].state = fetch[d].state /\ fetch'[d].todo = Tail(fetch[d].todo)
        /\ fetch[d].todo # <<>>
    BY ReadOutboxIs
  <1>5. held' = held /\ seen' = seen
    BY CalmRests
  <1>6. \A t : Newest(Relays, t)' = Newest(Relays, t)
    BY <1>5, HeldStays
  <1>7. Untouched(d)' /\ wire' = {} /\ app'[d] = "open"
    BY FetchLeaves DEF Reading
  <1> DEFINE todo == fetch[d].todo
             found == fetch[d].found
  <1>8. /\ found \in Newest(Relays, CheckpointTag) /\ fetch[d].state = Verdict(found, TRUE, seen[d])
        /\ found.ops \subseteq fetch[d].got
        /\ \A x \in Listed(found.ids) \cup {d} :
               x \in Listed(todo) \/ \A e \in Newest(Relays, x) : e.ops \subseteq fetch[d].got
    BY DEF Reading
  <1>9. todo \in Seq(Devices) /\ todo # <<>>
    BY <1>2, <1>4 DEF Fetches
  <1> HIDE DEF todo, found
  <1>10. \A x \in Listed(todo) : x \in Listed(Tail(todo)) \/ x = Head(todo)
    <2>1. SUFFICES ASSUME NEW i \in DOMAIN todo PROVE todo[i] \in Listed(Tail(todo)) \/ todo[i] = Head(todo)
      BY DEF Listed
    <2>2. i = 1 \/ (i - 1 \in DOMAIN Tail(todo) /\ Tail(todo)[i - 1] = todo[i])
      BY <1>9
    <2> QED
      BY <1>9, <2>2 DEF Listed
  <1>11. \A e \in Newest(Relays, Head(todo)) : e.ops \subseteq fetch'[d].got
    <2>1. Head(todo) \in Tags
      BY <1>9 DEF Tags
    <2>2. PICK r \in Relays : Newest(Relays, Head(todo)) = {held[r][Head(todo)]}
      BY <2>1, NewestOne DEF StampInv
    <2>3. add = held[r][Head(todo)].ops
      BY <2>2 DEF todo
    <2> QED
      BY <1>3, <2>2, <2>3
  <1>12. \A x \in Listed(found.ids) \cup {d} :
             x \in Listed(Tail(todo)) \/ \A e \in Newest(Relays, x) : e.ops \subseteq fetch'[d].got
    BY <1>3, <1>8, <1>10, <1>11
  <1>13. found.ops \subseteq fetch'[d].got
    BY <1>3, <1>8
  <1>14. fetch'[d].found = found /\ fetch'[d].todo = Tail(todo)
    BY <1>4 DEF found, todo
  <1> QED
    BY <1>4, <1>5, <1>6, <1>7, <1>8, <1>12, <1>13, <1>14 DEF Reading

\* The relays' checkpoint, that no cut-off device meets.
LEMMA CheckpointIs ==
    ASSUME TypeOK, StampInv
    PROVE  \E c \in Events :
               /\ Newest(Relays, CheckpointTag) = {c} /\ c \in SentEvents /\ c.tag = CheckpointTag
               /\ c.stamp = 0 => c = Nothing(CheckpointTag)
               /\ \A q \in Relays : held[q][CheckpointTag].stamp <= c.stamp
  <1>1. CheckpointTag \in Tags
    BY DEF Tags
  <1>2. EventsInv
    BY DEF StampInv
  <1> QED
    BY <1>1, <1>2, NewestOne

LEMMA LearnPhase ==
    ASSUME Healable, TypeOK, StampInv, NEW d \in Devices, Reading(d), ~CutOff(d), Learn(d)
    PROVE  Learnt(d)' /\ ~CutOff(d)'
  <1> DEFINE c == fetch[d].found
  <1>1. /\ Newest(Relays, CheckpointTag) = {c} /\ c \in Events
        /\ c.stamp = 0 => c = Nothing(CheckpointTag)
    BY CheckpointIs DEF Reading
  <1>2. /\ fetch[d].state = Verdict(c, TRUE, seen[d]) /\ c.ops \subseteq fetch[d].got
        /\ \A x \in Listed(c.ids) \cup {d} :
               x \in Listed(fetch[d].todo) \/ \A e \in Newest(Relays, x) : e.ops \subseteq fetch[d].got
    BY DEF Reading
  <1> HIDE DEF c
  <1>3. /\ fetch[d].todo = <<>>
        /\ fetch'[d].pc = "merge" /\ fetch'[d].got = fetch[d].got
        /\ fetch[d].state = "present" =>
              /\ ref'[d].state = "present" /\ ref'[d].seq = c.seq
              /\ ref'[d].ids = c.ids /\ ref'[d].ops = c.ops
              /\ seen'[d].seq = c.seq /\ seen'[d].stamp = c.stamp
        /\ fetch[d].state # "present" =>
              /\ ref'[d].state = fetch[d].state /\ ref'[d].ids = <<>> /\ ref'[d].ops = {}
              /\ seen'[d] = seen[d]
    BY LearnIs DEF c
  <1>4. held' = held
    BY DEF Learn, relayVars
  <1>5. Newest(Relays, CheckpointTag)' = {c} /\ Reach' = Reach /\ OwnOutbox(d)' = OwnOutbox(d)
    BY <1>1, <1>4, HeldStays
  <1>6. Reach \cup OwnOutbox(d) \subseteq fetch[d].got
    <2>1. Listed(fetch[d].todo) = {}
      BY <1>3 DEF Listed
    <2>2. \A x \in Listed(c.ids) \cup {d} : \A e \in Newest(Relays, x) : e.ops \subseteq fetch[d].got
      BY <1>2, <2>1
    <2>3. Reach \subseteq fetch[d].got
      BY <1>1, <1>2, <2>2, ReachIs
    <2>4. OwnOutbox(d) \subseteq fetch[d].got
      BY <2>2 DEF OwnOutbox
    <2> QED
      BY <2>3, <2>4
  <1>7. Knows(d, fetch[d].got)'
    BY <1>3, <1>5, <1>6 DEF Knows
  <1>8. c.stamp \in Nat /\ c.seq \in Nat
    BY <1>1 DEF Events
  <1>9. Adopted(d)'
    <2>1. CASE c.stamp = 0
      BY <1>2, <1>3, <1>5, <2>1 DEF Verdict, Adopted
    <2>2. CASE c.stamp # 0 /\ ~RolledBack(c, seen[d])
      BY <1>2, <1>3, <1>5, <2>2 DEF Verdict, Adopted
    <2>3. CASE c.stamp # 0 /\ RolledBack(c, seen[d])
      <3>1. c.stamp > 0
        BY <1>8, <2>3
      <3>2. d \in Listed(c.ids)
        BY <1>1, <2>3, <3>1 DEF CutOff
      <3> QED
        BY <1>2, <1>3, <1>5, <2>3, <3>2 DEF Verdict, Adopted
    <2> QED
      BY <2>1, <2>2, <2>3
  <1>10. ~CutOff(d)'
    <2>1. CASE fetch[d].state = "present"
      <3>1. ~RolledBack(c, seen'[d])
        BY <1>3, <1>8, <2>1 DEF RolledBack
      <3> QED
        BY <1>5, <3>1 DEF CutOff
    <2>2. CASE fetch[d].state # "present"
      BY <1>1, <1>3, <1>5, <2>2 DEF CutOff
    <2> QED
      BY <2>1, <2>2
  <1>11. Untouched(d)' /\ wire' = {} /\ app'[d] = "open"
    BY FetchLeaves DEF Reading
  <1> QED
    BY <1>3, <1>7, <1>9, <1>10, <1>11 DEF Learnt

LEMMA MergePhase ==
    ASSUME Healable, TypeOK, NEW d \in Devices, Learnt(d), Merge(d)
    PROVE  Merged(d)' /\ log' = [log EXCEPT ![d] = @ \cup fetch[d].got]
  <1>1. PICK saved \in BOOLEAN :
            /\ saved \/ ("merge" \in Disturbances /\ ~(fetch[d].got \subseteq log[d]))
            /\ log' = [log EXCEPT ![d] = IF saved THEN @ \cup fetch[d].got ELSE @]
    BY DEF Merge
  <1>2. log' = [log EXCEPT ![d] = @ \cup fetch[d].got]
    BY <1>1, CalmReads
  <1>3. log'[d] = log[d] \cup fetch[d].got
    BY <1>2 DEF TypeOK
  <1>4. /\ held' = held /\ wire' = wire /\ app' = app /\ ref' = ref /\ lastSent' = lastSent
        /\ pending' = pending /\ cycle' = cycle
        /\ hydrated'[d] = TRUE /\ timer'[d] = timer[d] \cup {"effect"} /\ fetch'[d] = NoFetch
    BY DEF Merge, relayVars, TypeOK
  <1>5. Adopted(d)'
    BY <1>4, HeldStays DEF Learnt, Adopted
  <1>6. Knows(d, log[d])'
    BY <1>3, <1>4, HeldStays DEF Learnt, Knows
  <1>7. NoFetch.pc = "none"
    BY DEF NoFetch
  <1> QED
    BY <1>2, <1>4, <1>5, <1>6, <1>7 DEF Learnt, Merged, Live, Untouched

LEMMA FirePhase ==
    ASSUME Healable, TypeOK, NEW d \in Devices, Merged(d), Fire(d)
    PROVE  Started(d)'
  <1>1. timer'[d] = {}
    BY DEF Fire, Merged, TypeOK
  <1>2. cycle'[d] = Begun(log[d])
    BY DEF Fire, Merged, TypeOK, Begun
  <1>3. /\ held' = held /\ log' = log /\ wire' = wire /\ app' = app /\ fetch' = fetch
        /\ hydrated' = hydrated /\ lastSent' = lastSent /\ ref' = ref /\ pending' = pending
    BY DEF Fire, Merged, relayVars, storeVars, memoryVars
  <1>4. Adopted(d)' /\ Knows(d, log[d])'
    BY <1>3, HeldStays DEF Merged, Adopted, Knows
  <1>5. cycle'[d].pc = "read" /\ cycle'[d].ops = log[d]
    BY <1>2, BegunIs
  <1> QED
    BY <1>1, <1>3, <1>4, <1>5 DEF Merged, Started, Live

\* A cycle that sends: what Sending asks for then holds of the event sent.
LEMMA SendPhase ==
    ASSUME TypeOK, NEW d \in Devices, NEW e \in Events, Started(d), Send(d, e), e.stamp = now + 1,
           Folds(d, e) \/ Posts(d, e)
    PROVE  Sent(d)'
  <1>1. /\ held' = held /\ log' = log /\ now' = now + 1 /\ app' = app /\ fetch' = fetch
        /\ hydrated' = hydrated /\ timer' = timer /\ pending' = pending
        /\ wire' = {[to |-> r, from |-> d, event |-> e] : r \in Relays}
    BY DEF Started, Send, storeVars, memoryVars
  <1>2. now \in Nat
    BY DEF TypeOK
  <1>3. \A r \in Relays : \E m \in wire' : m.to = r
    <2>1. SUFFICES ASSUME NEW r \in Relays PROVE \E m \in wire' : m.to = r
      OBVIOUS
    <2>2. [to |-> r, from |-> d, event |-> e] \in wire'
      BY <1>1
    <2>3. [to |-> r, from |-> d, event |-> e].to = r
      OBVIOUS
    <2> QED
      BY <2>2, <2>3
  <1>4. \A m \in wire' : m.from = d /\ m.event = e
    BY <1>1
  <1>5. Under(d, e)'
    BY <1>1, <1>2, <1>3, <1>4 DEF Under
  <1>6. Folds(d, e)' \/ Posts(d, e)'
    BY <1>1, HeldStays DEF Folds, Posts
  <1>7. Knows(d, log[d])'
    BY <1>1, HeldStays DEF Started, Knows
  <1>8. e \in SentEvents'
    <2>1. PICK r : r \in Relays
      OBVIOUS
    <2>2. PICK m \in wire' : m.to = r
      BY <1>3, <2>1
    <2> QED
      BY <1>4, <2>2 DEF SentEvents
  <1>9. cycle'[d].pc = "sent" /\ cycle'[d].event = e
    BY SentTogether
  <1>10. Sending(d, e)'
    BY <1>5, <1>6, <1>7 DEF Sending
  <1>11. Live(d)' /\ timer'[d] = {}
    BY <1>1 DEF Started, Live
  <1> QED
    BY <1>8, <1>9, <1>10, <1>11 DEF Sent

LEMMA CompactPhase ==
    ASSUME Healable, TypeOK, StampInv, NEW d \in Devices, Started(d), Compact(d)
    PROVE  Sent(d)'
  <1> DEFINE e == [tag |-> CheckpointTag, seq |-> NextSeq(d), ids |-> MergeIds(ref[d].ids, d),
                   ops |-> cycle[d].ops, base |-> ref[d].ops, stamp |-> now + 1]
  <1>1. Send(d, e) /\ ref[d].state # "unusable"
    BY DEF Compact, CheckpointDue
  <1>2. /\ e.tag = CheckpointTag /\ e.seq = NextSeq(d) /\ e.ids = MergeIds(ref[d].ids, d)
        /\ e.ops = cycle[d].ops /\ e.stamp = now + 1
    OBVIOUS
  <1>3. NextSeq(d) \in Nat /\ NextSeq(d) >= ref[d].seq /\ ref[d].seq \in Nat
    <2>1. /\ MaxOf(ref[d].seq, high[d]) \in Nat /\ MaxOf(ref[d].seq, high[d]) >= ref[d].seq
          /\ ref[d].seq \in Nat
      BY DeviceType, MaxOfType
    <2> QED
      BY <2>1 DEF NextSeq
  <1>4. ref[d].ids \in Seq(Devices) /\ Once(ref[d].ids)
    BY DeviceType DEF Refs, StampInv, ReadInv
  <1>5. e \in Events
    <2>1. MergeIds(ref[d].ids, d) \in Seq(Devices)
      BY <1>4, MergeIdsType
    <2>2. cycle[d].ops \in SUBSET Ops /\ ref[d].ops \in SUBSET Ops /\ now + 1 \in Nat
      BY DEF TypeOK, Cycles, Refs
    <2> QED
      BY <1>3, <2>1, <2>2 DEF Events, Tags
  <1> HIDE DEF e
  <1>6. Listed(e.ids) = Listed(ref[d].ids) \cup {d}
    BY <1>2, <1>4, MergeIdsAll DEF Healable
  <1>7. PICK c \in Events : /\ Newest(Relays, CheckpointTag) = {c}
                            /\ c.stamp = 0 => c = Nothing(CheckpointTag)
    BY CheckpointIs
  <1>8. /\ Listed(c.ids) = Listed(ref[d].ids) /\ c.seq <= ref[d].seq
        /\ cycle[d].ops = log[d] /\ Reach \cup OwnOutbox(d) \subseteq log[d]
    <2>1. \/ ref[d].state = "absent" /\ ref[d].ids = <<>> /\ c.stamp = 0
          \/ ref[d].state = "present" /\ ref[d].ids = c.ids /\ ref[d].seq = c.seq
      BY <1>1, <1>7 DEF Started, Adopted
    <2>2. c.stamp = 0 => c.ids = <<>> /\ c.seq = 0
      BY <1>7 DEF Nothing
    <2>3. c.seq \in Nat
      BY DEF Events
    <2>4. cycle[d].ops = log[d] /\ Reach \cup OwnOutbox(d) \subseteq log[d]
      BY DEF Started, Knows
    <2> QED
      BY <1>3, <2>1, <2>2, <2>3, <2>4
  <1>9. \A x \in Listed(e.ids) : \A o \in Newest(Relays, x) : o.ops \subseteq log[d]
    <2>1. \A x \in Listed(c.ids) : \A o \in Newest(Relays, x) : o.ops \subseteq log[d]
      <3>1. \A x \in Listed(c.ids) : \A o \in Newest(Relays, x) : o.ops \subseteq Reach
        BY <1>7, ReachIs
      <3> QED
        BY <1>8, <3>1
    <2>2. \A o \in Newest(Relays, d) : o.ops \subseteq log[d]
      BY <1>8 DEF OwnOutbox
    <2> QED
      BY <1>6, <1>8, <2>1, <2>2
  <1>10. \A x \in Newest(Relays, CheckpointTag) : Listed(x.ids) \subseteq Listed(e.ids) /\ x.seq <= e.seq
    <2>1. c.seq \in Nat
      BY DEF Events
    <2> QED
      BY <1>2, <1>3, <1>6, <1>7, <1>8, <2>1
  <1>11. Folds(d, e)
    BY <1>2, <1>6, <1>8, <1>9, <1>10 DEF Folds
  <1> QED
    BY <1>1, <1>2, <1>5, <1>11, SendPhase

\* No log is too large for a checkpoint, no outbox for an envelope.
LEMMA NoneTooLarge ==
    ASSUME Healable, TypeOK, NEW d \in Devices
    PROVE  ~TooLarge(d) /\ Cardinality(Outbox(d)) <= MaxOutbox
  <1>1. cycle[d].ops \in SUBSET Ops /\ Outbox(d) \in SUBSET Ops
    BY DEF TypeOK, Cycles, Outbox
  <1>2. IsFiniteSet(Ops) /\ Cardinality(Ops) <= MaxLog /\ Cardinality(Ops) <= MaxOutbox
    BY DEF Healable
  <1>3. Cardinality(cycle[d].ops) <= Cardinality(Ops) /\ Cardinality(Outbox(d)) <= Cardinality(Ops)
    BY <1>1, <1>2, FS_Subset
  <1>4. /\ Cardinality(Ops) \in Nat /\ Cardinality(cycle[d].ops) \in Nat
        /\ Cardinality(Outbox(d)) \in Nat
    BY <1>1, <1>2, FS_Subset, FS_CardinalityType
  <1> QED
    BY <1>2, <1>3, <1>4 DEF TooLarge

\* What the outbox leg of a cycle starts from.
LEMMA LegIs ==
    ASSUME Healable, TypeOK, StampInv, NEW d \in Devices, Started(d), OutboxLeg(d)
    PROVE  \E c \in Events :
               /\ Newest(Relays, CheckpointTag) = {c}
               /\ d \in Listed(c.ids) /\ ref[d].ops \subseteq c.ops
               /\ ref[d].state # "absent"
  <1>1. \E aged \in BOOLEAN : ~CheckpointDue(d, aged)
    BY NoneTooLarge DEF OutboxLeg
  <1>2. ref[d].state = "unusable" \/ (ref[d].state # "absent" /\ d \in Listed(ref[d].ids))
    BY <1>1 DEF CheckpointDue
  <1>3. PICK c \in Events : Newest(Relays, CheckpointTag) = {c}
    BY CheckpointIs
  <1>4. \/ ref[d].state = "absent"
        \/ ref[d].state = "present" /\ ref[d].ops = c.ops /\ ref[d].ids = c.ids
        \/ ref[d].state = "unusable" /\ ref[d].ops = {} /\ d \in Listed(c.ids)
    BY <1>3 DEF Started, Adopted
  <1> QED
    BY <1>2, <1>3, <1>4

LEMMA SendOutboxPhase ==
    ASSUME Healable, TypeOK, StampInv, NEW d \in Devices, Started(d), SendOutbox(d)
    PROVE  Sent(d)'
  <1> DEFINE e == [tag |-> d, seq |-> 0, ids |-> <<>>, ops |-> Outbox(d), base |-> {}, stamp |-> now + 1]
  <1>1. Send(d, e) /\ OutboxLeg(d)
    BY DEF SendOutbox
  <1>2. e.tag = d /\ e.ops = Outbox(d) /\ e.stamp = now + 1
    OBVIOUS
  <1>3. e \in Events
    BY DEF Events, Tags, Outbox, TypeOK, Cycles
  <1> HIDE DEF e
  <1>4. PICK c \in Events : /\ Newest(Relays, CheckpointTag) = {c}
                            /\ d \in Listed(c.ids) /\ ref[d].ops \subseteq c.ops
    BY <1>1, LegIs
  <1>5. cycle[d].ops = log[d]
    BY DEF Started
  <1>6. Posts(d, e)
    BY <1>2, <1>4, <1>5 DEF Posts, Outbox
  <1> QED
    BY <1>1, <1>2, <1>3, <1>6, SendPhase

LEMMA NothingPhase ==
    ASSUME Healable, TypeOK, StampInv, NEW d \in Devices, Started(d), NothingToSend(d)
    PROVE  Done(d)'
  <1>1. /\ held' = held /\ log' = log /\ wire' = wire /\ app' = app /\ fetch' = fetch
        /\ hydrated' = hydrated
    BY DEF NothingToSend, relayVars, storeVars, memoryVars
  <1>2. timer'[d] = {} /\ cycle'[d] = Idle /\ pending'[d] = FALSE
    BY DEF NothingToSend, EndCycle, Started, Live, TypeOK
  <1>3. cycle[d].ops = log[d] /\ Knows(d, log[d]) /\ lastSent[d] = {}
    BY DEF Started
  <1>4. log[d] \subseteq Reach
    <2>1. CASE cycle[d].ops = {}
      BY <1>3, <2>1
    <2>2. CASE OutboxLeg(d) /\ ~OutboxSendable(d)
      <3>1. Outbox(d) = {}
        BY <1>3, <2>2, NoneTooLarge DEF OutboxSendable
      <3>2. PICK c \in Events : Newest(Relays, CheckpointTag) = {c} /\ ref[d].ops \subseteq c.ops
        BY <2>2, LegIs
      <3>3. c.ops \subseteq Reach
        BY <3>2, ReachIs
      <3> QED
        BY <1>3, <3>1, <3>2, <3>3 DEF Outbox
    <2> QED
      BY <2>1, <2>2 DEF NothingToSend
  <1>5. Knows(d, log[d])' /\ log'[d] \subseteq Reach'
    BY <1>1, <1>3, <1>4, HeldStays DEF Knows
  <1> QED
    BY <1>1, <1>2, <1>5, BegunIs DEF Started, Done, Live

LEMMA ConfirmedPhase ==
    ASSUME TypeOK, NEW d \in Devices, Sent(d), Confirmed(d)
    PROVE  Done(d)'
  <1>1. /\ held' = held /\ log' = log /\ wire' = wire /\ now' = now /\ app' = app /\ fetch' = fetch
        /\ hydrated' = hydrated
    BY DEF Confirmed, relayVars, storeVars
  <1>2. timer'[d] = {} /\ cycle'[d] = Idle /\ pending'[d] = FALSE
    BY DEF Confirmed, EndCycle, Sent, Live, TypeOK
  <1>3. PICK e \in SentEvents : Sending(d, e)
    BY DEF Sent
  <1>4. Sending(d, e)'
    <2>1. Under(d, e)'
      BY <1>1, <1>3 DEF Sending, Under
    <2>2. Folds(d, e)' \/ Posts(d, e)'
      BY <1>1, <1>3, HeldStays DEF Sending, Folds, Posts
    <2>3. Knows(d, log[d])'
      BY <1>1, <1>3, HeldStays DEF Sending, Knows
    <2> QED
      BY <2>1, <2>2, <2>3 DEF Sending
  <1>5. e \in SentEvents'
    BY <1>1 DEF SentEvents
  <1>6. Live(d)' /\ timer'[d] = {} /\ cycle'[d].pc = "idle"
    BY <1>1, <1>2, BegunIs DEF Sent, Live
  <1> QED
    BY <1>4, <1>5, <1>6 DEF Done

\* What the relays hold after a step.
NewestNext(t) == {held'[r][t] : r \in {q \in Relays : \A p \in Relays : held'[p][t].stamp <= held'[q][t].stamp}}

LEMMA NextIs ==
    /\ \A t : Newest(Relays, t)' = NewestNext(t)
    /\ Reach' = UNION {c.ops \cup UNION {UNION {e.ops : e \in NewestNext(x)} : x \in Listed(c.ids)} :
                           c \in NewestNext(CheckpointTag)}
    /\ \A d : OwnOutbox(d)' = UNION {e.ops : e \in NewestNext(d)}
  BY DEF Newest, NewestNext, Reach, OwnOutbox

LEMMA SentEventsType ==
    ASSUME TypeOK, NEW e \in SentEvents
    PROVE  /\ e \in Events /\ e.stamp \in Nat /\ e.seq \in Nat /\ e.tag \in Tags
           /\ Listed(e.ids) \subseteq Devices
  <1>1. e \in Events
    BY DEF TypeOK, SentEvents, Mails
  <1>2. e.ids \in Seq(Devices)
    BY <1>1 DEF Events
  <1>3. Listed(e.ids) \subseteq Devices
    BY <1>2 DEF Listed
  <1> QED
    BY <1>1, <1>3 DEF Events

\* The session's event takes the place of what the relays held of its tag.
LEMMA ArriveTakes ==
    ASSUME TypeOK, EventsInv, NEW d \in Devices, NEW e \in SentEvents, Under(d, e),
           NEW m \in wire, Arrive(m)
    PROVE  /\ NewestNext(e.tag) = {e} /\ Under(d, e)' /\ e \in SentEvents'
           /\ \A t \in Tags : t # e.tag => NewestNext(t) = Newest(Relays, t)
  <1>1. /\ m.event = e /\ m.to \in Relays /\ e.tag \in Tags /\ e.stamp = now /\ now > 0
        /\ now \in Nat
    BY SentEventsType DEF Under, TypeOK, Mails
  <1>2. \A r \in Relays, t \in Tags : t # e.tag => held'[r][t] = held[r][t]
    BY <1>1, ArriveHolds
  <1>3. \A r \in Relays : held[r][e.tag] \in SentEvents /\ held[r][e.tag].stamp \in Nat
                          /\ held[r][e.tag].stamp <= now
    <2>1. \A r \in Relays : held[r][e.tag] \in SentEvents
      BY <1>1 DEF SentEvents
    <2> QED
      BY <2>1, SentEventsType DEF EventsInv
  <1>4. held'[m.to][e.tag] = e
    <2>1. CASE e.stamp > held[m.to][e.tag].stamp
      BY <1>1, <2>1, ArriveHolds
    <2>2. CASE ~(e.stamp > held[m.to][e.tag].stamp)
      <3>1. held[m.to][e.tag].stamp = e.stamp /\ e.stamp > 0
        BY <1>1, <1>3, <2>2
      <3>2. held[m.to][e.tag] = e
        BY <1>1, <1>3, <3>1 DEF EventsInv
      <3> QED
        BY <1>1, <2>2, <3>2, ArriveHolds
    <2> QED
      BY <2>1, <2>2
  <1>5. \A r \in Relays : held'[r][e.tag] = held[r][e.tag] \/ held'[r][e.tag] = e
    BY <1>1, ArriveHolds
  <1>6. \A r \in Relays : held'[r][e.tag].stamp <= e.stamp /\ (held'[r][e.tag].stamp >= e.stamp => held'[r][e.tag] = e)
    <2>1. ASSUME NEW r \in Relays, held[r][e.tag].stamp >= e.stamp PROVE held[r][e.tag] = e
      <3>1. held[r][e.tag].stamp = e.stamp /\ e.stamp > 0
        BY <1>1, <1>3, <2>1
      <3> QED
        BY <1>3, <3>1 DEF EventsInv
    <2>2. ASSUME NEW r \in Relays
          PROVE  held'[r][e.tag].stamp <= e.stamp /\ (held'[r][e.tag].stamp >= e.stamp => held'[r][e.tag] = e)
      <3>1. CASE held'[r][e.tag] = held[r][e.tag]
        BY <1>1, <1>3, <2>1, <3>1
      <3>2. CASE held'[r][e.tag] = e
        BY <1>1, <3>2
      <3> QED
        BY <1>5, <3>1, <3>2
    <2> QED
      BY <2>2
  <1>7. NewestNext(e.tag) = {e}
    <2>1. \A p \in Relays : held'[p][e.tag].stamp <= held'[m.to][e.tag].stamp
      BY <1>4, <1>6
    <2>2. e \in NewestNext(e.tag)
      BY <1>1, <1>4, <2>1 DEF NewestNext
    <2>3. ASSUME NEW q \in Relays, \A p \in Relays : held'[p][e.tag].stamp <= held'[q][e.tag].stamp
          PROVE  held'[q][e.tag] = e
      <3>1. e.stamp <= held'[q][e.tag].stamp
        BY <1>1, <1>4, <2>3
      <3> QED
        BY <1>1, <1>3, <1>5, <1>6, <3>1
    <2> QED
      BY <2>2, <2>3 DEF NewestNext
  <1>8. \A t \in Tags : t # e.tag => NewestNext(t) = Newest(Relays, t)
    BY <1>2 DEF NewestNext, Newest
  <1>9. e \in SentEvents'
    BY <1>1, <1>4 DEF SentEvents
  <1>10. wire' = wire \ {m} /\ now' = now
    BY DEF Arrive
  <1>11. \A r \in Relays : held'[r][e.tag] = e \/ (\E x \in wire' : x.to = r)
    BY <1>4, <1>5, <1>10 DEF Under
  <1>12. Under(d, e)'
    BY <1>1, <1>10, <1>11 DEF Under
  <1> QED
    BY <1>7, <1>8, <1>9, <1>12

\* So the relays offer more than before, and cut nobody off.
LEMMA FoldsArrives ==
    ASSUME TypeOK, StampInv, NEW d \in Devices, NEW e \in SentEvents, Under(d, e), Folds(d, e),
           Knows(d, log[d]), \A x \in Devices : ~CutOff(x), NEW m \in wire, Arrive(m)
    PROVE  /\ Folds(d, e)' /\ Knows(d, log[d])' /\ Reach \subseteq Reach'
           /\ \A x \in Devices : ~CutOff(x)'
  <1>1. EventsInv
    BY DEF StampInv
  <1>2. /\ e.tag = CheckpointTag /\ e.ops = log[d] /\ d \in Listed(e.ids)
        /\ \A c \in Newest(Relays, CheckpointTag) : Listed(c.ids) \subseteq Listed(e.ids) /\ c.seq <= e.seq
        /\ \A x \in Listed(e.ids) : \A o \in Newest(Relays, x) : o.ops \subseteq log[d]
    BY DEF Folds
  <1>3. NewestNext(CheckpointTag) = {e} /\ \A x \in Devices : NewestNext(x) = Newest(Relays, x)
    BY <1>1, <1>2, ArriveTakes DEF Tags
  <1>4. e \in Events /\ e.stamp \in Nat /\ e.seq \in Nat /\ Listed(e.ids) \subseteq Devices
    BY SentEventsType
  <1>5. log' = log /\ seen' = seen
    BY DEF Arrive, storeVars
  <1>6. Reach' = e.ops \cup UNION {UNION {o.ops : o \in Newest(Relays, x)} : x \in Listed(e.ids)}
    BY <1>3, <1>4, NextIs
  <1>7. Reach' = log[d]
    BY <1>2, <1>6
  <1>8. Reach \cup OwnOutbox(d) \subseteq log[d]
    BY DEF Knows
  <1>9. Knows(d, log[d])'
    <2>1. OwnOutbox(d)' = OwnOutbox(d)
      BY <1>3, NextIs DEF OwnOutbox
    <2> QED
      BY <1>5, <1>7, <1>8, <2>1 DEF Knows
  <1>10. Folds(d, e)'
    <2>1. Newest(Relays, CheckpointTag)' = {e} /\ \A x \in Devices : Newest(Relays, x)' = Newest(Relays, x)
      BY <1>3, NextIs
    <2>2. \A c \in Newest(Relays, CheckpointTag)' : Listed(c.ids) \subseteq Listed(e.ids) /\ c.seq <= e.seq
      BY <1>4, <2>1
    <2>3. \A x \in Listed(e.ids) : \A o \in Newest(Relays, x)' : o.ops \subseteq log[d]
      BY <1>2, <1>4, <2>1
    <2> QED
      BY <1>2, <1>5, <2>2, <2>3 DEF Folds
  <1>11. ASSUME NEW x \in Devices PROVE ~CutOff(x)'
    <2>1. PICK c \in Events : /\ Newest(Relays, CheckpointTag) = {c} /\ c \in SentEvents
                              /\ c.stamp = 0 => c = Nothing(CheckpointTag)
                              /\ \A q \in Relays : held[q][CheckpointTag].stamp <= c.stamp
      BY CheckpointIs
    <2>2. /\ c.stamp \in Nat /\ c.seq \in Nat /\ c.stamp <= now /\ e.stamp = now
          /\ seen[x].seq \in Nat /\ seen[x].stamp \in Nat /\ c.seq <= e.seq
      BY <1>1, <1>2, <2>1, SentEventsType DEF EventsInv, Under, TypeOK, Marks
    <2>3. CASE x \in Listed(e.ids)
      BY <1>3, <2>3, NextIs DEF CutOff
    <2>4. CASE x \notin Listed(e.ids)
      <3>1. x \notin Listed(c.ids)
        BY <1>2, <2>1, <2>4
      <3>2. ~RolledBack(e, seen[x])
        <4>1. CASE c.stamp > 0
          <5>1. ~RolledBack(c, seen[x])
            BY <2>1, <3>1, <4>1 DEF CutOff
          <5> QED
            BY <1>4, <2>2, <5>1 DEF RolledBack
        <4>2. CASE c.stamp = 0
          <5>1. Below(seen[x].stamp) /\ (seen[x].stamp = 0 => seen[x].seq = 0)
            BY DEF StampInv, ReadInv
          <5>2. PICK r \in Relays : seen[x].stamp <= held[r][CheckpointTag].stamp
            BY <5>1 DEF Below
          <5>3. held[r][CheckpointTag].stamp \in Nat
            <6>1. held[r][CheckpointTag] \in SentEvents
              BY DEF SentEvents, Tags
            <6> QED
              BY <6>1, SentEventsType
          <5>4. seen[x].stamp = 0
            BY <2>1, <2>2, <4>2, <5>2, <5>3
          <5> QED
            BY <1>4, <5>1, <5>4 DEF RolledBack
        <4> QED
          BY <2>2, <4>1, <4>2
      <3> QED
        BY <1>3, <1>5, <3>2, NextIs DEF CutOff
    <2> QED
      BY <2>3, <2>4
  <1> QED
    BY <1>7, <1>8, <1>9, <1>10, <1>11

LEMMA PostsArrives ==
    ASSUME TypeOK, StampInv, NEW d \in Devices, NEW e \in SentEvents, Under(d, e), Posts(d, e),
           Knows(d, log[d]), \A x \in Devices : ~CutOff(x), NEW m \in wire, Arrive(m)
    PROVE  /\ Posts(d, e)' /\ Knows(d, log[d])' /\ Reach \subseteq Reach'
           /\ \A x \in Devices : ~CutOff(x)'
  <1>1. EventsInv
    BY DEF StampInv
  <1>2. PICK c \in Events : Newest(Relays, CheckpointTag) = {c} /\ c \in SentEvents
    BY CheckpointIs
  <1>3. e.tag = d /\ e.ops \subseteq log[d] /\ d \in Listed(c.ids) /\ log[d] \subseteq c.ops \cup e.ops
    BY <1>2 DEF Posts
  <1>4. /\ NewestNext(CheckpointTag) = {c} /\ NewestNext(d) = {e}
        /\ \A x \in Devices : x # d => NewestNext(x) = Newest(Relays, x)
    BY <1>1, <1>2, <1>3, ArriveTakes DEF Tags
  <1>5. log' = log /\ seen' = seen
    BY DEF Arrive, storeVars
  <1>6. Listed(c.ids) \subseteq Devices
    BY <1>2, SentEventsType
  <1>7. Reach' = c.ops \cup UNION {UNION {o.ops : o \in NewestNext(x)} : x \in Listed(c.ids)}
    BY <1>4, NextIs
  <1>8. Reach \cup OwnOutbox(d) \subseteq log[d]
    BY DEF Knows
  <1>9. log[d] \subseteq Reach'
    BY <1>3, <1>4, <1>7
  <1>10. Reach' \subseteq log[d]
    <2>1. c.ops \subseteq log[d] /\ \A x \in Listed(c.ids) : \A o \in Newest(Relays, x) : o.ops \subseteq log[d]
      BY <1>2, <1>8, ReachIs
    <2>2. \A x \in Listed(c.ids) : \A o \in NewestNext(x) : o.ops \subseteq log[d]
      BY <1>3, <1>4, <1>6, <2>1
    <2> QED
      BY <1>7, <2>1, <2>2
  <1>11. OwnOutbox(d)' \subseteq log[d]
    BY <1>3, <1>4, NextIs
  <1>12. Knows(d, log[d])'
    BY <1>5, <1>10, <1>11 DEF Knows
  <1>13. Newest(Relays, CheckpointTag)' = {c}
    BY <1>4, NextIs
  <1>14. Posts(d, e)'
    BY <1>3, <1>5, <1>13 DEF Posts
  <1>15. ASSUME NEW x \in Devices PROVE ~CutOff(x)'
    BY <1>2, <1>5, <1>13 DEF CutOff
  <1> QED
    BY <1>8, <1>9, <1>12, <1>14, <1>15

LEMMA SendingArrives ==
    ASSUME TypeOK, StampInv, NEW d \in Devices, NEW e \in SentEvents, Sending(d, e),
           \A x \in Devices : ~CutOff(x), NEW m \in wire, Arrive(m)
    PROVE  /\ Sending(d, e)' /\ e \in SentEvents' /\ Reach \subseteq Reach'
           /\ \A x \in Devices : ~CutOff(x)'
  <1>1. Under(d, e) /\ Knows(d, log[d]) /\ EventsInv
    BY DEF Sending, StampInv
  <1>2. Under(d, e)' /\ e \in SentEvents'
    BY <1>1, ArriveTakes
  <1>3. CASE Folds(d, e)
    BY <1>1, <1>2, <1>3, FoldsArrives DEF Sending
  <1>4. CASE Posts(d, e)
    BY <1>1, <1>2, <1>4, PostsArrives DEF Sending
  <1> QED
    BY <1>3, <1>4 DEF Sending

\* How the phases differ.
LEMMA PhaseIs ==
    ASSUME NEW d \in Devices
    PROVE  /\ Blank(d) => /\ app[d] = "closed" /\ ~hydrated[d]
                          /\ fetch[d].pc = "none" /\ timer[d] = {} /\ cycle[d].pc = "idle"
           /\ Probing(d) => /\ app[d] = "open" /\ ~hydrated[d] /\ wire = {}
                            /\ fetch[d].pc = "probe" /\ timer[d] = {} /\ cycle[d].pc = "idle"
           /\ Reading(d) => /\ app[d] = "open" /\ ~hydrated[d] /\ wire = {}
                            /\ fetch[d].pc = "outboxes" /\ timer[d] = {} /\ cycle[d].pc = "idle"
           /\ Learnt(d) => /\ app[d] = "open" /\ ~hydrated[d] /\ wire = {}
                           /\ fetch[d].pc = "merge" /\ timer[d] = {} /\ cycle[d].pc = "idle"
           /\ Merged(d) => /\ app[d] = "open" /\ wire = {}
                           /\ fetch[d].pc = "none" /\ timer[d] # {} /\ cycle[d].pc = "idle"
           /\ Started(d) => /\ app[d] = "open" /\ wire = {}
                            /\ fetch[d].pc = "none" /\ timer[d] = {} /\ cycle[d].pc = "read"
           /\ Sent(d) => /\ app[d] = "open"
                         /\ fetch[d].pc = "none" /\ timer[d] = {} /\ cycle[d].pc = "sent"
           /\ Done(d) => /\ app[d] = "open"
                         /\ fetch[d].pc = "none" /\ timer[d] = {} /\ cycle[d].pc = "idle"
  <1>1. NoFetch.pc = "none" /\ Idle.pc = "idle"
    BY BegunIs DEF NoFetch
  <1> QED
    BY <1>1 DEF Blank, Probing, Reading, Learnt, Merged, Started, Sent, Done, Live, Untouched

\* A step of one device leaves a closed one closed.
LEMMA OthersBlank ==
    ASSUME TypeOK, NEW d \in Devices, NEW x \in Devices, x # d, Blank(x),
           Open(d) \/ Close(d) \/ Fetching(d) \/ Publishing(d)
    PROVE  Blank(x)'
  <1>1. Same(x)
    BY OthersSame
  <1>2. pending'[x] = pending[x] /\ lastSent'[x] = lastSent[x]
    <2> USE DEF TypeOK, memoryVars, cycleVars
    <2>1. CASE Open(d) \/ Close(d)
      BY <2>1 DEF Open, StartFetch, Close
    <2>2. CASE Fetching(d)
      BY <2>2 DEF Fetching, Unreachable, Probe, ReadOutbox, Learn, Merge
    <2>3. CASE Fire(d) \/ Compact(d) \/ SendOutbox(d)
      BY <2>3 DEF Fire, Compact, SendOutbox, Send
    <2>4. CASE NothingToSend(d) \/ Confirmed(d)
      BY <2>4 DEF NothingToSend, Confirmed, EndCycle
    <2> QED
      BY <2>1, <2>2, <2>3, <2>4 DEF Publishing
  <1> QED
    BY <1>1, <1>2 DEF Same, Blank

\* What one step of a session keeps.
Onward(d) ==
    /\ Turn(d)'
    /\ \A x \in Devices : ~CutOff(x)'
    /\ \A x \in Devices : x # d => Blank(x)' /\ log'[x] = log[x]
    /\ Reach \subseteq Reach'
    /\ log[d] \subseteq log'[d] /\ log'[d] \subseteq Authored

LEMMA RestsOnward ==
    ASSUME TypeOK, NEW d \in Devices, Turn(d)', held' = held, seen' = seen, log' = log,
           \A x \in Devices : ~CutOff(x), \A x \in Devices : x # d => Blank(x),
           Open(d) \/ Fetching(d) \/ Publishing(d)
    PROVE  Onward(d)
  <1>1. \A x \in Devices : ~CutOff(x)'
    BY HeldStays DEF CutOff
  <1>2. \A x \in Devices : x # d => Blank(x)'
    BY OthersBlank
  <1>3. Reach' = Reach
    BY HeldStays
  <1>4. log[d] \subseteq Authored
    BY DEF Authored
  <1> QED
    BY <1>1, <1>2, <1>3, <1>4 DEF Onward

LEMMA LearnOnward ==
    ASSUME Healable, TypeOK, StampInv, NEW d \in Devices, Reading(d), Learn(d),
           \A x \in Devices : ~CutOff(x), \A x \in Devices : x # d => Blank(x)
    PROVE  Onward(d)
  <1>1. Learnt(d)' /\ ~CutOff(d)'
    BY LearnPhase
  <1>2. Turn(d)'
    BY <1>1 DEF Turn
  <1>3. held' = held /\ log' = log
    BY DEF Learn, relayVars
  <1>4. \A x \in Devices : x # d => ~CutOff(x)'
    <2>1. \A x \in Devices : x # d => seen'[x] = seen[x]
      BY LearnIs
    <2> QED
      BY <1>3, <2>1, HeldStays DEF CutOff
  <1>5. \A x \in Devices : x # d => Blank(x)'
    BY OthersBlank DEF Fetching
  <1>6. Reach' = Reach /\ log[d] \subseteq Authored
    BY <1>3, HeldStays DEF Authored
  <1> QED
    BY <1>1, <1>2, <1>3, <1>4, <1>5, <1>6 DEF Onward

LEMMA MergeOnward ==
    ASSUME Healable, TypeOK, Provenance, NEW d \in Devices, Learnt(d), Merge(d),
           \A x \in Devices : ~CutOff(x), \A x \in Devices : x # d => Blank(x)
    PROVE  Onward(d)
  <1>1. Merged(d)' /\ log' = [log EXCEPT ![d] = @ \cup fetch[d].got]
    BY MergePhase
  <1>2. Turn(d)'
    BY <1>1 DEF Turn
  <1>3. held' = held /\ seen' = seen
    BY DEF Merge, relayVars
  <1>4. \A x \in Devices : ~CutOff(x)'
    BY <1>3, HeldStays DEF CutOff
  <1>5. \A x \in Devices : x # d => Blank(x)' /\ log'[x] = log[x]
    BY <1>1, OthersBlank DEF Fetching, TypeOK
  <1>6. log'[d] = log[d] \cup fetch[d].got
    BY <1>1 DEF TypeOK
  <1>7. fetch[d].got \subseteq Authored /\ log[d] \subseteq Authored
    BY DEF Provenance, Authored
  <1> QED
    BY <1>2, <1>3, <1>4, <1>5, <1>6, <1>7, HeldStays DEF Onward

LEMMA ArriveOnward ==
    ASSUME TypeOK, StampInv, NEW d \in Devices, Turn(d), NEW m \in wire, Arrive(m),
           \A x \in Devices : ~CutOff(x), \A x \in Devices : x # d => Blank(x)
    PROVE  Onward(d)
  <1>1. Sent(d) \/ (Done(d) /\ \E e \in SentEvents : Sending(d, e))
    BY PhaseIs DEF Turn, Done
  <1>2. PICK e \in SentEvents : Sending(d, e) /\ (Sent(d) => cycle[d].event = e)
    BY <1>1 DEF Sent
  <1>3. m.from = d /\ m.event = e
    BY <1>2 DEF Sending, Under
  <1>4. Sending(d, e)' /\ e \in SentEvents' /\ Reach \subseteq Reach' /\ \A x \in Devices : ~CutOff(x)'
    BY <1>2, SendingArrives
  <1>5. /\ log' = log /\ app' = app /\ fetch' = fetch /\ hydrated' = hydrated /\ timer' = timer
        /\ pending' = pending /\ lastSent' = lastSent /\ ref' = ref /\ high' = high /\ remote' = remote
    BY DEF Arrive, storeVars, memoryVars
  <1>6. \A x \in Devices : x # d => cycle'[x] = cycle[x]
    BY <1>3 DEF Arrive, TypeOK
  <1>7. cycle'[d].pc = cycle[d].pc /\ cycle'[d].event = cycle[d].event
    <2>1. cycle'[d] = cycle[d] \/ cycle'[d] = [cycle[d] EXCEPT !.landed = TRUE]
      BY <1>3 DEF Arrive, TypeOK
    <2>2. cycle[d] \in Cycles
      BY DEF TypeOK
    <2> QED
      BY <2>1, <2>2 DEF Cycles
  <1>8. \A x \in Devices : x # d => Blank(x)'
    BY <1>5, <1>6 DEF Blank
  <1>9. Turn(d)'
    <2>1. CASE Sent(d)
      <3>1. Live(d)' /\ timer'[d] = {} /\ cycle'[d].pc = "sent" /\ cycle'[d].event = e
        BY <1>2, <1>5, <1>7, <2>1 DEF Sent, Live
      <3>2. Sent(d)'
        BY <1>4, <3>1 DEF Sent
      <3> QED
        BY <3>2 DEF Turn
    <2>2. CASE Done(d)
      <3>1. Live(d)' /\ timer'[d] = {} /\ cycle'[d].pc = "idle"
        BY <1>5, <1>7, <2>2 DEF Done, Live
      <3>2. Done(d)'
        BY <1>4, <3>1 DEF Done
      <3> QED
        BY <3>2 DEF Turn
    <2> QED
      BY <1>1, <2>1, <2>2
  <1>10. log[d] \subseteq Authored
    BY DEF Authored
  <1> QED
    BY <1>4, <1>5, <1>8, <1>9, <1>10 DEF Onward

LEMMA SessionOnward ==
    ASSUME Healable, TypeOK, StampInv, Provenance, NEW d \in Devices, Turn(d), SessionStep(d),
           \A x \in Devices : ~CutOff(x), \A x \in Devices : x # d => Blank(x)
    PROVE  Onward(d)
  <1>1. CASE Open(d)
    <2>1. Blank(d) /\ wire = {}
      BY <1>1, PhaseIs DEF Turn, Open
    <2>2. Turn(d)'
      BY <1>1, <2>1, OpenPhase DEF Turn
    <2> QED
      BY <1>1, <2>2, CalmRests, RestsOnward
  <1>2. CASE Unreachable(d)
    BY <1>2, CalmReads DEF Unreachable
  <1>3. CASE Probe(d)
    <2>1. Probing(d)
      BY <1>3, PhaseIs DEF Turn, Probe
    <2>2. Turn(d)'
      BY <1>3, <2>1, ProbePhase DEF Turn
    <2> QED
      BY <1>3, <2>2, CalmRests, RestsOnward DEF Fetching
  <1>4. CASE ReadOutbox(d)
    <2>1. Reading(d)
      BY <1>4, PhaseIs DEF Turn, ReadOutbox
    <2>2. Turn(d)'
      BY <1>4, <2>1, ReadOutboxPhase DEF Turn
    <2> QED
      BY <1>4, <2>2, CalmRests, RestsOnward DEF Fetching
  <1>5. CASE Learn(d)
    <2>1. Reading(d)
      BY <1>5, PhaseIs DEF Turn, Learn
    <2> QED
      BY <1>5, <2>1, LearnOnward
  <1>6. CASE Merge(d)
    <2>1. Learnt(d)
      BY <1>6, PhaseIs DEF Turn, Merge
    <2> QED
      BY <1>6, <2>1, MergeOnward
  <1>7. CASE Fire(d)
    <2>1. Merged(d)
      BY <1>7, PhaseIs DEF Turn, Fire
    <2>2. Turn(d)'
      BY <1>7, <2>1, FirePhase DEF Turn
    <2> QED
      BY <1>7, <2>2, CalmRests, RestsOnward DEF Publishing
  <1>8. CASE Compact(d) \/ SendOutbox(d) \/ NothingToSend(d)
    <2>1. Started(d)
      BY <1>8, PhaseIs DEF Turn, Compact, SendOutbox, NothingToSend
    <2>2. Turn(d)'
      BY <1>8, <2>1, CompactPhase, SendOutboxPhase, NothingPhase DEF Turn
    <2> QED
      BY <1>8, <2>2, CalmRests, RestsOnward DEF Publishing
  <1>9. CASE Confirmed(d)
    <2>1. Sent(d)
      BY <1>9, PhaseIs DEF Turn, Confirmed
    <2>2. Turn(d)'
      BY <1>9, <2>1, ConfirmedPhase DEF Turn
    <2> QED
      BY <1>9, <2>2, CalmRests, RestsOnward DEF Publishing
  <1>10. CASE \E m \in wire : Arrive(m)
    BY <1>10, ArriveOnward
  <1> QED
    BY <1>1, <1>2, <1>3, <1>4, <1>5, <1>6, <1>7, <1>8, <1>9, <1>10
       DEF SessionStep, Fetching, Publishing

\* At the end of a session the relays offer what the device holds.
LEMMA RestIs ==
    ASSUME TypeOK, StampInv, NEW d \in Devices, Turn(d), AtRest(d)
    PROVE  log[d] = Reach
  <1>1. Done(d) /\ wire = {}
    BY PhaseIs DEF Turn, AtRest
  <1>2. CASE Knows(d, log[d]) /\ log[d] \subseteq Reach
    BY <1>2 DEF Knows
  <1>3. ASSUME NEW e \in SentEvents, Sending(d, e) PROVE log[d] = Reach
    <2>1. /\ Under(d, e) /\ (Folds(d, e) \/ Posts(d, e)) /\ Reach \subseteq log[d]
      BY <1>3 DEF Sending, Knows
    <2>2. \A r \in Relays : held[r][e.tag] = e
      BY <1>1, <2>1 DEF Under
    <2>3. e.stamp \in Nat
      BY SentEventsType
    <2>4. Newest(Relays, e.tag) = {e}
      BY <2>2, <2>3 DEF Newest
    <2>5. CASE Folds(d, e)
      <3>1. e.ops = log[d] /\ Newest(Relays, CheckpointTag) = {e}
        BY <2>4, <2>5 DEF Folds
      <3> QED
        BY <2>1, <3>1, ReachIs
    <2>6. CASE Posts(d, e)
      <3>1. PICK c \in Newest(Relays, CheckpointTag) : d \in Listed(c.ids) /\ log[d] \subseteq c.ops \cup e.ops
        BY <2>6 DEF Posts
      <3>2. Newest(Relays, CheckpointTag) = {c} /\ Newest(Relays, d) = {e}
        BY <2>4, <2>6, <3>1, CheckpointIs DEF Posts
      <3>3. c.ops \subseteq Reach /\ e.ops \subseteq Reach
        BY <3>1, <3>2, ReachIs
      <3> QED
        BY <2>1, <3>1, <3>3
    <2> QED
      BY <2>1, <2>5, <2>6
  <1> QED
    BY <1>1, <1>2, <1>3 DEF Done

\* The end of a session: the page closes and the next device is opened.
LEMMA CloseBlanks ==
    ASSUME TypeOK, NEW d \in Devices, Close(d)
    PROVE  Blank(d)' /\ held' = held /\ wire' = wire /\ seen' = seen /\ log' = log
  BY DEF Close, Blank, TypeOK, relayVars, storeVars

LEMMA HeadIs ==
    ASSUME left \in Seq(Devices), left # <<>>
    PROVE  /\ Head(left) \in Devices /\ Head(left) = left[1] /\ Len(left) \in Nat \ {0}
           /\ Tail(left) \in Seq(Devices) /\ Len(Tail(left)) = Len(left) - 1
           /\ \A i \in 1..(Len(left) - 1) : Tail(left)[i] = left[i + 1]
  OBVIOUS

LEMMA SessionProgress ==
    ASSUME NEW s \in Schedules, NEW n \in 0..Len(s), s \in Seq(Devices), Progress(s, n),
           left # <<>>, left' = left, NEW d \in Devices, d = Head(left), Onward(d)
    PROVE  Progress(s, n)'
  <1>1. /\ left \in Seq(Devices) /\ Len(s) = n + Len(left)
        /\ \A i \in 1..Len(left) : left[i] = s[n + i]
        /\ \A i \in 1..n : /\ s[i] # s[n + 1] => log[s[i]] \subseteq Reach
                           /\ Devices \subseteq {s[j] : j \in 1..(i - 1)} => Authored \subseteq log[s[i]]
    BY DEF Progress
  <1>2. d = s[n + 1]
    BY <1>1, HeadIs
  <1>3. \A x \in Devices : log[x] \subseteq log'[x]
    BY DEF Onward
  <1>4. Authored' \subseteq Authored
    <2>1. \A x \in Devices : log'[x] \subseteq Authored
      BY DEF Onward, Authored
    <2> QED
      BY <2>1 DEF Authored
  <1>5. ASSUME NEW i \in 1..n
        PROVE  /\ s[i] # s[n + 1] => log'[s[i]] \subseteq Reach'
               /\ Devices \subseteq {s[j] : j \in 1..(i - 1)} => Authored' \subseteq log'[s[i]]
    <2>1. s[i] \in Devices
      <3>1. i \in 1..Len(s)
        BY <1>1
      <3> QED
        BY <3>1
    <2>2. s[i] # s[n + 1] => log'[s[i]] \subseteq Reach'
      BY <1>1, <1>2, <2>1 DEF Onward
    <2>3. Devices \subseteq {s[j] : j \in 1..(i - 1)} => Authored' \subseteq log'[s[i]]
      BY <1>1, <1>3, <1>4, <2>1
    <2> QED
      BY <2>2, <2>3
  <1> QED
    BY <1>1, <1>5 DEF Progress

LEMMA NextProgress ==
    ASSUME NEW s \in Schedules, NEW n \in 0..Len(s), s \in Seq(Devices), Progress(s, n),
           left # <<>>, left' = Tail(left), log' = log, held' = held,
           log[Head(left)] = Reach
    PROVE  n + 1 \in 0..Len(s) /\ Progress(s, n + 1)'
  <1>1. /\ left \in Seq(Devices) /\ Len(s) = n + Len(left)
        /\ \A i \in 1..Len(left) : left[i] = s[n + i]
        /\ \A i \in 1..n : /\ s[i] # s[n + 1] => log[s[i]] \subseteq Reach
                           /\ Devices \subseteq {s[j] : j \in 1..(i - 1)} => Authored \subseteq log[s[i]]
    BY DEF Progress
  <1>2. /\ Head(left) = s[n + 1] /\ left' \in Seq(Devices) /\ Len(left') = Len(left) - 1
        /\ \A i \in 1..(Len(left) - 1) : left'[i] = left[i + 1]
        /\ Len(left) \in Nat \ {0} /\ n \in Nat
    BY <1>1, HeadIs
  <1>3. n + 1 \in 0..Len(s) /\ Len(s) = (n + 1) + Len(left')
    BY <1>1, <1>2
  <1>4. \A i \in 1..Len(left') : left'[i] = s[(n + 1) + i]
    <2>1. SUFFICES ASSUME NEW i \in 1..Len(left') PROVE left'[i] = s[(n + 1) + i]
      OBVIOUS
    <2>2. i + 1 \in 1..Len(left) /\ i \in 1..(Len(left) - 1) /\ n + (i + 1) = (n + 1) + i
      BY <1>2
    <2> QED
      BY <1>1, <1>2, <2>2
  <1>5. \A i \in 1..(n + 1) : log[s[i]] \subseteq Reach
    <2>1. SUFFICES ASSUME NEW i \in 1..(n + 1) PROVE log[s[i]] \subseteq Reach
      OBVIOUS
    <2>2. i = n + 1 \/ i \in 1..n
      BY <1>2
    <2> QED
      BY <1>1, <1>2, <2>2
  <1>6. \A i \in 1..(n + 1) :
            Devices \subseteq {s[j] : j \in 1..(i - 1)} => Authored \subseteq log[s[i]]
    <2>1. SUFFICES ASSUME NEW i \in 1..(n + 1), Devices \subseteq {s[j] : j \in 1..(i - 1)}
                   PROVE  Authored \subseteq log[s[i]]
      OBVIOUS
    <2>2. CASE i \in 1..n
      BY <1>1, <2>1, <2>2
    <2>3. CASE i = n + 1
      <3>1. ASSUME NEW x \in Devices PROVE log[x] \subseteq Reach
        <4>1. PICK j \in 1..(i - 1) : x = s[j]
          BY <2>1
        <4>2. j \in 1..(n + 1)
          BY <1>2, <2>3
        <4> QED
          BY <1>5, <4>1, <4>2
      <3>2. Authored \subseteq Reach
        BY <3>1 DEF Authored
      <3> QED
        BY <1>2, <2>3, <3>2
    <2> QED
      BY <1>2, <2>2, <2>3
  <1>7. Reach' = Reach /\ Authored' = Authored
    BY HeldStays DEF Authored
  <1>8. Progress(s, n + 1)'
    BY <1>2, <1>3, <1>4, <1>5, <1>6, <1>7 DEF Progress
  <1> QED
    BY <1>3, <1>8

-----------------------------------------------------------------------------
(* The rounds as a whole.                                                  *)

RoundsInv ==
    /\ TypeOK /\ Provenance /\ MarkInv /\ StampInv
    /\ left \in Seq(Devices) /\ CalmInv

\* When the pages close, what was under way is lost and nothing else.
LEMMA CalmDownKeeps ==
    ASSUME RoundsInv, CalmDown
    PROVE  /\ TypeOK' /\ Provenance' /\ MarkInv' /\ StampInv'
           /\ left' \in Seq(Devices) /\ \A d \in Devices : Blank(d)'
  <1>1. /\ held' = held /\ now' = now /\ log' = log /\ seen' = seen /\ wire' = {}
        /\ app' = [d \in Devices |-> "closed"] /\ ref' = [d \in Devices |-> NoRef]
        /\ high' = [d \in Devices |-> 0] /\ remote' = [d \in Devices |-> "unknown"]
        /\ hydrated' = [d \in Devices |-> FALSE] /\ lastSent' = [d \in Devices |-> {}]
        /\ fetch' = [d \in Devices |-> NoFetch] /\ timer' = [d \in Devices |-> {}]
        /\ pending' = [d \in Devices |-> FALSE] /\ cycle' = [d \in Devices |-> Idle]
    BY DEF CalmDown, storeVars
  <1>2. TypeOK'
    BY <1>1, ConstantsType DEF RoundsInv, TypeOK
  <1>3. Provenance'
    <2>1. Authored' = Authored
      BY <1>1 DEF Authored
    <2>2. Idle.ops = {} /\ NoFetch.got = {}
      BY DEF Idle, NoFetch
    <2> QED
      BY <1>1, <2>1, <2>2 DEF RoundsInv, Provenance
  <1>4. MarkInv'
    <2>1. NoFetch.pc = "none"
      BY DEF NoFetch
    <2> QED
      BY <1>1, <2>1 DEF MarkInv
  <1>5. EventsInv'
    <2>1. SentEvents' \subseteq SentEvents
      BY <1>1 DEF SentEvents
    <2>2. EventsInv
      BY DEF RoundsInv, StampInv
    <2> QED
      BY <1>1, <2>1, <2>2 DEF EventsInv
  <1>6. ASSUME NEW d \in Devices PROVE ReadInv(d)'
    <2>1. ReadInv(d)
      BY DEF RoundsInv, StampInv
    <2>2. /\ ref'[d].ids = <<>> /\ fetch'[d].found = Nothing(CheckpointTag) /\ fetch'[d].pc = "none"
          /\ cycle'[d].event = Nothing(CheckpointTag)
      BY <1>1, BegunIs DEF NoRef, NoFetch
    <2>3. Nothing(CheckpointTag).ids = <<>> /\ Nothing(CheckpointTag).stamp = 0 /\ Once(<<>>)
      BY DEF Nothing, Once
    <2>4. Below(0)
      <3>1. PICK r : r \in Relays
        OBVIOUS
      <3>2. held[r][CheckpointTag] \in Events
        BY <3>1 DEF RoundsInv, TypeOK, Tags
      <3>3. 0 <= held[r][CheckpointTag].stamp
        BY <3>2 DEF Events
      <3> QED
        BY <3>1, <3>3 DEF Below
    <2> QED
      BY <1>1, <2>1, <2>2, <2>3, <2>4 DEF ReadInv, Below
  <1>7. left' \in Seq(Devices)
    BY ScheduleAssumption DEF CalmDown
  <1>8. \A d \in Devices : Blank(d)'
    BY <1>1 DEF Blank
  <1> QED
    BY <1>2, <1>3, <1>4, <1>5, <1>6, <1>7, <1>8 DEF StampInv

\* Every other step is one of the rail.
LEMMA RoundsStep ==
    ASSUME left \in Seq(Devices), Storm \/ Session \/ NextSession
    PROVE  Next /\ left' \in Seq(Devices)
  <1>1. CASE Storm
    BY <1>1 DEF Storm
  <1>2. CASE Session
    <2>1. Head(left) \in Devices /\ SessionStep(Head(left)) /\ left' = left
      BY <1>2, HeadIs DEF Session
    <2> QED
      BY <2>1 DEF SessionStep, Next
  <1>3. CASE NextSession
    <2>1. Head(left) \in Devices /\ Close(Head(left)) /\ left' = Tail(left) /\ Tail(left) \in Seq(Devices)
      BY <1>3, HeadIs DEF NextSession
    <2> QED
      BY <2>1 DEF Next
  <1> QED
    BY <1>1, <1>2, <1>3

LEMMA CalmDownCalm ==
    ASSUME RoundsInv, CalmDown
    PROVE  CalmInv'
  <1>1. SUFFICES ASSUME cut' = {} PROVE CalmInv'
    BY DEF CalmInv
  <1>2. (\A d \in Devices : Blank(d)') /\ left' \in Seq(Devices) /\ wire' = {}
    BY CalmDownKeeps DEF CalmDown
  <1>3. held' = held /\ seen' = seen /\ cut' = {d \in Devices : CutOff(d)} /\ left' \in Schedules
    BY DEF CalmDown, storeVars
  <1>4. \A d \in Devices : ~CutOff(d)'
    BY <1>1, <1>3, HeldStays DEF CutOff
  <1>5. PICK s \in Schedules : left' = s
    BY <1>3
  <1>6. Progress(s, 0)' /\ 0 \in 0..Len(s)
    <2>1. s \in Seq(Devices)
      BY <1>2, <1>5
    <2>2. Len(s) \in Nat /\ \A i \in 1..Len(s) : s[i] = s[0 + i]
      BY <2>1
    <2> QED
      BY <1>5, <2>1, <2>2 DEF Progress
  <1>7. \A d \in Devices : Turn(d)'
    <2>1. SUFFICES ASSUME NEW d \in Devices PROVE Turn(d)'
      OBVIOUS
    <2>2. Blank(d)' /\ wire' = {}
      BY <1>2
    <2> QED
      BY <2>2 DEF Turn
  <1>8. \E q \in Schedules : \E n \in 0..Len(q) : Progress(q, n)'
    BY <1>6
  <1> QED
    BY <1>2, <1>4, <1>7, <1>8 DEF CalmInv

\* A step that changes nothing.
LEMMA CalmStays ==
    ASSUME CalmInv, vars' = vars, calm' = calm, left' = left, cut' = cut
    PROVE  CalmInv'
  <1>1. SUFFICES ASSUME calm, cut = {} PROVE CalmInv'
    BY DEF CalmInv
  <1>2. /\ held' = held /\ wire' = wire /\ now' = now /\ log' = log /\ seen' = seen /\ app' = app
        /\ ref' = ref /\ high' = high /\ remote' = remote /\ hydrated' = hydrated
        /\ lastSent' = lastSent /\ fetch' = fetch /\ timer' = timer /\ pending' = pending /\ cycle' = cycle
    BY DEF vars, relayVars, storeVars, memoryVars, cycleVars
  <1>3. /\ \A t : Newest(Relays, t)' = Newest(Relays, t)
        /\ Reach' = Reach /\ \A d : OwnOutbox(d)' = OwnOutbox(d)
    BY <1>2, HeldStays
  <1>4. \A d \in Devices : ~CutOff(d)'
    BY <1>1, <1>2, <1>3 DEF CalmInv, CutOff
  <1>5. \A d \in Devices : Blank(d) => Blank(d)'
    BY <1>2 DEF Blank
  <1>6. ASSUME NEW d \in Devices, Turn(d) PROVE Turn(d)'
    <2>1. Probing(d) => Probing(d)'
      BY <1>2 DEF Probing, Untouched
    <2>2. Reading(d) => Reading(d)'
      BY <1>2, <1>3 DEF Reading, Untouched
    <2>3. Adopted(d) => Adopted(d)'
      BY <1>2, <1>3 DEF Adopted
    <2>4. Knows(d, log[d]) => Knows(d, log[d])'
      BY <1>2, <1>3 DEF Knows
    <2>5. Learnt(d) => Learnt(d)'
      <3>1. Knows(d, fetch[d].got) => Knows(d, fetch[d].got)'
        BY <1>2, <1>3 DEF Knows
      <3> QED
        BY <1>2, <2>3, <3>1 DEF Learnt, Untouched
    <2>6. Merged(d) => Merged(d)'
      BY <1>2, <2>3, <2>4 DEF Merged, Live
    <2>7. Started(d) => Started(d)'
      BY <1>2, <2>3, <2>4 DEF Started, Live
    <2>8. ASSUME NEW e \in SentEvents, Sending(d, e) PROVE e \in SentEvents' /\ Sending(d, e)'
      <3>1. Under(d, e)'
        BY <1>2, <2>8 DEF Sending, Under
      <3>2. Folds(d, e)' \/ Posts(d, e)'
        BY <1>2, <1>3, <2>8 DEF Sending, Folds, Posts
      <3> QED
        BY <1>2, <2>4, <2>8, <3>1, <3>2 DEF Sending, SentEvents
    <2>9. Sent(d) => Sent(d)'
      BY <1>2, <2>8 DEF Sent, Live
    <2>10. Done(d) => Done(d)'
      BY <1>2, <1>3, <2>4, <2>8 DEF Done, Live
    <2> QED
      BY <1>2, <1>5, <1>6, <2>1, <2>2, <2>5, <2>6, <2>7, <2>9, <2>10 DEF Turn
  <1>7. ASSUME NEW s, NEW n, Progress(s, n) PROVE Progress(s, n)'
    <2>1. Authored' = Authored
      BY <1>2 DEF Authored
    <2> QED
      BY <1>2, <1>3, <1>7, <2>1 DEF Progress
  <1>8. \E s \in Schedules : \E n \in 0..Len(s) : Progress(s, n)'
    BY <1>1, <1>7 DEF CalmInv
  <1> QED
    BY <1>1, <1>2, <1>4, <1>5, <1>6, <1>8 DEF CalmInv

\* A step of the calm.
LEMMA SessionCalm ==
    ASSUME Healable, RoundsInv, Session
    PROVE  CalmInv'
  <1>1. SUFFICES ASSUME cut' = {} PROVE CalmInv'
    BY DEF CalmInv
  <1>2. calm /\ left # <<>> /\ left' = left /\ cut = {} /\ SessionStep(Head(left))
    BY <1>1 DEF Session
  <1>3. PICK d \in Devices : d = Head(left)
    BY <1>2, HeadIs DEF RoundsInv
  <1>4. /\ \A x \in Devices : ~CutOff(x)
        /\ \A x \in Devices : x # d => Blank(x)
        /\ Turn(d)
        /\ \E s \in Schedules : \E n \in 0..Len(s) : Progress(s, n)
    BY <1>2, <1>3 DEF RoundsInv, CalmInv
  <1>5. Onward(d)
    BY <1>2, <1>3, <1>4, SessionOnward DEF RoundsInv
  <1>6. PICK s \in Schedules : \E n \in 0..Len(s) : Progress(s, n)
    BY <1>4
  <1>7. PICK n \in 0..Len(s) : Progress(s, n)
    BY <1>6
  <1>8. Progress(s, n)'
    BY <1>2, <1>3, <1>5, <1>7, ScheduleAssumption, SessionProgress
  <1>9. \E q \in Schedules : \E k \in 0..Len(q) : Progress(q, k)'
    BY <1>8
  <1>10. Turn(d)' /\ (\A x \in Devices : ~CutOff(x)') /\ \A x \in Devices : x # d => Blank(x)'
    BY <1>5 DEF Onward
  <1> QED
    BY <1>2, <1>3, <1>9, <1>10 DEF CalmInv

LEMMA NextSessionCalm ==
    ASSUME RoundsInv, NextSession
    PROVE  CalmInv'
  <1>1. SUFFICES ASSUME cut' = {} PROVE CalmInv'
    BY DEF CalmInv
  <1>2. /\ calm /\ left # <<>> /\ left' = Tail(left) /\ cut = {}
        /\ AtRest(Head(left)) /\ Close(Head(left))
    BY <1>1 DEF NextSession
  <1>3. PICK d \in Devices : d = Head(left)
    BY <1>2, HeadIs DEF RoundsInv
  <1>4. /\ \A x \in Devices : ~CutOff(x)
        /\ \A x \in Devices : x # d => Blank(x)
        /\ Turn(d)
        /\ \E s \in Schedules : \E n \in 0..Len(s) : Progress(s, n)
    BY <1>2, <1>3 DEF RoundsInv, CalmInv
  <1>5. Blank(d)' /\ held' = held /\ wire' = wire /\ seen' = seen /\ log' = log
    BY <1>2, <1>3, CloseBlanks DEF RoundsInv
  <1>6. wire' = {}
    BY <1>2, <1>3, <1>5 DEF AtRest
  <1>7. \A x \in Devices : Blank(x)'
    BY <1>2, <1>3, <1>4, <1>5, OthersBlank DEF RoundsInv
  <1>8. \A x \in Devices : Turn(x)'
    BY <1>6, <1>7 DEF Turn
  <1>9. \A x \in Devices : ~CutOff(x)'
    BY <1>4, <1>5, HeldStays DEF CutOff
  <1>10. log[Head(left)] = Reach
    BY <1>2, <1>3, <1>4, RestIs DEF RoundsInv
  <1>11. PICK s \in Schedules : \E n \in 0..Len(s) : Progress(s, n)
    BY <1>4
  <1>12. PICK n \in 0..Len(s) : Progress(s, n)
    BY <1>11
  <1>13. n + 1 \in 0..Len(s) /\ Progress(s, n + 1)'
    BY <1>2, <1>5, <1>10, <1>12, ScheduleAssumption, NextProgress
  <1>14. \E q \in Schedules : \E k \in 0..Len(q) : Progress(q, k)'
    BY <1>13
  <1> QED
    BY <1>6, <1>7, <1>8, <1>9, <1>14 DEF CalmInv

LEMMA RoundsNextInv == Healable /\ RoundsInv /\ [RoundsNext]_roundVars => RoundsInv'
  <1> SUFFICES ASSUME Healable, RoundsInv, [RoundsNext]_roundVars PROVE RoundsInv'
    OBVIOUS
  <1>1. TypeOK /\ Provenance /\ MarkInv /\ StampInv /\ left \in Seq(Devices) /\ CalmInv
    BY DEF RoundsInv
  <1>2. ASSUME [Next]_vars PROVE TypeOK' /\ Provenance' /\ MarkInv' /\ StampInv'
    BY <1>1, <1>2, TypeNext, ProvenanceNext, MarkNext, StampNext
  <1>3. CASE Storm
    <2>1. Next /\ left' \in Seq(Devices)
      BY <1>1, <1>3, RoundsStep
    <2>2. CalmInv'
      BY <1>3 DEF Storm, CalmInv
    <2> QED
      BY <1>2, <2>1, <2>2 DEF RoundsInv
  <1>4. CASE CalmDown
    BY <1>4, CalmDownKeeps, CalmDownCalm DEF RoundsInv
  <1>5. CASE Session
    <2>1. Next /\ left' \in Seq(Devices)
      BY <1>1, <1>5, RoundsStep
    <2> QED
      BY <1>2, <1>5, <2>1, SessionCalm DEF RoundsInv
  <1>6. CASE NextSession
    <2>1. Next /\ left' \in Seq(Devices)
      BY <1>1, <1>6, RoundsStep
    <2> QED
      BY <1>2, <1>6, <2>1, NextSessionCalm DEF RoundsInv
  <1>7. CASE UNCHANGED roundVars
    <2>1. /\ vars' = vars /\ calm' = calm /\ left' = left /\ cut' = cut
      BY <1>7 DEF roundVars
    <2>2. CalmInv'
      BY <1>1, <2>1, CalmStays
    <2> QED
      BY <1>1, <1>2, <2>1, <2>2 DEF RoundsInv
  <1> QED
    BY <1>3, <1>4, <1>5, <1>6, <1>7 DEF RoundsNext

\* Once the schedule is done every device holds all that was authored.
LEMMA CalmHeals == Healable /\ RoundsInv => HealsUnlessCutOff
  <1> SUFFICES ASSUME Healable, RoundsInv, Settled, cut = {} PROVE Healed
    BY DEF HealsUnlessCutOff
  <1>1. PICK s \in Schedules : \E n \in 0..Len(s) : Progress(s, n)
    BY DEF RoundsInv, CalmInv, Settled
  <1>2. PICK n \in 0..Len(s) : Progress(s, n)
    BY <1>1
  <1>3. s \in Seq(Devices) /\ Len(s) = n
    <2>1. Len(s) = n + Len(left) /\ left = <<>>
      BY <1>2 DEF Progress, Settled
    <2>2. s \in Seq(Devices)
      BY ScheduleAssumption
    <2> QED
      BY <2>1, <2>2
  <1>4. ASSUME NEW d \in Devices PROVE log[d] = Authored
    <2>1. PICK i \in DOMAIN s : s[i] = d /\ Devices \subseteq {s[j] : j \in 1..(i - 1)}
      BY DEF Healable
    <2>2. i \in 1..n
      BY <1>3
    <2>3. Authored \subseteq log[d]
      BY <1>2, <2>1, <2>2 DEF Progress
    <2> QED
      BY <2>3 DEF Authored
  <1> QED
    BY <1>4 DEF Healed

(* While no cap is met and reads are whole, every operation authored comes  *)
(* back to every device once each was opened in turn, twice over, whatever  *)
(* edits, closed pages, lost events and silent signers came before, unless  *)
(* a device was cut off: nothing is then left for trigger (d) of            *)
(* shouldPublishCheckpoint to heal.                                         *)
THEOREM HealsHolds == ASSUME Healable PROVE RoundsSpec => []HealsUnlessCutOff
  <1>1. RoundsInit => RoundsInv
    <2> SUFFICES ASSUME RoundsInit PROVE RoundsInv
      OBVIOUS
    <2>1. TypeOK /\ Provenance /\ StampInv
      BY TypeInit, ProvenanceInit, StampInit DEF RoundsInit
    <2>2. MarkInv
      BY DEF RoundsInit, Init, MarkInv, NoFetch
    <2>3. left \in Seq(Devices) /\ CalmInv
      BY DEF RoundsInit, CalmInv
    <2> QED
      BY <2>1, <2>2, <2>3 DEF RoundsInv
  <1>2. Healable
    OBVIOUS
  <1>3. RoundsInv /\ [RoundsNext]_roundVars => RoundsInv'
    BY <1>2, RoundsNextInv
  <1>4. RoundsInv => HealsUnlessCutOff
    BY <1>2, CalmHeals
  <1> QED
    BY <1>1, <1>3, <1>4, PTL DEF RoundsSpec
=============================================================================
