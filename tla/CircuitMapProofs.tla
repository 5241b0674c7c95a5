-------------------------- MODULE CircuitMapProofs --------------------------
(***************************************************************************)
(* The circuit map keeps its memory and its buckets consistent, for any    *)
(* set of circuits and any number of outgoing ids, as long as its clients  *)
(* keep to the rules of CircuitMap.                                        *)
(***************************************************************************)
EXTENDS CircuitMap, TLAPS

USE CircuitMapAssumption DEF OutId, NoOut

\* An empty map satisfies the inductive invariant.
LEMMA InitIInv == Init => IInv
  BY DEF Init, IInv, TypeOK, IndexesAgree, MemoryIsDurable, NoStrayKeystone, OneKeystonePerCircuit,
         NoDisjointSegments, CallsFit, KeystonesAccounted, Ids, NoKeystones, NoCircuits

\* CommitCircuits entering a circuit into memory preserves the invariant.
LEMMA CommitMemoryIInv ==
  ASSUME IInv, NEW k \in InKey, MayCommit(k), CommitMemory(k)
  PROVE  IInv'
  BY DEF CommitMemory, CommitAction, MayCommit, IInv, TypeOK, IndexesAgree, MemoryIsDurable, NoStrayKeystone, OneKeystonePerCircuit,
         NoDisjointSegments, CallsFit, KeystonesAccounted, Ids, NoKeystones, Removed, disk

\* The write of CommitCircuits preserves the invariant.
LEMMA CommitDiskIInv ==
  ASSUME IInv, NEW k \in InKey, CommitDisk(k)
  PROVE  IInv'
  BY DEF CommitDisk, IInv, TypeOK, IndexesAgree, MemoryIsDurable, NoStrayKeystone, OneKeystonePerCircuit,
         NoDisjointSegments, CallsFit, KeystonesAccounted, Ids, NoKeystones, Removed, memory

\* The rollback of a failed CommitCircuits preserves the invariant.
LEMMA CommitFailsIInv ==
  ASSUME IInv, NEW k \in InKey, CommitFails(k)
  PROVE  IInv'
  BY DEF CommitFails, IInv, TypeOK, IndexesAgree, MemoryIsDurable, NoStrayKeystone, OneKeystonePerCircuit,
         NoDisjointSegments, CallsFit, KeystonesAccounted, Ids, NoKeystones, Removed, disk

\* The keystones OpenCircuits writes are of committed circuits that have none.
LEMMA OpenDiskIInv ==
  ASSUME IInv, NEW ks \in [OutId -> InKey \cup {NoKey}], MayOpen(ks), OpenDisk(ks)
  PROVE  IInv'
<1>1. TypeOK' /\ IndexesAgree' /\ MemoryIsDurable' /\ NoDisjointSegments'
  BY DEF OpenDisk, OpenAccepted, MayOpen, Written, IInv, TypeOK, IndexesAgree, MemoryIsDurable,
         NoDisjointSegments, Ids, NoKeystones, KeystonesAccounted, memory
<1>2. /\ TypeOK
      /\ keystoneBkt' = [o \in OutId |-> IF ks[o] # NoKey THEN ks[o] ELSE keystoneBkt[o]]
      /\ circuitBkt' = circuitBkt
  BY Zenon DEF OpenDisk, Written, IInv
<1>5. ASSUME NEW o \in OutId, ks[o] # NoKey
      PROVE  /\ ks[o] \in InKey /\ pending[ks[o]] # "none" /\ outgoing[ks[o]] = NoOut
             /\ ks[o] \in circuitBkt
             /\ \A i \in OutId : ks[i] = ks[o] => i = o
             /\ \A i \in OutId : keystoneBkt[i] # ks[o]
  <2>1. ks[o] \in InKey /\ pending[ks[o]] # "none" /\ outgoing[ks[o]] = NoOut /\ ks[o] \notin commits
    BY <1>5 DEF OpenDisk, OpenAccepted, MayOpen, Ids
  <2>2. \A i \in OutId : ks[i] = ks[o] => i = o
    BY <1>5, Zenon DEF MayOpen, Ids
  <2>3. ASSUME NEW i \in OutId, keystoneBkt[i] = ks[o]
        PROVE  FALSE
    <3>1. opens[i] = NoKey /\ trims = {}
      BY Zenon DEF MayOpen, NoKeystones
    <3>2. opened[i] # ks[o]
      BY <2>1 DEF IInv, IndexesAgree
    <3>3. \A r \in deletes : r.key # ks[o]
      BY <2>1 DEF IInv, CallsFit
    <3>. QED
      BY <1>5, <2>3, <3>1, <3>2, <3>3 DEF IInv, KeystonesAccounted
  <2>. QED
    BY <2>1, <2>2, <2>3, Zenon DEF IInv, MemoryIsDurable
<1>6. NoStrayKeystone'
  BY <1>2, <1>5, Zenon DEF IInv, NoStrayKeystone
<1>7. OneKeystonePerCircuit'
  <2>. SUFFICES ASSUME NEW o \in OutId, NEW i \in OutId,
                       keystoneBkt'[o] = keystoneBkt'[i], keystoneBkt'[o] # NoKey
                PROVE  o = i
    BY Zenon DEF OneKeystonePerCircuit
  <2>1. CASE ks[o] # NoKey
    BY <1>2, <1>5, <2>1, Zenon
  <2>2. CASE ks[o] = NoKey
    BY <1>2, <1>5, <2>2, Zenon DEF IInv, OneKeystonePerCircuit
  <2>. QED
    BY <2>1, <2>2, Zenon
<1>3. CallsFit'
  BY DEF OpenDisk, OpenAccepted, MayOpen, Written, IInv, TypeOK, CallsFit, Ids, NoKeystones, Removed, memory
<1>4. KeystonesAccounted'
  BY DEF OpenDisk, OpenAccepted, MayOpen, Written, IInv, TypeOK, CallsFit, KeystonesAccounted, Ids, NoKeystones, memory
<1>. QED
  BY <1>1, <1>3, <1>4, <1>6, <1>7, Zenon DEF IInv

\* Entering the written keystones into the indexes preserves the invariant.
LEMMA OpenMemoryIInv ==
  ASSUME IInv, OpenMemory
  PROVE  IInv'
  BY DEF OpenMemory, Bound, IInv, TypeOK, IndexesAgree, MemoryIsDurable, NoStrayKeystone, OneKeystonePerCircuit,
         NoDisjointSegments, CallsFit, KeystonesAccounted, Ids, NoKeystones, Removed, disk

\* Signing for open keystones preserves the invariant.
LEMMA SignIInv ==
  ASSUME IInv, NEW n \in 1..(MaxOut + 1), Sign(n)
  PROVE  IInv'
  BY DEF Sign, MaySign, IInv, TypeOK, IndexesAgree, MemoryIsDurable, NoStrayKeystone, OneKeystonePerCircuit,
         NoDisjointSegments, CallsFit, KeystonesAccounted, Ids, NoKeystones, Removed, disk, memory, calls

\* Marking a circuit as closing touches no index.
LEMMA MarkClosedIInv ==
  ASSUME IInv, NEW k \in InKey, MarkClosed(k)
  PROVE  IInv'
  BY DEF MarkClosed, IInv, TypeOK, IndexesAgree, MemoryIsDurable, NoStrayKeystone, OneKeystonePerCircuit,
         NoDisjointSegments, CallsFit, KeystonesAccounted, Ids, NoKeystones, Removed, disk, calls

\* DeleteCircuits takes a circuit out of both indexes together.
LEMMA DeleteMemoryIInv ==
  ASSUME IInv, NEW K \in SUBSET InKey, MayDelete(K), DeleteMemory(K)
  PROVE  IInv'
<1>. DEFINE gone == Known(K)
            removed == {RemovedCircuit(k) : k \in gone}
<1>1. TypeOK
  BY Zenon DEF IInv
<1>2. /\ pending' = [k \in InKey |-> IF k \in K THEN "none" ELSE pending[k]]
      /\ outgoing' = [k \in InKey |-> IF k \in K THEN NoOut ELSE outgoing[k]]
      /\ closed' = closed \ gone
      /\ opened' = [o \in OutId |-> IF \E k \in gone : outgoing[k] = o
                                    THEN NoKey ELSE opened[o]]
      /\ hashIndex' \subseteq hashIndex
      /\ deletes' = deletes \cup removed
      /\ UNCHANGED <<circuitBkt, keystoneBkt, commits, opens, trims, nextId>>
  BY Zenon DEF DeleteMemory, disk
<1>3. \A k \in gone : k \in K /\ k \in InKey /\ pending[k] # "none"
  BY Zenon DEF Known
<1>4. opened' \in [OutId -> InKey \cup {NoKey}]
  BY <1>1, <1>2, Zenon DEF TypeOK
<1>5. ASSUME NEW k \in gone
      PROVE  /\ RemovedCircuit(k) \in Removed
             /\ RemovedCircuit(k).key = k /\ RemovedCircuit(k).out = outgoing[k]
  <2>1. pending[k] \in {"mem", "disk"} /\ outgoing[k] \in OutId \cup {NoOut} /\ (k \in closed) \in BOOLEAN
    BY <1>1, <1>3 DEF TypeOK
  <2>. QED
    BY <1>3, <2>1, Zenon DEF RemovedCircuit, Removed
<1>6. \A o \in OutId : opened'[o] # NoKey => opened'[o] = opened[o] /\ opened[o] \notin K
  BY <1>1, <1>2, <1>3, Zenon DEF IInv, IndexesAgree, TypeOK, Known
<1>7. \A o \in OutId : o >= nextId => opened'[o] = opened[o]
  <2>. SUFFICES ASSUME NEW o \in OutId, o >= nextId, NEW k \in gone, outgoing[k] = o
                PROVE  FALSE
    BY <1>2, Zenon
  <2>1. o # NoOut /\ ~(o < nextId)
    BY <1>1 DEF TypeOK
  <2>. QED
    BY <1>3, <2>1, Zenon DEF MayDelete
<1>8. TypeOK'
  BY <1>1, <1>2, <1>4, <1>5 DEF TypeOK
<1>9. IndexesAgree'
  <2>1. \A o \in OutId : opened'[o] # NoKey => pending'[opened'[o]] # "none" /\ outgoing'[opened'[o]] = o
    BY <1>1, <1>2, <1>6 DEF IInv, IndexesAgree, TypeOK
  <2>2. \A k \in InKey : outgoing'[k] # NoOut => opened'[outgoing'[k]] = k
    <3>. SUFFICES ASSUME NEW k \in InKey, k \notin K, outgoing[k] # NoOut
                  PROVE  opened'[outgoing[k]] = k
      BY <1>1, <1>2, Zenon DEF TypeOK
    <3>1. opened[outgoing[k]] = k /\ outgoing[k] \in OutId
      BY <1>1 DEF IInv, IndexesAgree, TypeOK
    <3>2. \A j \in gone : outgoing[j] # outgoing[k]
      BY <1>1, <1>3, <3>1 DEF IInv, IndexesAgree, TypeOK
    <3>. QED
      BY <1>2, <3>1, <3>2, Zenon
  <2>. QED
    BY <2>1, <2>2, Zenon DEF IndexesAgree
<1>10. MemoryIsDurable'
  BY <1>1, <1>2, <1>6, Zenon DEF IInv, MemoryIsDurable, TypeOK
<1>11. NoStrayKeystone' /\ OneKeystonePerCircuit'
  BY <1>2, Zenon DEF IInv, NoStrayKeystone, OneKeystonePerCircuit
<1>12. NoDisjointSegments'
  BY <1>1, <1>2, <1>7 DEF IInv, NoDisjointSegments, TypeOK
<1>13. CallsFit'
  <2>1. \A k \in commits' : pending'[k] # "none" /\ outgoing'[k] = NoOut
    BY <1>1, <1>2, Zenon DEF IInv, CallsFit, MayDelete, TypeOK
  <2>2. \A o \in Ids(opens) : opens[o] \notin K /\ opens[o] \in InKey
    BY <1>1, Zenon DEF MayDelete, Bound, Ids, TypeOK
  <2>3. ASSUME NEW o \in Ids(opens)
        PROVE  /\ o >= nextId /\ opened'[o] = NoKey /\ keystoneBkt[o] = opens[o]
               /\ pending'[opens[o]] # "none" /\ outgoing'[opens[o]] = NoOut
               /\ opens[o] \notin commits
               /\ \A i \in Ids(opens) : opens[i] = opens[o] => i = o
               /\ \A i \in nextId..o : opened'[i] # NoKey \/ i \in Ids(opens)
    <3>1. o \in OutId /\ o >= nextId /\ opened[o] = NoKey /\ nextId \in Nat
      BY <1>1 DEF IInv, CallsFit, Ids, TypeOK
    <3>2. pending'[opens[o]] # "none" /\ outgoing'[opens[o]] = NoOut
      BY <1>2, <2>2, Zenon DEF IInv, CallsFit
    <3>3. \A i \in nextId..o : opened'[i] = opened[i]
      BY <1>7, <3>1
    <3>. QED
      BY <1>7, <3>1, <3>2, <3>3, Zenon DEF IInv, CallsFit
  <2>4. /\ trims' # {} => opens' = NoKeystones
        /\ \A o \in trims' : /\ o >= nextId' /\ opened'[o] = NoKey /\ keystoneBkt'[o] # NoKey
                             /\ \A i \in nextId'..o : i \in trims'
    BY <1>1, <1>2, <1>7, Zenon DEF IInv, CallsFit, TypeOK
  <2>5. ASSUME NEW k \in gone
        PROVE  /\ pending'[k] = "none" /\ outgoing'[k] = NoOut
               /\ k \in circuitBkt
               /\ outgoing[k] # NoOut => /\ keystoneBkt[outgoing[k]] = k
                                         /\ opened'[outgoing[k]] = NoKey
                                         /\ outgoing[k] < nextId
    <3>1. k \in circuitBkt /\ (outgoing[k] # NoOut => outgoing[k] < nextId)
      BY <1>3, Zenon DEF MayDelete, IInv, MemoryIsDurable
    <3>2. outgoing[k] # NoOut => opened[outgoing[k]] = k /\ outgoing[k] \in OutId
      BY <1>1, <1>3 DEF IInv, IndexesAgree, TypeOK
    <3>. QED
      BY <1>1, <1>2, <1>3, <3>1, <3>2, Zenon DEF IInv, MemoryIsDurable, TypeOK
  <2>6. ASSUME NEW r \in deletes
        PROVE  /\ pending'[r.key] = "none" /\ outgoing'[r.key] = NoOut
               /\ r.key \in circuitBkt'
               /\ r.out # NoOut => /\ keystoneBkt'[r.out] = r.key /\ opened'[r.out] = NoKey
                                   /\ r.out < nextId'
    BY <1>1, <1>2, <1>3, Zenon DEF IInv, CallsFit, TypeOK, Removed
  <2>7. \A r \in deletes : r.key \notin gone
    BY <1>3, Zenon DEF IInv, CallsFit
  <2>8. \A r, s \in deletes' : s.key = r.key => s = r
    BY <1>2, <1>5, <2>7 DEF IInv, CallsFit
  <2>9. ASSUME NEW r \in deletes'
        PROVE  /\ pending'[r.key] = "none" /\ outgoing'[r.key] = NoOut
               /\ r.key \in circuitBkt'
               /\ r.out # NoOut => /\ keystoneBkt'[r.out] = r.key /\ opened'[r.out] = NoKey
                                   /\ r.out < nextId'
    <3>1. CASE r \in deletes
      BY <2>6, <3>1, Zenon
    <3>2. CASE r \in removed
      <4>1. PICK k \in gone : r = RemovedCircuit(k)
        BY <3>2, Zenon
      <4>2. r.key = k /\ r.out = outgoing[k]
        BY <1>5, <4>1, Zenon
      <4>. QED
        <5>1. pending'[r.key] = "none" /\ outgoing'[r.key] = NoOut /\ r.key \in circuitBkt
          BY <2>5, <4>2, Zenon
        <5>2. r.out # NoOut => keystoneBkt[r.out] = r.key /\ opened'[r.out] = NoKey /\ r.out < nextId
          BY <2>5, <4>2
        <5>3. circuitBkt' = circuitBkt /\ keystoneBkt' = keystoneBkt /\ nextId' = nextId
          BY <1>2, Zenon
        <5>. HIDE DEF gone, removed
        <5>. QED
          BY <5>1, <5>2, <5>3, Zenon
    <3>. QED
      BY <1>2, <3>1, <3>2, Zenon
  <2>10. Ids(opens)' = Ids(opens)
    BY <1>2, Zenon DEF Ids
  <2>. QED
    <3>1. \A o \in Ids(opens)' :
             /\ o >= nextId' /\ opened'[o] = NoKey /\ keystoneBkt'[o] = opens'[o]
             /\ pending'[opens'[o]] # "none" /\ outgoing'[opens'[o]] = NoOut
             /\ opens'[o] \notin commits'
             /\ \A i \in Ids(opens)' : opens'[i] = opens'[o] => i = o
             /\ \A i \in nextId'..o : opened'[i] # NoKey \/ i \in Ids(opens)'
      BY <1>2, <2>3, <2>10
    <3>. HIDE DEF gone, removed
    <3>. QED
      BY <2>1, <2>4, <2>8, <2>9, <3>1, Zenon DEF CallsFit
<1>14. KeystonesAccounted'
  <2>. SUFFICES ASSUME NEW o \in OutId, keystoneBkt[o] # NoKey
                PROVE  \/ opened'[o] = keystoneBkt[o]
                       \/ opens[o] = keystoneBkt[o]
                       \/ o \in trims /\ pending'[keystoneBkt[o]] # "none" /\ keystoneBkt[o] \notin commits
                       \/ \E r \in deletes' : r.out = o /\ r.key = keystoneBkt[o]
    BY <1>2, Zenon DEF KeystonesAccounted
  <2>1. CASE opened[o] = keystoneBkt[o]
    <3>1. CASE \E k \in gone : outgoing[k] = o
      <4>1. PICK k \in gone : outgoing[k] = o
        BY <3>1, Zenon
      <4>2. k = keystoneBkt[o]
        BY <1>1, <1>3, <2>1, <4>1 DEF IInv, IndexesAgree, TypeOK
      <4>3. RemovedCircuit(k) \in deletes'
        BY <1>2, <4>1, Zenon
      <4>. QED
        BY <1>5, <4>1, <4>2, <4>3
    <3>. QED
      BY <1>2, <2>1, <3>1, Zenon
  <2>2. CASE o \in trims /\ pending[keystoneBkt[o]] # "none" /\ keystoneBkt[o] \notin commits
    BY <1>1, <1>2, <2>2, Zenon DEF MayDelete, TypeOK
  <2>. QED
    BY <1>2, <2>1, <2>2, Zenon DEF IInv, KeystonesAccounted
<1>. QED
  BY <1>8, <1>9, <1>10, <1>11, <1>12, <1>13, <1>14, Zenon DEF IInv

\* The deletion of circuits from the database takes their keystones along.
LEMMA DeleteDiskIInv ==
  ASSUME IInv, NEW K \in SUBSET InKey, DeleteDisk(K)
  PROVE  IInv'
<1>. DEFINE done == {r \in deletes : r.key \in K}
            outs == {r.out : r \in done}
<1>1. TypeOK /\ \A r \in deletes : r \in Removed
  BY Zenon DEF IInv, TypeOK
<1>2. /\ circuitBkt' = circuitBkt \ {r.key : r \in done}
      /\ keystoneBkt' = [o \in OutId |-> IF o \in outs THEN NoKey ELSE keystoneBkt[o]]
      /\ deletes' = deletes \ done
      /\ UNCHANGED <<pending, outgoing, opened, closed, hashIndex, commits, opens, trims, nextId>>
  BY Zenon DEF DeleteDisk, memory
<1>3. \A k \in InKey : pending[k] # "none" => k \notin {r.key : r \in done}
  BY DEF IInv, CallsFit
<1>4. \A o \in outs : o \in OutId => opened[o] = NoKey /\ o < nextId /\ \E r \in done : r.out = o /\ keystoneBkt[o] = r.key
  BY <1>1 DEF IInv, CallsFit
<1>5. TypeOK'
  BY <1>1, <1>2, Zenon DEF TypeOK
<1>6. IndexesAgree' /\ NoDisjointSegments'
  BY <1>2, Zenon DEF IInv, IndexesAgree, NoDisjointSegments
<1>7. MemoryIsDurable'
  BY <1>1, <1>2, <1>3, <1>4, Zenon DEF IInv, MemoryIsDurable, TypeOK
<1>8. NoStrayKeystone'
  <2>. SUFFICES ASSUME NEW o \in OutId, o \notin outs, keystoneBkt[o] # NoKey,
                       NEW r \in done, r.key = keystoneBkt[o]
                PROVE  FALSE
    BY <1>1, <1>2, Zenon DEF IInv, NoStrayKeystone, TypeOK
  <2>1. pending[r.key] = "none" /\ outgoing[r.key] = NoOut
    BY Zenon DEF IInv, CallsFit
  <2>2. opened[o] # keystoneBkt[o]
    BY <1>1, <2>1 DEF IInv, IndexesAgree, TypeOK
  <2>3. opens[o] # keystoneBkt[o]
    BY <1>1, <2>1 DEF IInv, CallsFit, Ids, TypeOK
  <2>4. PICK s \in deletes : s.out = o /\ s.key = keystoneBkt[o]
    BY <2>1, <2>2, <2>3, Zenon DEF IInv, KeystonesAccounted
  <2>. QED
    BY <2>4, Zenon
<1>9. OneKeystonePerCircuit'
  BY <1>2, Zenon DEF IInv, OneKeystonePerCircuit
<1>10. CallsFit'
  <2>1. ASSUME NEW r \in deletes'
        PROVE  /\ r.key \in circuitBkt'
               /\ r.out # NoOut => keystoneBkt'[r.out] = r.key
    <3>1. r \in deletes /\ r \notin done /\ r.key \notin {s.key : s \in done}
      BY <1>2, Zenon DEF IInv, CallsFit
    <3>2. r.out # NoOut => r.out \in OutId /\ r.out \notin outs
      BY <1>1, <3>1 DEF IInv, CallsFit, Removed
    <3>. QED
      BY <1>2, <3>1, <3>2, Zenon DEF IInv, CallsFit
  <2>2. \A o \in Ids(opens) : o \notin outs
    BY <1>1, <1>4 DEF IInv, CallsFit, Ids, TypeOK
  <2>3. \A o \in trims : o \notin outs
    BY <1>1, <1>4 DEF IInv, CallsFit, TypeOK
  <2>. QED
    BY <1>1, <1>2, <2>1, <2>2, <2>3 DEF IInv, CallsFit, Ids, TypeOK
<1>11. KeystonesAccounted'
  <2>. SUFFICES ASSUME NEW o \in OutId, o \notin outs, keystoneBkt[o] # NoKey
                PROVE  \/ opened[o] = keystoneBkt[o]
                       \/ opens[o] = keystoneBkt[o]
                       \/ o \in trims /\ pending[keystoneBkt[o]] # "none" /\ keystoneBkt[o] \notin commits
                       \/ \E r \in deletes' : r.out = o /\ r.key = keystoneBkt[o]
    BY <1>1, <1>2, Zenon DEF KeystonesAccounted, TypeOK
  <2>1. \A r \in deletes : r.out = o => r \in deletes'
    BY <1>2, Zenon
  <2>. QED
    BY <2>1, Zenon DEF IInv, KeystonesAccounted
<1>. QED
  BY <1>5, <1>6, <1>7, <1>8, <1>9, <1>10, <1>11, Zenon DEF IInv

\* The rollback of a failed deletion restores what was removed.
LEMMA DeleteFailsIInv ==
  ASSUME IInv, NEW r \in deletes, DeleteFails(r)
  PROVE  IInv'
  BY DEF DeleteFails, IInv, TypeOK, IndexesAgree, MemoryIsDurable, NoStrayKeystone, OneKeystonePerCircuit,
         NoDisjointSegments, CallsFit, KeystonesAccounted, Ids, NoKeystones, Removed, disk

\* TrimOpenCircuits unbinds one segment of keystones.
LEMMA TrimMemoryIInv ==
  ASSUME IInv, opens = NoKeystones, trims = {}, TrimMemory(nextId)
  PROVE  IInv'
<1>. DEFINE outs == Trimmed(opened, nextId)
<1>1. TypeOK
  BY Zenon DEF IInv
<1>2. /\ opened' = Cut(opened, outs)
      /\ outgoing' = Unbound(outgoing, opened, outs)
      /\ trims' = outs
      /\ UNCHANGED <<pending, closed, hashIndex, circuitBkt, keystoneBkt, commits, opens, deletes, nextId>>
  BY Zenon DEF TrimMemory, disk
<1>3. \A o \in OutId : o \in outs <=> o >= nextId /\ opened[o] # NoKey
  BY <1>1 DEF IInv, NoDisjointSegments, Trimmed, TypeOK
<1>4. \A k \in InKey : outgoing'[k] = IF outgoing[k] \in outs THEN NoOut ELSE outgoing[k]
  <2>. SUFFICES ASSUME NEW k \in InKey
                PROVE  (\E o \in outs : opened[o] = k) <=> outgoing[k] \in outs
    BY <1>2, Zenon DEF Unbound
  <2>1. \A o \in outs : o \in OutId /\ opened[o] # NoKey
    BY <1>3, Zenon DEF Trimmed
  <2>. QED
    BY <1>1, <2>1 DEF IInv, IndexesAgree, TypeOK
<1>5. TypeOK'
  BY <1>1, <1>2, Zenon DEF TypeOK, Cut, Unbound, Trimmed
<1>6. IndexesAgree'
  BY <1>1, <1>2, <1>3, <1>4 DEF IInv, IndexesAgree, Cut, TypeOK
<1>7. MemoryIsDurable' /\ NoStrayKeystone' /\ OneKeystonePerCircuit'
  BY <1>1, <1>2, Zenon DEF IInv, MemoryIsDurable, NoStrayKeystone, OneKeystonePerCircuit, Cut, TypeOK
<1>8. NoDisjointSegments'
  BY <1>1, <1>2, <1>3, Zenon DEF NoDisjointSegments, Cut, TypeOK
<1>9. CallsFit'
  <2>1. \A o \in OutId : o \in outs => keystoneBkt[o] # NoKey
    BY <1>3, Zenon DEF IInv, MemoryIsDurable
  <2>2. \A o \in trims' : /\ o >= nextId /\ opened'[o] = NoKey /\ keystoneBkt[o] # NoKey
                          /\ \A i \in nextId..o : i \in trims'
    <3>. SUFFICES ASSUME NEW o \in outs
                  PROVE  /\ o >= nextId /\ opened'[o] = NoKey /\ keystoneBkt[o] # NoKey
                         /\ \A i \in nextId..o : i \in outs
      BY <1>2, Zenon
    <3>1. o \in OutId /\ o >= nextId /\ \A i \in nextId..o : opened[i] # NoKey
      BY Zenon DEF Trimmed
    <3>2. opened'[o] = NoKey
      BY <1>2, <3>1, Zenon DEF Cut
    <3>3. nextId \in Nat
      BY <1>1 DEF TypeOK
    <3>4. ASSUME NEW i \in nextId..o
          PROVE  i \in outs
      <4>1. i \in OutId /\ i >= nextId
        BY <3>1, <3>3
      <4>. QED
        BY <1>3, <3>1, <4>1, Zenon
    <3>. QED
      BY <2>1, <3>1, <3>2, <3>4, Zenon
  <2>3. \A k \in InKey : outgoing[k] = NoOut => outgoing'[k] = NoOut
    BY <1>4, Zenon
  <2>4. \A o \in OutId : opened[o] = NoKey => opened'[o] = NoKey
    BY <1>2, Zenon DEF Cut
  <2>. QED
    BY <1>1, <1>2, <2>2, <2>3, <2>4 DEF IInv, CallsFit, Ids, NoKeystones, TypeOK, Removed
<1>10. KeystonesAccounted'
  <2>1. \A o \in OutId : o \in outs => pending[opened[o]] # "none" /\ opened[o] \notin commits
    BY <1>1, <1>3 DEF IInv, IndexesAgree, CallsFit, TypeOK
  <2>. QED
    BY <1>1, <1>2, <1>3, <2>1, Zenon DEF IInv, KeystonesAccounted, Cut, TypeOK
<1>. QED
  BY <1>5, <1>6, <1>7, <1>8, <1>9, <1>10, Zenon DEF IInv

\* The database deletion of the trimmed keystones preserves the invariant.
LEMMA TrimDiskIInv ==
  ASSUME IInv, TrimDisk
  PROVE  IInv'
  BY DEF TrimDisk, Cut, IInv, TypeOK, IndexesAgree, MemoryIsDurable, NoStrayKeystone, OneKeystonePerCircuit,
         NoDisjointSegments, CallsFit, KeystonesAccounted, Ids, NoKeystones, Removed, memory

\* The indexes NewCircuitMap rebuilds are the keystones left in the database.
LEMMA RestoredIndexes ==
  ASSUME IInv, NewCircuitMap
  PROVE  LET outs == Trimmed(RestoredOpened, nextId)
         IN  /\ opened' \in [OutId -> InKey \cup {NoKey}]
             /\ \A o \in OutId : opened'[o] = keystoneBkt'[o]
             /\ \A o \in OutId : RestoredOpened[o] = keystoneBkt[o]
             /\ \A o \in OutId : keystoneBkt'[o] = IF o \in outs THEN NoKey ELSE keystoneBkt[o]
             /\ keystoneBkt' \in [OutId -> InKey \cup {NoKey}]
             /\ outgoing' \in [InKey -> OutId \cup {NoOut}]
             /\ \A k \in InKey, o \in OutId : outgoing'[k] = o <=> keystoneBkt'[o] = k
<1>. DEFINE outs == Trimmed(RestoredOpened, nextId)
<1>1. TypeOK
  BY Zenon DEF IInv
<1>2. /\ pending' = [k \in InKey |-> IF k \in circuitBkt THEN "disk" ELSE "none"]
      /\ opened' = Cut(RestoredOpened, outs)
      /\ outgoing' = Unbound(RestoredOutgoing, RestoredOpened, outs)
      /\ closed' = {}
      /\ hashIndex' = {<<RestoredOpened[o], o>> : o \in {x \in OutId : RestoredOpened[x] # NoKey}}
      /\ keystoneBkt' = Cut(keystoneBkt, outs)
      /\ commits' = {} /\ opens' = NoKeystones /\ deletes' = {} /\ trims' = {}
      /\ UNCHANGED <<circuitBkt, nextId>>
  BY Zenon DEF NewCircuitMap
<1>3. /\ RestoredOpened \in [OutId -> InKey \cup {NoKey}]
      /\ \A o \in OutId : RestoredOpened[o] = keystoneBkt[o]
  BY <1>1, Zenon DEF RestoredOpened, IInv, NoStrayKeystone, TypeOK
<1>4. ASSUME NEW k \in InKey
      PROVE  /\ RestoredOutgoing[k] \in OutId \cup {NoOut}
             /\ \A o \in OutId : RestoredOutgoing[k] = o <=> keystoneBkt[o] = k
  <2>1. CASE \E o \in OutId : keystoneBkt[o] = k
    <3>1. PICK o \in OutId : keystoneBkt[o] = k
      BY <2>1, Zenon
    <3>2. \A i \in OutId : keystoneBkt[i] = k => i = o
      BY <1>1, <3>1, Zenon DEF IInv, OneKeystonePerCircuit, TypeOK
    <3>3. RestoredOutgoing[k] = o
      BY <1>3, <3>1, <3>2 DEF RestoredOutgoing, Bound
    <3>. QED
      BY <3>1, <3>2, <3>3, Zenon
  <2>2. CASE ~\E o \in OutId : keystoneBkt[o] = k
    BY <1>3, <2>2 DEF RestoredOutgoing, Bound
  <2>. QED
    BY <2>1, <2>2, Zenon
<1>5. /\ opened' \in [OutId -> InKey \cup {NoKey}]
      /\ \A o \in OutId : opened'[o] = keystoneBkt'[o]
      /\ \A o \in OutId : keystoneBkt'[o] = IF o \in outs THEN NoKey ELSE keystoneBkt[o]
      /\ keystoneBkt' \in [OutId -> InKey \cup {NoKey}]
  BY <1>1, <1>2, <1>3, Zenon DEF Cut, TypeOK
<1>6. /\ outgoing' \in [InKey -> OutId \cup {NoOut}]
      /\ \A k \in InKey, o \in OutId : outgoing'[k] = o <=> keystoneBkt'[o] = k
  <2>1. \A k \in InKey : outgoing'[k] = IF RestoredOutgoing[k] \in outs THEN NoOut ELSE RestoredOutgoing[k]
    BY <1>1, <1>2, <1>3, <1>4 DEF Unbound, Trimmed
  <2>2. outgoing' \in [InKey -> OutId \cup {NoOut}]
    BY <1>2, <1>4, Zenon DEF Unbound
  <2>3. ASSUME NEW k \in InKey, NEW o \in OutId
        PROVE  outgoing'[k] = o <=> keystoneBkt'[o] = k
    BY <1>4, <1>5, <2>1
  <2>. QED
    BY <2>2, <2>3, Zenon
<1>. QED
  BY <1>3, <1>5, <1>6, Zenon

\* A restart rebuilds indexes that satisfy the invariant, whatever calls it cut short.
LEMMA NewCircuitMapIInv ==
  ASSUME IInv, NewCircuitMap
  PROVE  IInv'
<1>. DEFINE outs == Trimmed(RestoredOpened, nextId)
<1>1. TypeOK
  BY Zenon DEF IInv
<1>2. /\ pending' = [k \in InKey |-> IF k \in circuitBkt THEN "disk" ELSE "none"]
      /\ opened' = Cut(RestoredOpened, outs)
      /\ outgoing' = Unbound(RestoredOutgoing, RestoredOpened, outs)
      /\ closed' = {}
      /\ hashIndex' = {<<RestoredOpened[o], o>> : o \in {x \in OutId : RestoredOpened[x] # NoKey}}
      /\ keystoneBkt' = Cut(keystoneBkt, outs)
      /\ commits' = {} /\ opens' = NoKeystones /\ deletes' = {} /\ trims' = {}
      /\ UNCHANGED <<circuitBkt, nextId>>
  BY Zenon DEF NewCircuitMap
<1>3. \A o \in OutId : RestoredOpened[o] = keystoneBkt[o]
  BY RestoredIndexes, Zenon
<1>5. /\ opened' \in [OutId -> InKey \cup {NoKey}]
      /\ \A o \in OutId : opened'[o] = keystoneBkt'[o]
      /\ \A o \in OutId : keystoneBkt'[o] = IF o \in outs THEN NoKey ELSE keystoneBkt[o]
      /\ keystoneBkt' \in [OutId -> InKey \cup {NoKey}]
  BY RestoredIndexes, Zenon
<1>6. /\ outgoing' \in [InKey -> OutId \cup {NoOut}]
      /\ \A k \in InKey, o \in OutId : outgoing'[k] = o <=> keystoneBkt'[o] = k
  BY RestoredIndexes, Zenon
<1>7. TypeOK'
  BY <1>1, <1>2, <1>3, <1>5, <1>6 DEF TypeOK, NoKeystones
<1>8. NoStrayKeystone' /\ OneKeystonePerCircuit'
  BY <1>1, <1>2, <1>5, Zenon DEF IInv, NoStrayKeystone, OneKeystonePerCircuit
<1>9. IndexesAgree' /\ MemoryIsDurable'
  <2>1. ASSUME NEW o \in OutId, opened'[o] # NoKey
        PROVE  /\ pending'[opened'[o]] # "none" /\ outgoing'[opened'[o]] = o
               /\ keystoneBkt'[o] = opened'[o]
    <3>1. opened'[o] \in InKey /\ keystoneBkt'[o] = opened'[o]
      BY <1>5, <2>1, Zenon
    <3>2. opened'[o] \in circuitBkt
      BY <1>2, <1>8, <2>1, <3>1, Zenon DEF NoStrayKeystone
    <3>. QED
      BY <1>2, <1>6, <3>1, <3>2
  <2>2. ASSUME NEW k \in InKey, outgoing'[k] # NoOut
        PROVE  opened'[outgoing'[k]] = k
    <3>1. outgoing'[k] \in OutId
      BY <1>6, <2>2
    <3>. QED
      BY <1>5, <1>6, <3>1, Zenon
  <2>3. ASSUME NEW k \in InKey, pending'[k] # "none"
        PROVE  k \in circuitBkt'
    BY <1>2, <2>3, Zenon
  <2>4. IndexesAgree'
    BY <2>1, <2>2, Zenon DEF IndexesAgree
  <2>. QED
    BY <2>1, <2>3, <2>4, Zenon DEF MemoryIsDurable
<1>10. NoDisjointSegments'
  <2>. SUFFICES ASSUME NEW o \in OutId, o >= nextId, opened'[o] # NoKey,
                       NEW i \in nextId..o
                PROVE  opened'[i] # NoKey
    BY <1>2, Zenon DEF NoDisjointSegments
  <2>1. keystoneBkt[o] # NoKey /\ nextId \in Nat
    BY <1>1, <1>5 DEF TypeOK
  <2>2. \A r \in deletes : r.out # o
    BY <1>1 DEF IInv, CallsFit, TypeOK
  <2>3. \A j \in nextId..o : keystoneBkt[j] # NoKey
    <3>. TAKE j \in nextId..o
    <3>1. CASE opened[o] = keystoneBkt[o]
      BY <1>1, <2>1, <3>1 DEF IInv, NoDisjointSegments, MemoryIsDurable, TypeOK
    <3>2. CASE opens[o] = keystoneBkt[o]
      <4>1. o \in Ids(opens)
        BY <2>1, <3>2, Zenon DEF Ids
      <4>2. opened[j] # NoKey \/ j \in Ids(opens)
        BY <4>1, Zenon DEF IInv, CallsFit
      <4>3. j \in OutId
        BY <2>1
      <4>. QED
        BY <4>2, <4>3, Zenon DEF IInv, CallsFit, MemoryIsDurable, Ids
    <3>3. CASE o \in trims
      BY <3>3, Zenon DEF IInv, CallsFit
    <3>. QED
      BY <2>1, <2>2, <3>1, <3>2, <3>3, Zenon DEF IInv, KeystonesAccounted
  <2>4. o \in outs
    BY <1>3, <2>1, <2>3 DEF Trimmed
  <2>. QED
    BY <1>5, <2>4, Zenon
<1>11. CallsFit' /\ KeystonesAccounted'
  BY <1>2, <1>5, Zenon DEF CallsFit, KeystonesAccounted, Ids, NoKeystones
<1>. QED
  BY <1>7, <1>8, <1>9, <1>10, <1>11, Zenon DEF IInv

\* Every step of the map, of its clients' calls and of a restart preserves the
\* inductive invariant.
LEMMA NextIInv ==
  ASSUME IInv, [Next]_vars
  PROVE  IInv'
<1>1. CASE UNCHANGED vars
  BY <1>1 DEF vars, memory, disk, calls, IInv, TypeOK, IndexesAgree, MemoryIsDurable, NoStrayKeystone,
         OneKeystonePerCircuit, NoDisjointSegments, CallsFit, KeystonesAccounted, Ids, NoKeystones, Removed
<1>2. ASSUME NEW k \in InKey, MayCommit(k), CommitMemory(k)
      PROVE  IInv'
  BY <1>2, CommitMemoryIInv, Zenon
<1>3. ASSUME NEW o \in OutId, CloseResult(o) = "ok", MarkClosed(opened[o])
      PROVE  IInv'
  <2>1. opened[o] \in InKey
    BY <1>3, Zenon DEF CloseResult, IInv, TypeOK
  <2>. QED
    BY <1>3, <2>1, MarkClosedIInv, Zenon
<1>. QED
  BY <1>1, <1>2, <1>3, CommitDiskIInv, CommitFailsIInv, OpenDiskIInv, OpenMemoryIInv, SignIInv,
     MarkClosedIInv, DeleteMemoryIInv, DeleteDiskIInv, DeleteFailsIInv, TrimMemoryIInv, TrimDiskIInv,
     NewCircuitMapIInv, Zenon DEF Next

\* The inductive invariant holds in every reachable state of the circuit map.
THEOREM Invariance == Spec => []IInv
  BY InitIInv, NextIInv, PTL DEF Spec

\* The circuit map's indexes, its database and its calls in progress keep their
\* types, for every set of incoming HTLCs and every number of outgoing ids.
THEOREM TypeCorrect == Spec => []TypeOK
<1>1. IInv => TypeOK
  BY Zenon DEF IInv
<1>. QED
  BY <1>1, Invariance, PTL

\* The index by incoming key and the index by outgoing id are inverse to each
\* other after every call, half call and restart.
THEOREM IndexesAlwaysAgree == Spec => []IndexesAgree
<1>1. IInv => IndexesAgree
  BY Zenon DEF IInv
<1>. QED
  BY <1>1, Invariance, PTL

\* What the indexes promise a link or the switch is in the database, and the
\* database holds no keystone without its circuit and no two for one circuit.
THEOREM CircuitsAreDurable == Spec => [](MemoryIsDurable /\ NoStrayKeystone /\ OneKeystonePerCircuit)
<1>1. IInv => MemoryIsDurable /\ NoStrayKeystone /\ OneKeystonePerCircuit
  BY Zenon DEF IInv
<1>. QED
  BY <1>1, Invariance, PTL

\* TrimOpenCircuits may stop at the first id that is not open: the keystones past
\* the signed ids are never in two segments.
THEOREM SegmentsStayJoined == Spec => []NoDisjointSegments
<1>1. IInv => NoDisjointSegments
  BY Zenon DEF IInv
<1>. QED
  BY <1>1, Invariance, PTL

\* NewCircuitMap restores the keystone of every signed HTLC that was open when
\* the node stopped, whatever calls the stop cut short.
THEOREM RestartIsFaithful == Spec => RestartKeepsSigned
<1>1. ASSUME IInv, NewCircuitMap, NEW o \in OutId, o < nextId, opened[o] # NoKey
      PROVE  opened'[o] = opened[o] /\ outgoing'[opened[o]] = o
  <2>1. keystoneBkt[o] = opened[o] /\ opened[o] \in InKey /\ nextId \in Nat
    BY <1>1 DEF IInv, MemoryIsDurable, TypeOK
  <2>2. o \notin Trimmed(RestoredOpened, nextId)
    BY <1>1, <2>1 DEF Trimmed
  <2>3. keystoneBkt'[o] = opened[o]
    BY <1>1, <2>1, <2>2, RestoredIndexes, Zenon
  <2>. QED
    BY <1>1, <2>1, <2>3, RestoredIndexes
<1>2. ASSUME IInv, [Next]_vars
      PROVE  [NewCircuitMap =>
                \A o \in OutId : o < nextId /\ opened[o] # NoKey =>
                    /\ opened'[o] = opened[o]
                    /\ outgoing'[opened[o]] = o]_vars
  BY <1>1, <1>2, Zenon
<1>. QED
  BY <1>2, Invariance, PTL DEF Spec, RestartKeepsSigned

\* Every operation that enters a circuit into the index by outgoing id enters it
\* into the hash index, and none takes it from the latter only.
LEMMA NextHashed ==
  ASSUME IInv, OpenIsHashed, [Next]_vars
  PROVE  OpenIsHashed'
<1>. USE DEF OpenIsHashed
<1>1. CASE UNCHANGED <<opened, hashIndex>>
  BY <1>1, Zenon
<1>2. CASE OpenMemory
  BY <1>2, Zenon DEF OpenMemory
<1>3. ASSUME NEW K \in SUBSET InKey, DeleteMemory(K)
      PROVE  OpenIsHashed'
  <2>. SUFFICES ASSUME NEW o \in OutId, opened'[o] # NoKey
                PROVE  <<opened'[o], o>> \in hashIndex'
    OBVIOUS
  <2>1. opened'[o] = opened[o] /\ ~ \E k \in Known(K) : outgoing[k] = o
    BY <1>3, Zenon DEF DeleteMemory
  <2>2. <<opened[o], o>> \notin {<<k, outgoing[k]>> : k \in Known(K)}
    BY <2>1, Zenon
  <2>. QED
    BY <1>3, <2>1, <2>2, Zenon DEF DeleteMemory
<1>4. ASSUME NEW r \in deletes, DeleteFails(r)
      PROVE  OpenIsHashed'
  BY <1>4 DEF DeleteFails, IInv, TypeOK, Removed
<1>5. ASSUME TrimMemory(nextId)
      PROVE  OpenIsHashed'
  BY <1>5, Zenon DEF TrimMemory, Cut
<1>6. CASE NewCircuitMap
  BY <1>6, Zenon DEF NewCircuitMap, Cut
<1>. QED
  BY <1>1, <1>2, <1>3, <1>4, <1>5, <1>6, Zenon
     DEF Next, vars, CommitMemory, CommitDisk, CommitFails, OpenDisk, Sign, MarkClosed, DeleteDisk,
         TrimDisk, memory

\* LookupByPaymentHash finds every open circuit, although TrimOpenCircuits leaves
\* pairs of circuits it has trimmed in the hash index.
THEOREM LookupNeverMisses == Spec => []LookupIsComplete
<1>1. Init => OpenIsHashed
  BY Zenon DEF Init, OpenIsHashed, NoKeystones
<1>2. IInv /\ OpenIsHashed => LookupIsComplete
  BY Zenon DEF OpenIsHashed, LookupIsComplete, LookupByPaymentHash
<1>. QED
  BY <1>1, <1>2, NextHashed, Invariance, PTL DEF Spec
=============================================================================
