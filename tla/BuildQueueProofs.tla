-------------------------- MODULE BuildQueueProofs --------------------------
(***************************************************************************)
(* What TLAPS proves of BuildQueue for every number of planets, accounts,  *)
(* handlers and schedulers, every price list and every bound.              *)
(***************************************************************************)
EXTENDS BuildQueue, TLAPS, FiniteSetTheorems, SequenceTheorems, SumProofs

(***************************************************************************)
(* Type correctness.  TypeOK is not inductive: the refund of a Cancel reads*)
(* the row it found, so that row must exist.                               *)
(***************************************************************************)
CancelledRowExists ==
  \A r \in Requests : pc[r] \in {"cancelling", "marked", "crediting"} =>
    job[r].item \in DOMAIN queue

\* Only requests cancel.
SweeperPCs == \A s \in Sweepers : pc[s] \in {"idle", "claimed"}
RequestPCs == \A r \in Requests : pc[r] # "claimed"

TypeInv == TypeOK /\ CancelledRowExists /\ SweeperPCs /\ RequestPCs

-----------------------------------------------------------------------------
(* Marking rows changes nothing but their two flags.                       *)

LEMMA MarkedFacts ==
  ASSUME queue \in Seq(Row), NEW S, NEW C
  PROVE  /\ Marked(S, C) \in Seq(Row)
         /\ Len(Marked(S, C)) = Len(queue)
         /\ DOMAIN Marked(S, C) = DOMAIN queue
         /\ \A i \in DOMAIN queue :
              /\ Marked(S, C)[i].planet = queue[i].planet
              /\ Marked(S, C)[i].key = queue[i].key
              /\ Marked(S, C)[i].target = queue[i].target
              /\ Marked(S, C)[i].cost = queue[i].cost
              /\ Marked(S, C)[i].start = queue[i].start
              /\ Marked(S, C)[i].finish = queue[i].finish
              /\ Marked(S, C)[i].applied = (queue[i].applied \/ i \in S)
              /\ Marked(S, C)[i].cancelled = (queue[i].cancelled \/ i \in C)
<1> DEFINE M == Marked(S, C)
<1>1. DOMAIN queue = 1..Len(queue) /\ Len(queue) \in Nat
  OBVIOUS
<1>2. DOMAIN M = DOMAIN queue
  BY DEF Marked
<1>3. ASSUME NEW i \in DOMAIN queue
      PROVE  /\ M[i] \in Row
             /\ M[i].planet = queue[i].planet
             /\ M[i].key = queue[i].key
             /\ M[i].target = queue[i].target
             /\ M[i].cost = queue[i].cost
             /\ M[i].start = queue[i].start
             /\ M[i].finish = queue[i].finish
             /\ M[i].applied = (queue[i].applied \/ i \in S)
             /\ M[i].cancelled = (queue[i].cancelled \/ i \in C)
  <2>1. queue[i] \in Row
    BY <1>1
  <2>2. M[i] = [queue[i] EXCEPT !.applied = @ \/ i \in S, !.cancelled = @ \/ i \in C]
    BY DEF Marked
  <2> QED
    BY <2>1, <2>2 DEF Row
<1>4. M = [i \in 1..Len(queue) |-> M[i]]
  BY <1>1, <1>2 DEF Marked
<1>5. M \in Seq(Row) /\ Len(M) = Len(queue)
  BY <1>1, <1>2, <1>3, <1>4
<1> QED
  BY <1>2, <1>3, <1>5

LEMMA NoJobType == NoJob \in [planet : Planets, key : Keys, item : Ids \cup {0}]
BY ConstantsOK DEF NoJob

LEMMA RefreshedType ==
  ASSUME TypeOK, NEW p \in Planets
  PROVE  Refreshed(p) \in Nat
<1>1. Rate \in Nat /\ Storage \in Nat
  BY ConstantsOK
<1>2. clock \in Int /\ updated[p] \in Int /\ metal[p] \in Nat
  BY DEF TypeOK
<1>3. CASE clock - updated[p] < 1
  BY <1>2, <1>3 DEF Refreshed
<1>4. CASE ~(clock - updated[p] < 1)
  <2>1. clock - updated[p] \in Nat
    BY <1>2, <1>4
  <2>2. Rate * (clock - updated[p]) \in Nat
    BY <1>1, <2>1
  <2> QED
    BY <1>1, <1>2, <1>4, <2>2 DEF Refreshed
<1> QED
  BY <1>3, <1>4

LEMMA FinishType ==
  ASSUME TypeOK, NEW t \in Txs, Finish(t)
  PROVE  /\ planetLock' \in [Planets -> Txs \cup {NoTx}]
         /\ rowLock' \in [Ids -> Txs \cup {NoTx}]
         /\ pc' \in [Txs -> PCs]
         /\ job' \in [Txs -> [planet : Planets, key : Keys, item : Ids \cup {0}]]
         /\ seen' \in [Txs -> SUBSET Ids]
         /\ purse' \in [Txs -> Nat]
         /\ pc'[t] = "idle"
         /\ \A u \in Txs \ {t} : pc'[u] = pc[u] /\ job'[u] = job[u] /\ seen'[u] = seen[u]
BY NoJobType DEF TypeOK, Finish, PCs

LEMMA QueueDomain ==
  ASSUME TypeOK
  PROVE  /\ DOMAIN queue = 1..Len(queue)
         /\ DOMAIN queue \subseteq Ids
         /\ Active \subseteq DOMAIN queue
         /\ \A i \in DOMAIN queue : queue[i] \in Row
BY ConstantsOK DEF TypeOK, Ids, Active

LEMMA TypeInit == Init => TypeInv
<1> SUFFICES ASSUME Init PROVE TypeInv
  OBVIOUS
<1>1. queue \in Seq(Row) /\ Len(queue) = 0
  BY DEF Init
<1>2. TypeOK
  BY <1>1, ConstantsOK, NoJobType DEF Init, TypeOK, PCs
<1>3. CancelledRowExists /\ SweeperPCs /\ RequestPCs
  BY DEF Init, CancelledRowExists, SweeperPCs, RequestPCs, Txs
<1> QED
  BY <1>2, <1>3 DEF TypeInv

LEMMA TypeStepQueue ==
  ASSUME TypeInv, NEW r \in Requests,
         \/ \E p \in Planets, k \in Keys : QueueLock(r, p, k)
         \/ QueueCheck(r)
         \/ QueueCommit(r)
  PROVE  TypeInv'
<1> USE ConstantsOK DEF TypeInv
<1>1. r \in Txs /\ r \notin Sweepers
  BY DEF Txs
<1>2. CASE \E p \in Planets, k \in Keys : QueueLock(r, p, k)
  <2> PICK p \in Planets, k \in Keys : QueueLock(r, p, k)
    BY <1>2
  <2>1. TypeOK'
    BY <1>1, RefreshedType DEF QueueLock, Goto, LockPlanet, TypeOK, PCs, tables
  <2>2. CancelledRowExists' /\ SweeperPCs' /\ RequestPCs'
    BY <1>1 DEF QueueLock, Goto, TypeOK, tables, CancelledRowExists, SweeperPCs, RequestPCs, Txs
  <2> QED
    BY <2>1, <2>2
<1>3. CASE QueueCheck(r)
  <2>1. ActiveOn(job[r].planet) \subseteq Ids
    BY QueueDomain DEF ActiveOn
  <2>2. TypeOK'
    BY <1>1, <1>3, <2>1 DEF QueueCheck, Goto, TypeOK, PCs, tables, locks
  <2>3. CancelledRowExists' /\ SweeperPCs' /\ RequestPCs'
    BY <1>1, <1>3 DEF QueueCheck, Goto, TypeOK, tables, CancelledRowExists, SweeperPCs, RequestPCs, Txs
  <2> QED
    BY <2>2, <2>3
<1>4. CASE QueueCommit(r)
  <2> DEFINE p == job[r].planet
             k == job[r].key
             done == Repairable(k, seen[r])
  <2> DEFINE new(start, target, price) ==
               [planet |-> p, key |-> k, target |-> target,
                cost |-> price, start |-> start,
                finish |-> start + Duration[k],
                cancelled |-> FALSE, applied |-> FALSE]
             M == Marked(done, {})
  <2> PICK start \in Times, target \in 0..MaxItems :
         \E price \in Prices(p, k, target, purse[r]) :
           /\ CanPay(purse[r], price)
           /\ metal' = [metal EXCEPT ![p] = purse[r] - price]
           /\ queue' = Append(M, new(start, target, price))
    BY <1>4 DEF QueueCommit
  <2> PICK price \in Prices(p, k, target, purse[r]) :
         /\ CanPay(purse[r], price)
         /\ metal' = [metal EXCEPT ![p] = purse[r] - price]
         /\ queue' = Append(M, new(start, target, price))
    OBVIOUS
  <2>1. p \in Planets /\ k \in Keys /\ purse[r] \in Nat
    BY <1>1 DEF TypeOK
  <2>2. price \in Nat /\ purse[r] - price \in Nat
    BY <2>1 DEF Prices, CanPay
  <2>3. new(start, target, price) \in Row
    <3>1. start \in Nat /\ Duration[k] \in Nat
      BY <2>1 DEF Times
    <3>2. target \in Nat /\ start + Duration[k] \in Nat
      BY <3>1
    <3> HIDE DEF p, k
    <3> QED
      BY <2>1, <2>2, <3>1, <3>2 DEF Row, new
  <2>4. M \in Seq(Row) /\ Len(M) = Len(queue) /\ DOMAIN M = DOMAIN queue
    BY MarkedFacts DEF TypeOK
  <2> HIDE DEF M, new
  <2>5. /\ queue' \in Seq(Row) /\ Len(queue') = Len(queue) + 1
        /\ DOMAIN queue \subseteq DOMAIN queue'
    BY <2>3, <2>4
  <2>6. Len(queue') <= MaxItems
    BY <1>4, <2>5 DEF QueueCommit, TypeOK
  <2>7. Finish(r)
    BY <1>4 DEF QueueCommit
  <2>8. TypeOK'
    BY <1>1, <1>4, <2>1, <2>2, <2>5, <2>6, <2>7, FinishType DEF QueueCommit, TypeOK
  <2>9. CancelledRowExists' /\ SweeperPCs' /\ RequestPCs'
    BY <1>1, <2>5, <2>7, FinishType DEF CancelledRowExists, SweeperPCs, RequestPCs, Txs
  <2> QED
    BY <2>8, <2>9
<1> QED
  BY <1>2, <1>3, <1>4

LEMMA TypeStepCancel ==
  ASSUME TypeInv, NEW r \in Requests,
         \/ \E i \in Ids : CancelRead(r, i)
         \/ CancelMark(r)
         \/ CancelLock(r)
         \/ CancelCommit(r)
  PROVE  TypeInv'
<1> USE ConstantsOK DEF TypeInv
<1>1. r \in Txs /\ r \notin Sweepers
  BY DEF Txs
<1>2. CASE \E i \in Ids : CancelRead(r, i)
  <2> PICK i \in Ids : CancelRead(r, i)
    BY <1>2
  <2>1. i \in DOMAIN queue /\ queue[i] \in Row
    BY QueueDomain DEF CancelRead
  <2>2. TypeOK'
    BY <1>1, <2>1 DEF CancelRead, Goto, TypeOK, PCs, tables, locks, Row
  <2>3. CancelledRowExists' /\ SweeperPCs' /\ RequestPCs'
    BY <1>1, <2>1 DEF CancelRead, Goto, TypeOK, tables, CancelledRowExists, SweeperPCs, RequestPCs, Txs
  <2> QED
    BY <2>2, <2>3
<1>3. CASE CancelMark(r)
  <2>1. TypeOK'
    BY <1>1, <1>3 DEF CancelMark, LockRows, Goto, TypeOK, PCs, tables
  <2>2. CancelledRowExists' /\ SweeperPCs' /\ RequestPCs'
    BY <1>1, <1>3 DEF CancelMark, Goto, TypeOK, tables, CancelledRowExists, SweeperPCs, RequestPCs, Txs
  <2> QED
    BY <2>1, <2>2
<1>4. CASE CancelLock(r)
  <2>1. job[r].planet \in Planets
    BY <1>1 DEF TypeOK
  <2>2. TypeOK'
    BY <1>1, <1>4, <2>1, RefreshedType DEF CancelLock, LockPlanet, Goto, TypeOK, PCs, tables
  <2>3. CancelledRowExists' /\ SweeperPCs' /\ RequestPCs'
    BY <1>1, <1>4 DEF CancelLock, Goto, TypeOK, tables, CancelledRowExists, SweeperPCs, RequestPCs, Txs
  <2> QED
    BY <2>2, <2>3
<1>5. CASE CancelCommit(r)
  <2> DEFINE i == job[r].item
             p == job[r].planet
  <2>1. i \in DOMAIN queue /\ i \in Ids /\ queue[i] \in Row /\ p \in Planets
    BY <1>1, <1>5, QueueDomain DEF CancelCommit, CancelledRowExists, TypeOK
  <2>2. purse[r] \in Nat /\ queue[i].cost \in Nat
    BY <1>1, <2>1 DEF TypeOK, Row
  <2>3. /\ Marked({}, {i}) \in Seq(Row) /\ Len(Marked({}, {i})) = Len(queue)
        /\ DOMAIN Marked({}, {i}) = DOMAIN queue
    BY MarkedFacts DEF TypeOK
  <2>4. Finish(r)
    BY <1>5 DEF CancelCommit
  <2>5. TypeOK'
    <3>1. purse[r] + queue[i].cost \in Nat
      BY <2>2
    <3>2. metal' \in [Planets -> Nat] /\ updated' \in [Planets -> 0..Horizon]
      BY <1>5, <3>1 DEF CancelCommit, TypeOK
    <3>3. refunds' \in [Ids -> Nat]
      <4>1. refunds \in [Ids -> Nat] /\ refunds' = [refunds EXCEPT ![i] = refunds[i] + 1]
        BY <1>5 DEF CancelCommit, TypeOK
      <4>2. refunds[i] + 1 \in Nat
        BY <2>1, <4>1
      <4> HIDE DEF TypeInv
      <4> QED
        BY <4>1, <4>2
    <3>4. queue' \in Seq(Row) /\ Len(queue') <= MaxItems
      BY <1>5, <2>3 DEF CancelCommit, TypeOK
    <3> QED
      BY <1>1, <1>5, <2>4, <3>2, <3>3, <3>4, FinishType DEF CancelCommit, TypeOK
  <2>6. CancelledRowExists' /\ SweeperPCs' /\ RequestPCs'
    BY <1>1, <1>5, <2>3, <2>4, FinishType
    DEF CancelCommit, CancelledRowExists, SweeperPCs, RequestPCs, Txs
  <2> QED
    BY <2>5, <2>6
<1> QED
  BY <1>2, <1>3, <1>4, <1>5

LEMMA TypeStepList ==
  ASSUME TypeInv, NEW r \in Requests,
         \/ \E p \in Planets : ListRows(r, p)
         \/ ListLevels(r)
         \/ ListRepair(r)
         \/ ListDone(r)
  PROVE  TypeInv'
<1> USE ConstantsOK DEF TypeInv
<1>1. r \in Txs /\ r \notin Sweepers
  BY DEF Txs
<1>2. CASE \E p \in Planets : ListRows(r, p)
  <2> PICK p \in Planets : ListRows(r, p)
    BY <1>2
  <2>1. ActiveOn(p) \subseteq Ids
    BY QueueDomain DEF ActiveOn
  <2>2. TypeOK'
    BY <1>1, <2>1 DEF ListRows, Goto, TypeOK, PCs, tables, locks
  <2>3. CancelledRowExists' /\ SweeperPCs' /\ RequestPCs'
    BY <1>1 DEF ListRows, Goto, TypeOK, tables, CancelledRowExists, SweeperPCs, RequestPCs, Txs
  <2> QED
    BY <2>2, <2>3
<1>3. CASE ListLevels(r)
  <2>1. TypeOK'
    BY <1>1, <1>3 DEF ListLevels, Goto, TypeOK, PCs, tables, locks
  <2>2. CancelledRowExists' /\ SweeperPCs' /\ RequestPCs'
    BY <1>1, <1>3 DEF ListLevels, Goto, TypeOK, tables, CancelledRowExists, SweeperPCs, RequestPCs, Txs
  <2> QED
    BY <2>1, <2>2
<1>4. CASE ListRepair(r)
  <2> PICK i \in seen[r] : /\ queue' = Marked({i}, {})
                           /\ seen' = [seen EXCEPT ![r] = @ \ {i}]
    BY <1>4 DEF ListRepair
  <2>1. /\ Marked({i}, {}) \in Seq(Row) /\ Len(Marked({i}, {})) = Len(queue)
        /\ DOMAIN Marked({i}, {}) = DOMAIN queue
    BY MarkedFacts DEF TypeOK
  <2>2. TypeOK'
    BY <1>1, <1>4, <2>1 DEF ListRepair, TypeOK, locks
  <2>3. CancelledRowExists' /\ SweeperPCs' /\ RequestPCs'
    BY <1>1, <1>4, <2>1 DEF ListRepair, CancelledRowExists, SweeperPCs, RequestPCs
  <2> QED
    BY <2>2, <2>3
<1>5. CASE ListDone(r)
  <2>1. TypeOK'
    BY <1>1, <1>5, FinishType DEF ListDone, TypeOK, tables
  <2>2. CancelledRowExists' /\ SweeperPCs' /\ RequestPCs'
    BY <1>1, <1>5, FinishType DEF ListDone, tables, CancelledRowExists, SweeperPCs, RequestPCs, Txs
  <2> QED
    BY <2>1, <2>2
<1> QED
  BY <1>2, <1>3, <1>4, <1>5

LEMMA CountType ==
  ASSUME NEW S \in SUBSET Ids
  PROVE  IsFiniteSet(S) /\ Cardinality(S) \in Nat
<1>1. IsFiniteSet(Ids)
  BY ConstantsOK, FS_Interval DEF Ids
<1> QED
  BY <1>1, FS_Subset, FS_CardinalityType

LEMMA TypeStepSweep ==
  ASSUME TypeInv, NEW s \in Sweepers, Sweep(s)
  PROVE  TypeInv'
<1> USE ConstantsOK DEF TypeInv
<1>1. s \in Txs /\ s \notin Requests
  BY DEF Txs
<1>2. CASE SweepClaim(s)
  <2> PICK batch \in SUBSET Due : /\ LockRows(s, batch)
                                  /\ seen' = [seen EXCEPT ![s] = batch]
    BY <1>2 DEF SweepClaim
  <2>1. batch \subseteq Ids
    BY QueueDomain DEF Due
  <2>2. TypeOK'
    BY <1>1, <1>2, <2>1 DEF SweepClaim, LockRows, Goto, TypeOK, PCs, tables
  <2>3. CancelledRowExists' /\ SweeperPCs' /\ RequestPCs'
    BY <1>1, <1>2 DEF SweepClaim, Goto, TypeOK, tables, CancelledRowExists, SweeperPCs, RequestPCs, Txs
  <2> QED
    BY <2>2, <2>3
<1>3. CASE SweepLock(s)
  <2>1. TypeOK'
    <3> PICK i \in Unlocked(s) : LockPlanet(s, queue[i].planet)
      BY <1>3 DEF SweepLock
    <3> QED
      BY <1>1, <1>3 DEF SweepLock, LockPlanet, TypeOK, tables, locals
  <2>2. CancelledRowExists' /\ SweeperPCs' /\ RequestPCs'
    BY <1>3 DEF SweepLock, tables, locals, CancelledRowExists, SweeperPCs, RequestPCs
  <2> QED
    BY <2>1, <2>2
<1>4. CASE SweepCommit(s)
  <2>1. /\ Marked(seen[s], {}) \in Seq(Row) /\ Len(Marked(seen[s], {})) = Len(queue)
        /\ DOMAIN Marked(seen[s], {}) = DOMAIN queue
    BY MarkedFacts DEF TypeOK
  <2>2. level' \in [Planets -> [Keys -> Nat]]
    <3>1. \A p \in Planets, k \in Keys : Cardinality(RowsFor(seen[s], p, k)) \in Nat
      BY <1>1, CountType DEF RowsFor, TypeOK
    <3> HIDE DEF TypeInv
    <3>2. level \in [Planets -> [Keys -> Nat]]
      BY DEF TypeInv, TypeOK
    <3> QED
      BY <1>4, <3>1, <3>2 DEF SweepCommit
  <2>3. tech' \in [Users -> [Keys -> Nat]]
    <3>1. \A u \in Users, k \in Keys : Cardinality(RowsOfUser(seen[s], u, k)) \in Nat
      BY <1>1, CountType DEF RowsOfUser, TypeOK
    <3> HIDE DEF TypeInv
    <3>2. tech \in [Users -> [Keys -> Nat]]
      BY DEF TypeInv, TypeOK
    <3> QED
      BY <1>4, <3>1, <3>2 DEF SweepCommit
  <2>4. Finish(s)
    BY <1>4 DEF SweepCommit
  <2>5. TypeOK'
    BY <1>1, <1>4, <2>1, <2>2, <2>3, <2>4, FinishType DEF SweepCommit, TypeOK
  <2>6. CancelledRowExists' /\ SweeperPCs' /\ RequestPCs'
    BY <1>1, <1>4, <2>1, <2>4, FinishType
    DEF SweepCommit, CancelledRowExists, SweeperPCs, RequestPCs, Txs
  <2> QED
    BY <2>5, <2>6
<1> QED
  BY <1>2, <1>3, <1>4 DEF Sweep

LEMMA TypeStep == TypeInv /\ [Next]_vars => TypeInv'
<1> SUFFICES ASSUME TypeInv, [Next]_vars PROVE TypeInv'
  OBVIOUS
<1> USE ConstantsOK
<1>1. ASSUME NEW r \in Requests, Request(r) PROVE TypeInv'
  BY <1>1, TypeStepQueue, TypeStepCancel, TypeStepList DEF Request
<1>2. ASSUME NEW s \in Sweepers, Sweep(s) PROVE TypeInv'
  BY <1>2, TypeStepSweep
<1>3. ASSUME NEW t \in Txs, Rollback(t) PROVE TypeInv'
  <2>1. TypeOK'
    BY <1>3, FinishType DEF TypeInv, Rollback, TypeOK, tables
  <2>2. queue' = queue /\ pc'[t] = "idle"
        /\ \A u \in Txs \ {t} : pc'[u] = pc[u] /\ job'[u] = job[u]
    BY <1>3, FinishType DEF TypeInv, Rollback, tables
  <2>3. CancelledRowExists' /\ SweeperPCs' /\ RequestPCs'
    BY <2>2 DEF TypeInv, CancelledRowExists, SweeperPCs, RequestPCs, Txs
  <2> QED
    BY <2>1, <2>3 DEF TypeInv
<1>4. ASSUME NEW p \in Planets, Refresh(p) PROVE TypeInv'
  <2>1. Refreshed(p) \in Nat
    BY RefreshedType DEF TypeInv
  <2>2. metal' \in [Planets -> Nat] /\ updated' \in [Planets -> 0..Horizon]
    BY <1>4, <2>1 DEF Refresh, TypeInv, TypeOK
  <2>3. TypeOK'
    BY <1>4, <2>2 DEF TypeInv, Refresh, TypeOK, locks, locals
  <2>4. CancelledRowExists' /\ SweeperPCs' /\ RequestPCs'
    BY <1>4 DEF TypeInv, Refresh, locals, CancelledRowExists, SweeperPCs, RequestPCs
  <2> QED
    BY <2>3, <2>4 DEF TypeInv
<1>5. CASE Tick
  <2>1. clock' \in 0..Horizon
    BY <1>5 DEF Tick, TypeInv, TypeOK
  <2>2. TypeOK'
    BY <1>5, <2>1 DEF TypeInv, Tick, TypeOK, tables, locks, locals
  <2>3. CancelledRowExists' /\ SweeperPCs' /\ RequestPCs'
    BY <1>5 DEF TypeInv, Tick, tables, locals, CancelledRowExists, SweeperPCs, RequestPCs
  <2> QED
    BY <2>2, <2>3 DEF TypeInv
<1>6. CASE UNCHANGED vars
  BY <1>6 DEF TypeInv, vars, TypeOK, tables, locks, locals,
              CancelledRowExists, SweeperPCs, RequestPCs
<1> QED
  BY <1>1, <1>2, <1>3, <1>4, <1>5, <1>6 DEF Next

\* Every variable keeps its type: in particular the stockpile never becomes
\* negative and no row outgrows the table (build.go:101-107, resources.go:31-98).
THEOREM TypeCorrect == Spec => []TypeOK
<1>1. Spec => []TypeInv
  BY TypeInit, TypeStep, PTL DEF Spec
<1> QED
  BY <1>1, PTL DEF TypeInv

(***************************************************************************)
(* The safety invariants.  None is inductive alone: that two handlers never*)
(* admit an order on the same evidence rests on who holds which lock, and  *)
(* that a claimed row is applied once rests on the locks of its rows.      *)
(***************************************************************************)

\* A handler past its GetPlanetForUpdate holds that planet, a Cancel past its
\* UPDATE its row; the rows of a scheduler's batch are its own and unresolved.
HeldBy(t) ==
  /\ pc[t] \in {"locked", "checked", "crediting"} => planetLock[job[t].planet] = t
  /\ pc[t] \in {"marked", "crediting"} => rowLock[job[t].item] = t
  /\ pc[t] = "claimed" => \A i \in seen[t] : i \in Active /\ rowLock[i] = t

LocksHeld == \A t \in Txs : HeldBy(t)

\* The pending rows of p that an order for k counts.
Counted(p, k) ==
  {i \in ActiveOn(p) : ~(QueueType[k] = "building" /\ AlreadyBuilt(i))}

\* What an admitted handler has checked is still true when it commits.
Admitted ==
  \A r \in Requests : pc[r] = "checked" =>
    LET p == job[r].planet
        k == job[r].key
    IN /\ ActiveOn(p) \subseteq seen[r]
       /\ QueueType[k] = "research" => \A i \in ActiveOn(p) : TypeOf(i) # "research"
       /\ QueueType[k] # "research" => Cardinality(Counted(p, k)) < Cap

LockInv == TypeInv /\ LocksHeld

-----------------------------------------------------------------------------
(* Every step but the commit of an order only resolves rows.               *)

Shrinks ==
  /\ DOMAIN queue' = DOMAIN queue
  /\ \A i \in DOMAIN queue :
       /\ queue'[i].planet = queue[i].planet
       /\ queue'[i].key = queue[i].key
       /\ queue'[i].target = queue[i].target
       /\ queue'[i].cost = queue[i].cost
       /\ queue'[i].start = queue[i].start
       /\ queue'[i].finish = queue[i].finish
       /\ queue[i].applied => queue'[i].applied
       /\ queue[i].cancelled => queue'[i].cancelled

LevelsGrow == \A p \in Planets, k \in Keys : level[p][k] <= level'[p][k]

OtherStep ==
  \/ \E r \in Requests :
       \/ \E p \in Planets, k \in Keys : QueueLock(r, p, k)
       \/ QueueCheck(r)
       \/ \E i \in Ids : CancelRead(r, i)
       \/ CancelMark(r) \/ CancelLock(r) \/ CancelCommit(r)
       \/ \E p \in Planets : ListRows(r, p)
       \/ ListLevels(r) \/ ListRepair(r) \/ ListDone(r)
  \/ \E s \in Sweepers : Sweep(s)
  \/ \E t \in Txs : Rollback(t)
  \/ \E p \in Planets : Refresh(p)
  \/ Tick
  \/ UNCHANGED vars

LEMMA NextCases ==
  [Next]_vars => OtherStep \/ \E r \in Requests : QueueCommit(r)
BY DEF Next, Request, OtherStep

LEMMA LevelFacts ==
  ASSUME TypeInv
  PROVE  \A p \in Planets, k \in Keys : level[p][k] \in Nat
BY DEF TypeInv, TypeOK

LEMMA OtherStepShrinks ==
  ASSUME TypeInv, OtherStep
  PROVE  Shrinks /\ LevelsGrow
<1>1. queue \in Seq(Row)
  BY DEF TypeInv, TypeOK
<1>2. ASSUME queue' = queue PROVE Shrinks
  BY <1>2 DEF Shrinks
<1>3. ASSUME NEW S, NEW C, queue' = Marked(S, C) PROVE Shrinks
  <2> DEFINE M == Marked(S, C)
  <2>1. /\ DOMAIN M = DOMAIN queue
        /\ \A i \in DOMAIN queue :
             /\ M[i].planet = queue[i].planet
             /\ M[i].key = queue[i].key
             /\ M[i].target = queue[i].target
             /\ M[i].cost = queue[i].cost
             /\ M[i].start = queue[i].start
             /\ M[i].finish = queue[i].finish
             /\ M[i].applied = (queue[i].applied \/ i \in S)
             /\ M[i].cancelled = (queue[i].cancelled \/ i \in C)
    BY <1>1, MarkedFacts
  <2>2. queue' = M
    BY <1>3
  <2> HIDE DEF M
  <2> QED
    BY <2>1, <2>2, Zenon DEF Shrinks
<1>4. ASSUME level' = level PROVE LevelsGrow
  BY <1>4, LevelFacts DEF LevelsGrow
<1>5. ASSUME NEW r \in Requests, CancelCommit(r) PROVE Shrinks /\ LevelsGrow
  BY <1>5, <1>3, <1>4 DEF CancelCommit
<1>6. ASSUME NEW r \in Requests, ListRepair(r) PROVE Shrinks /\ LevelsGrow
  BY <1>6, <1>3, <1>4 DEF ListRepair
<1>7. ASSUME NEW s \in Sweepers, SweepCommit(s) PROVE Shrinks /\ LevelsGrow
  <2>1. Shrinks
    BY <1>3, <1>7 DEF SweepCommit
  <2>2. \A p \in Planets, k \in Keys : Cardinality(RowsFor(seen[s], p, k)) \in Nat
    BY CountType DEF RowsFor, TypeInv, TypeOK, Txs
  <2>3. LevelsGrow
    BY <1>7, <2>2, LevelFacts DEF SweepCommit, LevelsGrow
  <2> QED
    BY <2>1, <2>3
<1>8. ASSUME UNCHANGED <<queue, level>> PROVE Shrinks /\ LevelsGrow
  BY <1>2, <1>4, <1>8
<1>9. CASE \E r \in Requests :
             \/ \E p \in Planets, k \in Keys : QueueLock(r, p, k)
             \/ QueueCheck(r)
             \/ \E i \in Ids : CancelRead(r, i)
             \/ CancelMark(r) \/ CancelLock(r)
             \/ \E p \in Planets : ListRows(r, p)
             \/ ListLevels(r) \/ ListDone(r)
  BY <1>8, <1>9 DEF QueueLock, QueueCheck, CancelRead, CancelMark, CancelLock,
                    ListRows, ListLevels, ListDone, tables
<1>10. CASE \/ \E s \in Sweepers : SweepClaim(s) \/ SweepLock(s)
            \/ \E t \in Txs : Rollback(t)
            \/ \E p \in Planets : Refresh(p)
            \/ Tick
            \/ UNCHANGED vars
  BY <1>8, <1>10 DEF SweepClaim, SweepLock, Rollback, Refresh, Tick, vars, tables
<1> QED
  BY <1>5, <1>6, <1>7, <1>9, <1>10 DEF OtherStep, Sweep

LEMMA ActiveShrinks ==
  ASSUME TypeInv, Shrinks
  PROVE  /\ Active' \subseteq Active
         /\ \A p \in Planets : ActiveOn(p)' \subseteq ActiveOn(p)
         /\ \A i \in DOMAIN queue : TypeOf(i)' = TypeOf(i)
BY DEF Shrinks, Active, IsActive, ActiveOn, TypeOf

-----------------------------------------------------------------------------
(* The commit of an order resolves the rows it repairs and appends one.    *)

LEMMA CommitFacts ==
  ASSUME TypeInv, NEW r \in Requests, QueueCommit(r)
  PROVE  LET p == job[r].planet
             k == job[r].key
             done == Repairable(k, seen[r])
             n == Len(queue) + 1
         IN /\ p \in Planets /\ k \in Keys
            /\ DOMAIN queue' = DOMAIN queue \cup {n}
            /\ n \notin DOMAIN queue /\ n \in Ids
            /\ \A i \in DOMAIN queue :
                 /\ queue'[i].planet = queue[i].planet
                 /\ queue'[i].key = queue[i].key
                 /\ queue'[i].target = queue[i].target
                 /\ queue'[i].cost = queue[i].cost
                 /\ queue'[i].start = queue[i].start
                 /\ queue'[i].finish = queue[i].finish
                 /\ queue'[i].applied = (queue[i].applied \/ i \in done)
                 /\ queue'[i].cancelled = queue[i].cancelled
            /\ queue'[n].planet = p /\ queue'[n].key = k
            /\ ~queue'[n].applied /\ ~queue'[n].cancelled
            /\ queue'[n].start \in Nat /\ queue'[n].finish \in Nat
            /\ queue'[n].target \in Nat
            /\ IsStart(queue'[n].start, k, ActiveOn(p) \ done)
            /\ IsTarget(queue'[n].target, p, k, seen[r] \ done)
            /\ queue'[n].cost \in Nat /\ queue'[n].cost <= purse[r]
            /\ metal' = [metal EXCEPT ![p] = purse[r] - queue'[n].cost]
<1> DEFINE p == job[r].planet
           k == job[r].key
           done == Repairable(k, seen[r])
           n == Len(queue) + 1
           M == Marked(done, {})
           new(start, target, price) ==
             [planet |-> p, key |-> k, target |-> target,
              cost |-> price, start |-> start,
              finish |-> start + Duration[k],
              cancelled |-> FALSE, applied |-> FALSE]
<1>1. r \in Txs
  BY DEF Txs
<1>2. p \in Planets /\ k \in Keys
  BY <1>1 DEF TypeInv, TypeOK
<1>3. PICK start \in Times, target \in 0..MaxItems,
            price \in UNION {Prices(p, k, t, purse[r]) : t \in 0..MaxItems} :
        /\ IsStart(start, k, ActiveOn(p) \ done)
        /\ IsTarget(target, p, k, seen[r] \ done)
        /\ price \in Prices(p, k, target, purse[r]) /\ CanPay(purse[r], price)
        /\ metal' = [metal EXCEPT ![p] = purse[r] - price]
        /\ queue' = Append(M, new(start, target, price))
  BY DEF QueueCommit
<1>4. /\ start \in Nat /\ target \in Nat /\ Duration[k] \in Nat
      /\ start + Duration[k] \in Nat
  <2>1. start \in Nat /\ target \in Nat
    BY ConstantsOK, <1>3 DEF Times
  <2>2. Duration[k] \in Nat
    BY ConstantsOK, <1>2
  <2> QED
    BY <2>1, <2>2
<1>5. queue \in Seq(Row) /\ Len(queue) < MaxItems
  BY DEF TypeInv, TypeOK, QueueCommit
<1>6. /\ M \in Seq(Row) /\ Len(M) = Len(queue) /\ DOMAIN M = DOMAIN queue
      /\ \A i \in DOMAIN queue :
           /\ M[i].planet = queue[i].planet
           /\ M[i].key = queue[i].key
           /\ M[i].target = queue[i].target
           /\ M[i].cost = queue[i].cost
           /\ M[i].start = queue[i].start
           /\ M[i].finish = queue[i].finish
           /\ M[i].applied = (queue[i].applied \/ i \in done)
           /\ M[i].cancelled = (queue[i].cancelled \/ i \in {})
  BY <1>5, MarkedFacts
<1> DEFINE row == new(start, target, price)
<1>7. /\ row.planet = p /\ row.key = k /\ row.target = target /\ row.start = start
      /\ row.cost = price
      /\ row.finish = start + Duration[k] /\ row.cancelled = FALSE /\ row.applied = FALSE
  OBVIOUS
<1>8. queue' = Append(M, row)
  BY <1>3
<1> HIDE DEF row, M, done, p, k
<1>9. /\ DOMAIN queue' = DOMAIN queue \cup {n} /\ n \notin DOMAIN queue
      /\ queue'[n] = row
      /\ \A i \in DOMAIN queue : queue'[i] = M[i]
  BY <1>5, <1>6, <1>8
<1>10. n \in Ids
  BY ConstantsOK, <1>5 DEF Ids
<1>11. \A i \in DOMAIN queue :
         /\ queue'[i].planet = queue[i].planet
         /\ queue'[i].key = queue[i].key
         /\ queue'[i].target = queue[i].target
         /\ queue'[i].cost = queue[i].cost
         /\ queue'[i].start = queue[i].start
         /\ queue'[i].finish = queue[i].finish
         /\ queue'[i].applied = (queue[i].applied \/ i \in done)
         /\ queue'[i].cancelled = queue[i].cancelled
  <2>1. \A i \in DOMAIN queue : queue[i].cancelled \in BOOLEAN
    BY QueueDomain DEF TypeInv, Row
  <2> QED
    BY <1>6, <1>9, <2>1
<1>12. /\ queue'[n].planet = p /\ queue'[n].key = k
       /\ ~queue'[n].applied /\ ~queue'[n].cancelled
       /\ queue'[n].start = start /\ queue'[n].target = target
       /\ queue'[n].finish \in Nat /\ queue'[n].cost = price
  BY <1>4, <1>7, <1>9
<1>13. price \in Nat /\ price <= purse[r]
  <2>1. purse[r] \in Nat /\ Cost[k] \in Nat
    BY <1>1, <1>2, ConstantsOK DEF TypeInv, TypeOK
  <2>2. price = Cost[k] \/ price = purse[r]
    BY <1>3 DEF Prices
  <2> QED
    BY <1>3, <2>1, <2>2 DEF CanPay
<1> QED
  BY <1>2, <1>3, <1>4, <1>9, <1>10, <1>11, <1>12, <1>13 DEF p, k, done

LEMMA ActiveMarked ==
  ASSUME TypeInv, NEW S, NEW C, queue' = Marked(S, C)
  PROVE  Active' = Active \ (S \cup C)
<1> DEFINE M == Marked(S, C)
<1>1. /\ DOMAIN M = DOMAIN queue
      /\ \A i \in DOMAIN queue :
           /\ M[i].applied = (queue[i].applied \/ i \in S)
           /\ M[i].cancelled = (queue[i].cancelled \/ i \in C)
  BY MarkedFacts DEF TypeInv, TypeOK
<1>2. queue' = M
  OBVIOUS
<1>3. \A i \in DOMAIN queue : queue[i].applied \in BOOLEAN /\ queue[i].cancelled \in BOOLEAN
  BY QueueDomain DEF TypeInv, Row
<1> HIDE DEF M
<1> QED
  BY <1>1, <1>2, <1>3 DEF Active, IsActive

LEMMA ActiveCommit ==
  ASSUME TypeInv, NEW r \in Requests, QueueCommit(r)
  PROVE  LET done == Repairable(job[r].key, seen[r])
             n == Len(queue) + 1
         IN Active' = (Active \ done) \cup {n}
BY CommitFacts DEF Active, IsActive

-----------------------------------------------------------------------------
(* Who holds what.                                                         *)

LEMMA TxFacts ==
  ASSUME TypeInv
  PROVE  /\ NoTx \notin Txs /\ Requests \cap Sweepers = {}
         /\ Requests \subseteq Txs /\ Sweepers \subseteq Txs
         /\ \A t \in Txs : /\ job[t].planet \in Planets /\ job[t].key \in Keys
                           /\ seen[t] \subseteq Ids
                           /\ pc[t] \in {"marked", "crediting"} => job[t].item \in Ids
         /\ \A r \in Requests : pc[r] # "claimed"
         /\ \A s \in Sweepers : pc[s] \in {"idle", "claimed"}
         /\ Active \subseteq Ids
BY ConstantsOK, QueueDomain
DEF Txs, TypeInv, TypeOK, CancelledRowExists, RequestPCs, SweeperPCs

LEMMA LockInit == Init => LockInv
BY TypeInit DEF Init, LockInv, LocksHeld, HeldBy, Txs

\* A step of t leaves the locks of the others alone, if it takes only free
\* ones, releases only its own and resolves no row of theirs.
LEMMA OthersKeep ==
  ASSUME LockInv, NEW t,
         \A u \in Txs \ {t} : pc'[u] = pc[u] /\ job'[u] = job[u] /\ seen'[u] = seen[u],
         \A p \in Planets : planetLock[p] \in Txs \ {t} => planetLock'[p] = planetLock[p],
         \A i \in Ids : rowLock[i] \in Txs \ {t} => rowLock'[i] = rowLock[i],
         \A i \in Active : i \in Active' \/ rowLock[i] \in {NoTx, t}
  PROVE  \A u \in Txs \ {t} : HeldBy(u)'
<1> TAKE u \in Txs \ {t}
<1>0. TypeInv /\ HeldBy(u)
  BY DEF LockInv, LocksHeld
<1>1. pc'[u] \in {"locked", "checked", "crediting"} => planetLock'[job'[u].planet] = u
  BY <1>0, TxFacts DEF HeldBy
<1>2. pc'[u] \in {"marked", "crediting"} => rowLock'[job'[u].item] = u
  BY <1>0, TxFacts DEF HeldBy
<1>3. pc'[u] = "claimed" => \A i \in seen'[u] : i \in Active' /\ rowLock'[i] = u
  BY <1>0, TxFacts DEF HeldBy
<1> QED
  BY <1>1, <1>2, <1>3 DEF HeldBy

LEMMA FinishKeeps ==
  ASSUME LockInv, NEW t \in Txs, Finish(t),
         \A i \in Active : i \in Active' \/ rowLock[i] \in {NoTx, t}
  PROVE  LocksHeld'
<1>1. /\ pc'[t] = "idle"
      /\ \A u \in Txs \ {t} : pc'[u] = pc[u] /\ job'[u] = job[u] /\ seen'[u] = seen[u]
  BY FinishType DEF LockInv, TypeInv
<1>2. /\ \A p \in Planets : planetLock[p] \in Txs \ {t} => planetLock'[p] = planetLock[p]
      /\ \A i \in Ids : rowLock[i] \in Txs \ {t} => rowLock'[i] = rowLock[i]
  BY DEF Finish
<1>3. \A u \in Txs \ {t} : HeldBy(u)'
  BY <1>1, <1>2, OthersKeep
<1>4. HeldBy(t)'
  BY <1>1 DEF HeldBy
<1> QED
  BY <1>3, <1>4 DEF LocksHeld

\* The same for a step of t that only moves on or takes a lock.
LEMMA MoveKeeps ==
  ASSUME LockInv, NEW t \in Txs, queue' = queue, HeldBy(t)',
         \A u \in Txs \ {t} : pc'[u] = pc[u] /\ job'[u] = job[u] /\ seen'[u] = seen[u],
         \A p \in Planets : planetLock[p] # NoTx => planetLock'[p] = planetLock[p],
         \A i \in Ids : rowLock[i] # NoTx => rowLock'[i] = rowLock[i]
  PROVE  LocksHeld'
<1>1. Active' = Active
  BY DEF Active, IsActive
<1>2. \A u \in Txs \ {t} : HeldBy(u)'
  BY <1>1, ConstantsOK, OthersKeep
<1> QED
  BY <1>2 DEF LocksHeld

LEMMA LockStepRequest ==
  ASSUME LockInv, NEW r \in Requests, Request(r)
  PROVE  LocksHeld'
<1>0. r \in Txs /\ TypeInv /\ HeldBy(r) /\ LockInv
  BY TxFacts DEF LockInv, LocksHeld
<1>1. /\ pc \in [Txs -> PCs] /\ seen \in [Txs -> SUBSET Ids]
      /\ job \in [Txs -> [planet : Planets, key : Keys, item : Ids \cup {0}]]
      /\ planetLock \in [Planets -> Txs \cup {NoTx}]
      /\ rowLock \in [Ids -> Txs \cup {NoTx}]
  BY <1>0 DEF TypeInv, TypeOK
<1>2. ASSUME NEW p \in Planets, NEW k \in Keys, QueueLock(r, p, k)
      PROVE  LocksHeld'
  <2>1. HeldBy(r)'
    BY <1>0, <1>1, <1>2 DEF QueueLock, Goto, LockPlanet, HeldBy
  <2> QED
    BY <1>0, <1>1, <1>2, <2>1, MoveKeeps DEF QueueLock, Goto, LockPlanet, tables
<1>3. CASE QueueCheck(r)
  <2>1. HeldBy(r)'
    BY <1>0, <1>1, <1>3 DEF QueueCheck, Goto, locks, HeldBy
  <2> QED
    BY <1>0, <1>1, <1>3, <2>1, MoveKeeps DEF QueueCheck, Goto, tables, locks
<1>4. CASE QueueCommit(r)
  <2>1. Finish(r) /\ \A i \in Repairable(job[r].key, seen[r]) : rowLock[i] = NoTx
    BY <1>4 DEF QueueCommit
  <2> QED
    BY <1>0, <1>4, <2>1, ActiveCommit, FinishKeeps
<1>5. ASSUME NEW i \in Ids, CancelRead(r, i)
      PROVE  LocksHeld'
  <2>1. HeldBy(r)'
    BY <1>0, <1>1, <1>5 DEF CancelRead, Goto, HeldBy
  <2> QED
    BY <1>0, <1>1, <1>5, <2>1, MoveKeeps DEF CancelRead, Goto, tables, locks
<1>6. CASE CancelMark(r)
  <2>1. job[r].item \in Ids
    BY <1>0, <1>6, QueueDomain DEF CancelMark, Goto, TypeInv, CancelledRowExists
  <2>2. HeldBy(r)'
    BY <1>0, <1>1, <1>6, <2>1 DEF CancelMark, LockRows, Goto, HeldBy
  <2> QED
    BY <1>0, <1>1, <1>6, <2>2, MoveKeeps DEF CancelMark, LockRows, Goto, tables
<1>7. CASE CancelLock(r)
  <2>1. HeldBy(r)'
    BY <1>0, <1>1, <1>7, TxFacts DEF CancelLock, LockPlanet, Goto, HeldBy
  <2> QED
    BY <1>0, <1>1, <1>7, <2>1, MoveKeeps DEF CancelLock, LockPlanet, Goto, tables
<1>8. CASE CancelCommit(r)
  <2>1. Finish(r) /\ queue' = Marked({}, {job[r].item}) /\ rowLock[job[r].item] = r
    BY <1>0, <1>8 DEF CancelCommit, HeldBy
  <2> QED
    BY <1>0, <2>1, ActiveMarked, FinishKeeps
<1>9. ASSUME NEW p \in Planets, ListRows(r, p)
      PROVE  LocksHeld'
  <2>1. HeldBy(r)'
    BY <1>0, <1>1, <1>9 DEF ListRows, Goto, HeldBy
  <2> QED
    BY <1>0, <1>1, <1>9, <2>1, MoveKeeps DEF ListRows, Goto, tables, locks
<1>10. CASE ListLevels(r)
  <2>1. HeldBy(r)'
    BY <1>0, <1>1, <1>10 DEF ListLevels, Goto, HeldBy
  <2> QED
    BY <1>0, <1>1, <1>10, <2>1, MoveKeeps DEF ListLevels, Goto, tables, locks
<1>11. CASE ListRepair(r)
  <2> PICK i \in seen[r] : /\ rowLock[i] = NoTx
                           /\ queue' = Marked({i}, {})
                           /\ seen' = [seen EXCEPT ![r] = @ \ {i}]
    BY <1>11 DEF ListRepair
  <2>1. Active' = Active \ {i}
    BY <1>0, ActiveMarked
  <2>2. pc[r] = "repairing" /\ UNCHANGED <<pc, job, planetLock, rowLock>>
    BY <1>11 DEF ListRepair, locks
  <2>3. HeldBy(r)'
    BY <2>2 DEF HeldBy
  <2>4. \A u \in Txs \ {r} : HeldBy(u)'
    BY <1>0, <1>1, <2>1, <2>2, OthersKeep
  <2> QED
    BY <2>3, <2>4 DEF LocksHeld
<1>12. CASE ListDone(r)
  <2>1. Active' = Active
    BY <1>12 DEF ListDone, tables, Active, IsActive
  <2> QED
    BY <1>0, <1>12, <2>1, FinishKeeps DEF ListDone
<1> QED
  BY <1>2, <1>3, <1>4, <1>5, <1>6, <1>7, <1>8, <1>9, <1>10, <1>11, <1>12 DEF Request

LEMMA LockStep == LockInv /\ [Next]_vars => LockInv'
<1> SUFFICES ASSUME LockInv, [Next]_vars
             PROVE  LocksHeld'
  BY TypeStep DEF LockInv
<1>0. TypeInv /\ LocksHeld
  BY DEF LockInv
<1>1. ASSUME queue' = queue PROVE Active' = Active
  BY <1>1 DEF Active, IsActive
<1>2. ASSUME NEW r \in Requests, Request(r)
      PROVE  LocksHeld'
  BY <1>2, LockStepRequest
<1>3. ASSUME NEW s \in Sweepers, SweepClaim(s)
      PROVE  LocksHeld'
  <2> PICK batch \in SUBSET {i \in Due : rowLock[i] = NoTx} :
             LockRows(s, batch) /\ seen' = [seen EXCEPT ![s] = batch]
    BY <1>3 DEF SweepClaim
  <2>1. batch \subseteq Active /\ \A i \in batch : rowLock[i] = NoTx
    BY DEF Due
  <2>2. /\ pc' = [pc EXCEPT ![s] = "claimed"] /\ queue' = queue
        /\ UNCHANGED <<planetLock, job>>
    BY <1>3 DEF SweepClaim, Goto, tables
  <2>3. rowLock' = [i \in Ids |-> IF i \in batch THEN s ELSE rowLock[i]]
    BY DEF LockRows
  <2>4. s \in Txs /\ pc'[s] = "claimed" /\ seen'[s] = batch
    BY <1>0, <2>2, TxFacts DEF TypeInv, TypeOK
  <2>5. HeldBy(s)'
    BY <1>0, <1>1, <2>1, <2>2, <2>3, <2>4, TxFacts DEF HeldBy
  <2> QED
    BY <2>1, <2>2, <2>3, <2>4, <2>5, MoveKeeps
<1>4. ASSUME NEW s \in Sweepers, SweepLock(s)
      PROVE  LocksHeld'
  <2> PICK i \in Unlocked(s) : LockPlanet(s, queue[i].planet)
    BY <1>4 DEF SweepLock
  <2>1. s \in Txs /\ pc[s] = "claimed" /\ HeldBy(s)
    BY <1>0, <1>4, TxFacts DEF SweepLock, LocksHeld
  <2>2. UNCHANGED <<queue, rowLock, pc, job, seen>>
    BY <1>4 DEF SweepLock, tables, locals
  <2>3. \A p \in Planets : planetLock[p] # NoTx => planetLock'[p] = planetLock[p]
    BY <1>0 DEF LockPlanet, TypeInv, TypeOK
  <2>4. HeldBy(s)'
    BY <1>1, <2>1, <2>2 DEF HeldBy
  <2> QED
    BY <2>1, <2>2, <2>3, <2>4, MoveKeeps
<1>5. ASSUME NEW s \in Sweepers, SweepCommit(s)
      PROVE  LocksHeld'
  <2>1. s \in Txs /\ HeldBy(s)
    BY <1>0, TxFacts DEF LocksHeld
  <2>2. Finish(s) /\ queue' = Marked(seen[s], {}) /\ \A i \in seen[s] : rowLock[i] = s
    BY <1>5, <2>1 DEF SweepCommit, HeldBy
  <2> QED
    BY <1>0, <2>1, <2>2, ActiveMarked, FinishKeeps
<1>6. ASSUME NEW t \in Txs, Rollback(t)
      PROVE  LocksHeld'
  BY <1>1, <1>6, FinishKeeps DEF Rollback, tables
<1>7. ASSUME NEW p \in Planets, Refresh(p)
      PROVE  LocksHeld'
  BY <1>0, <1>1, <1>7 DEF Refresh, locks, locals, LocksHeld, HeldBy
<1>8. CASE Tick \/ UNCHANGED vars
  BY <1>0, <1>1, <1>8 DEF Tick, vars, tables, locks, locals, LocksHeld, HeldBy
<1> QED
  BY <1>2, <1>3, <1>4, <1>5, <1>6, <1>7, <1>8 DEF Next, Sweep

\* Two transactions never hold what they rely on at the same time: a handler
\* that has read a planet FOR UPDATE keeps it to its commit, and the rows of
\* a batch stay unresolved and locked until the sweep that claimed them ends
\* (store.go:68-80, build_queue.go:155-166).
THEOREM LocksKept == Spec => []LockInv
BY LockInit, LockStep, PTL DEF Spec

-----------------------------------------------------------------------------
(* What a step does to the pending rows of one planet.                     *)

Kept(p) ==
  /\ ActiveOn(p)' \subseteq ActiveOn(p)
  /\ \A i \in ActiveOn(p) :
       /\ queue'[i].planet = queue[i].planet
       /\ queue'[i].key = queue[i].key
       /\ queue'[i].target = queue[i].target
       /\ queue'[i].start = queue[i].start
       /\ queue'[i].finish = queue[i].finish

LEMMA KeptOther ==
  ASSUME TypeInv, OtherStep
  PROVE  \A p \in Planets : Kept(p)
<1>1. Shrinks
  BY OtherStepShrinks
<1>2. \A p \in Planets : ActiveOn(p) \subseteq DOMAIN queue
  BY DEF ActiveOn, Active
<1> QED
  BY <1>1, <1>2, ActiveShrinks DEF Kept, Shrinks

LEMMA CommitOn ==
  ASSUME TypeInv, NEW r \in Requests, QueueCommit(r),
         NEW p \in Planets, p = job[r].planet
  PROVE  LET done == Repairable(job[r].key, seen[r])
             n == Len(queue) + 1
         IN /\ \A q \in Planets \ {p} : Kept(q)
            /\ n \notin ActiveOn(p)
            /\ ActiveOn(p)' = (ActiveOn(p) \ done) \cup {n}
            /\ \A i \in ActiveOn(p) :
                 /\ queue'[i].planet = queue[i].planet
                 /\ queue'[i].key = queue[i].key
                 /\ queue'[i].target = queue[i].target
                 /\ queue'[i].start = queue[i].start
                 /\ queue'[i].finish = queue[i].finish
<1> DEFINE done == Repairable(job[r].key, seen[r])
           n == Len(queue) + 1
<1>1. /\ DOMAIN queue' = DOMAIN queue \cup {n} /\ n \notin DOMAIN queue
      /\ \A i \in DOMAIN queue :
           /\ queue'[i].planet = queue[i].planet
           /\ queue'[i].key = queue[i].key
           /\ queue'[i].target = queue[i].target
           /\ queue'[i].start = queue[i].start
           /\ queue'[i].finish = queue[i].finish
      /\ queue'[n].planet = p
  BY CommitFacts
<1>2. Active' = (Active \ done) \cup {n}
  BY ActiveCommit
<1>3. Active \subseteq DOMAIN queue
  BY DEF Active
<1> HIDE DEF done, n
<1>4. \A q \in Planets \ {p} : Kept(q)
  BY <1>1, <1>2, <1>3 DEF Kept, ActiveOn
<1>5. n \notin ActiveOn(p) /\ ActiveOn(p)' = (ActiveOn(p) \ done) \cup {n}
  BY <1>1, <1>2, <1>3 DEF ActiveOn
<1>6. \A i \in ActiveOn(p) : i \in DOMAIN queue
  BY <1>3 DEF ActiveOn
<1> QED
  BY <1>1, <1>4, <1>5, <1>6 DEF done, n

\* An unchanged planet keeps its counts.
LEMMA CountedShrinks ==
  ASSUME TypeInv, TypeInv', LevelsGrow, NEW p \in Planets, NEW k \in Keys, Kept(p)
  PROVE  Counted(p, k)' \subseteq Counted(p, k)
<1> SUFFICES ASSUME NEW i \in Counted(p, k)' PROVE i \in Counted(p, k)
  OBVIOUS
<1>1. i \in ActiveOn(p) /\ i \in ActiveOn(p)'
  BY DEF Counted, Kept
<1>2. CASE QueueType[k] # "building"
  BY <1>1, <1>2 DEF Counted
<1>3. CASE QueueType[k] = "building"
  <2>1. /\ queue'[i].planet = queue[i].planet /\ queue'[i].key = queue[i].key
        /\ queue'[i].target = queue[i].target
    BY <1>1 DEF Kept
  <2>2. queue[i].planet \in Planets /\ queue[i].key \in Keys /\ queue[i].target \in Nat
    BY <1>1, QueueDomain DEF TypeInv, ActiveOn, Row
  <2>3. level'[queue[i].planet][queue[i].key] \in Nat
    <3>1. level' \in [Planets -> [Keys -> Nat]]
      BY DEF TypeInv, TypeOK
    <3> QED
      BY <2>2, <3>1
  <2> QED
    BY <1>1, <1>3, <2>1, <2>2, <2>3, LevelFacts DEF Counted, AlreadyBuilt, TypeOf, LevelsGrow
<1> QED
  BY <1>2, <1>3

LEMMA CountSubset ==
  ASSUME NEW S \in SUBSET Ids, NEW T \in SUBSET S
  PROVE  /\ Cardinality(T) <= Cardinality(S)
         /\ Cardinality(T) \in Nat /\ Cardinality(S) \in Nat
BY CountType, FS_Subset

LEMMA ActiveOnIds ==
  ASSUME TypeInv, NEW p
  PROVE  ActiveOn(p) \in SUBSET Ids
BY QueueDomain DEF TypeInv, ActiveOn

-----------------------------------------------------------------------------
(* What an admitted handler has checked stays true: nobody else can insert *)
(* for the planet it holds, and resolving rows or raising levels only makes*)
(* room.                                                                   *)

LEMMA CheckedBefore ==
  ASSUME TypeInv, [Next]_vars, NEW r \in Requests, pc'[r] = "checked"
  PROVE  \/ QueueCheck(r)
         \/ pc[r] = "checked" /\ job'[r] = job[r] /\ seen'[r] = seen[r] /\ ~QueueCommit(r)
<1>1. /\ pc \in [Txs -> PCs] /\ seen \in [Txs -> SUBSET Ids] /\ r \in Txs
      /\ job \in [Txs -> [planet : Planets, key : Keys, item : Ids \cup {0}]]
  BY TxFacts DEF TypeInv, TypeOK
<1>2. ASSUME NEW t \in Txs, Finish(t)
      PROVE  pc[r] = "checked" /\ job'[r] = job[r] /\ seen'[r] = seen[r] /\ r # t
  BY <1>1, <1>2, FinishType DEF TypeInv
<1>3. ~QueueCommit(r)
  BY <1>1, <1>2 DEF QueueCommit
<1>4. ASSUME NEW q \in Requests, Request(q), ~QueueCheck(r)
      PROVE  pc[r] = "checked" /\ job'[r] = job[r] /\ seen'[r] = seen[r]
  <2>1. q \in Txs
    BY TxFacts
  <2>2. CASE QueueCommit(q) \/ CancelCommit(q) \/ ListDone(q)
    BY <1>2, <2>1, <2>2 DEF QueueCommit, CancelCommit, ListDone
  <2>3. CASE \E p \in Planets, k \in Keys : QueueLock(q, p, k)
    BY <1>1, <2>1, <2>3 DEF QueueLock, Goto
  <2>4. CASE QueueCheck(q)
    BY <1>1, <1>4, <2>1, <2>4 DEF QueueCheck, Goto
  <2>5. CASE \E i \in Ids : CancelRead(q, i)
    BY <1>1, <2>1, <2>5 DEF CancelRead, Goto
  <2>6. CASE CancelMark(q) \/ CancelLock(q)
    BY <1>1, <2>1, <2>6 DEF CancelMark, CancelLock, Goto
  <2>7. CASE (\E p \in Planets : ListRows(q, p)) \/ ListLevels(q)
    BY <1>1, <2>1, <2>7 DEF ListRows, ListLevels, Goto
  <2>8. CASE ListRepair(q)
    BY <1>1, <2>1, <2>8 DEF ListRepair
  <2> QED
    BY <1>4, <2>2, <2>3, <2>4, <2>5, <2>6, <2>7, <2>8 DEF Request
<1>5. ASSUME NEW s \in Sweepers, Sweep(s)
      PROVE  pc[r] = "checked" /\ job'[r] = job[r] /\ seen'[r] = seen[r]
  <2>1. s \in Txs /\ s # r
    BY TxFacts
  <2>2. CASE SweepClaim(s)
    BY <1>1, <2>1, <2>2 DEF SweepClaim, Goto
  <2>3. CASE SweepLock(s)
    BY <2>3 DEF SweepLock, locals
  <2>4. CASE SweepCommit(s)
    BY <1>2, <2>1, <2>4 DEF SweepCommit
  <2> QED
    BY <1>5, <2>2, <2>3, <2>4 DEF Sweep
<1>6. ASSUME NEW t \in Txs, Rollback(t)
      PROVE  pc[r] = "checked" /\ job'[r] = job[r] /\ seen'[r] = seen[r]
  BY <1>2, <1>6 DEF Rollback
<1>7. ASSUME (\E p \in Planets : Refresh(p)) \/ Tick \/ UNCHANGED vars
      PROVE  pc[r] = "checked" /\ job'[r] = job[r] /\ seen'[r] = seen[r]
  BY <1>7 DEF Refresh, Tick, vars, locals
<1> QED
  BY <1>3, <1>4, <1>5, <1>6, <1>7 DEF Next

LEMMA AdmittedStep ==
  ASSUME LockInv, Admitted, [Next]_vars
  PROVE  Admitted'
<1> SUFFICES ASSUME NEW r \in Requests, pc'[r] = "checked",
                    NEW p, p = job'[r].planet, NEW k, k = job'[r].key
             PROVE  /\ ActiveOn(p)' \subseteq seen'[r]
                    /\ QueueType[k] = "research" => \A i \in ActiveOn(p)' : TypeOf(i)' # "research"
                    /\ QueueType[k] # "research" => Cardinality(Counted(p, k)') < Cap
  BY DEF Admitted
<1>1. TypeInv /\ TypeInv' /\ LocksHeld /\ LockInv'
  BY LockStep, TypeStep DEF LockInv
<1>2. r \in Txs /\ p \in Planets /\ k \in Keys
  BY <1>1, TxFacts DEF TypeInv, TypeOK
<1>3. CASE QueueCheck(r)
  <2>1. job' = job /\ seen'[r] = ActiveOn(p) /\ UNCHANGED <<queue, level>>
    BY <1>1, <1>2, <1>3 DEF QueueCheck, tables, TypeInv, TypeOK
  <2>2. ActiveOn(p)' = ActiveOn(p) /\ Counted(p, k)' = Counted(p, k)
    BY <2>1 DEF ActiveOn, Active, IsActive, Counted, AlreadyBuilt, TypeOf
  <2>3. IF QueueType[k] = "research" THEN ActiveResearch(Owner[p]) = {}
        ELSE Cardinality(ActiveOn(p) \ Repairable(k, ActiveOn(p))) < Cap
    BY <1>3, <2>1 DEF QueueCheck
  <2>4. ASSUME QueueType[k] = "research"
        PROVE  \A i \in ActiveOn(p)' : TypeOf(i)' # "research"
    BY <2>1, <2>2, <2>3, <2>4 DEF ActiveResearch, ActiveOn, TypeOf
  <2>5. ActiveOn(p) \ Repairable(k, ActiveOn(p)) = Counted(p, k)
    BY DEF Repairable, Counted
  <2> QED
    BY <2>1, <2>2, <2>3, <2>4, <2>5
<1>4. CASE pc[r] = "checked" /\ job'[r] = job[r] /\ seen'[r] = seen[r] /\ ~QueueCommit(r)
  <2>1. planetLock[p] = r
    BY <1>1, <1>2, <1>4 DEF LocksHeld, HeldBy
  <2>2. Kept(p) /\ LevelsGrow
    <3>1. CASE OtherStep
      BY <1>1, <1>2, <3>1, KeptOther, OtherStepShrinks
    <3>2. CASE \E q \in Requests : QueueCommit(q)
      <4> PICK q \in Requests : QueueCommit(q)
        BY <3>2
      <4>1. q \in Txs /\ q # r
        BY <1>1, <1>4, TxFacts
      <4>2. planetLock[job[q].planet] = q
        BY <1>1, <4>1 DEF LocksHeld, HeldBy, QueueCommit
      <4>3. Kept(p)
        BY <1>1, <1>2, <2>1, <4>1, <4>2, CommitOn, TxFacts
      <4>4. LevelsGrow
        BY <1>1, LevelFacts DEF QueueCommit, LevelsGrow
      <4> QED
        BY <4>3, <4>4
    <3> QED
      BY <3>1, <3>2, NextCases
  <2>3. /\ ActiveOn(p) \subseteq seen[r]
        /\ QueueType[k] = "research" => \A i \in ActiveOn(p) : TypeOf(i) # "research"
        /\ QueueType[k] # "research" => Cardinality(Counted(p, k)) < Cap
    BY <1>4 DEF Admitted
  <2>4. ActiveOn(p)' \subseteq seen'[r]
    BY <1>4, <2>2, <2>3 DEF Kept
  <2>5. ASSUME QueueType[k] = "research"
        PROVE  \A i \in ActiveOn(p)' : TypeOf(i)' # "research"
    BY <2>2, <2>3, <2>5 DEF Kept, TypeOf
  <2>6. ASSUME QueueType[k] # "research"
        PROVE  Cardinality(Counted(p, k)') < Cap
    <3>1. Counted(p, k)' \subseteq Counted(p, k)
      BY <1>1, <1>2, <2>2, CountedShrinks
    <3>2. Counted(p, k) \in SUBSET Ids
      BY <1>1, ActiveOnIds DEF Counted
    <3> QED
      BY <2>3, <2>6, <3>1, <3>2, CountSubset, ConstantsOK
  <2> QED
    BY <2>4, <2>5, <2>6
<1> QED
  BY <1>1, <1>3, <1>4, CheckedBefore

-----------------------------------------------------------------------------
(* The four invariants of a planet's pending rows.                         *)

SafeInv ==
  LockInv /\ Admitted /\ QueueCapped /\ QueueIsSerial /\ TargetsDistinct /\ OneResearchPerPlanet

LEMMA SafeInit == Init => SafeInv
<1> SUFFICES ASSUME Init PROVE SafeInv
  OBVIOUS
<1>1. \A p \in Planets : ActiveOn(p) = {}
  BY DEF Init, ActiveOn, Active
<1>2. Admitted
  BY TxFacts, TypeInit DEF Init, Admitted, Txs
<1>3. QueueCapped
  <2>1. Cardinality({}) = 0 /\ Cap \in Nat
    BY FS_EmptySet, ConstantsOK
  <2>2. \A p \in Planets : {i \in ActiveOn(p) : TypeOf(i) # "research"} = {}
    BY <1>1
  <2> QED
    BY <2>1, <2>2 DEF QueueCapped
<1>4. QueueIsSerial /\ TargetsDistinct /\ OneResearchPerPlanet
  BY <1>1 DEF QueueIsSerial, TargetsDistinct, OneResearchPerPlanet
<1> QED
  BY <1>2, <1>3, <1>4, LockInit DEF SafeInv

\* On a planet that gets no row all four survive.
LEMMA KeptIsSafe ==
  ASSUME TypeInv, NEW p \in Planets, Kept(p),
         QueueCapped, QueueIsSerial, TargetsDistinct, OneResearchPerPlanet
  PROVE  /\ Cardinality({i \in ActiveOn(p)' : TypeOf(i)' # "research"}) <= Cap
         /\ \A i, j \in ActiveOn(p)' :
              i # j /\ "research" \notin {TypeOf(i)', TypeOf(j)'} =>
                queue'[i].finish <= queue'[j].start \/ queue'[j].finish <= queue'[i].start
         /\ \A i, j \in ActiveOn(p)' :
              /\ TypeOf(i)' = "building" /\ queue'[i].key = queue'[j].key
              /\ queue'[i].target = queue'[j].target
              => i = j
         /\ \A i, j \in ActiveOn(p)' :
              TypeOf(i)' = "research" /\ TypeOf(j)' = "research" => i = j
<1>1. /\ ActiveOn(p)' \subseteq ActiveOn(p)
      /\ \A i \in ActiveOn(p) :
           /\ TypeOf(i)' = TypeOf(i)
           /\ queue'[i].key = queue[i].key
           /\ queue'[i].target = queue[i].target
           /\ queue'[i].start = queue[i].start
           /\ queue'[i].finish = queue[i].finish
  BY DEF Kept, TypeOf
<1>2. Cardinality({i \in ActiveOn(p)' : TypeOf(i)' # "research"}) <= Cap
  <2> DEFINE S == {i \in ActiveOn(p) : TypeOf(i) # "research"}
             T == {i \in ActiveOn(p)' : TypeOf(i)' # "research"}
  <2>1. S \in SUBSET Ids
    BY ActiveOnIds
  <2>2. T \in SUBSET S
    BY <1>1
  <2>3. Cardinality(S) <= Cap
    BY DEF QueueCapped
  <2> HIDE DEF S, T
  <2>4. Cardinality(T) <= Cap
    BY <2>1, <2>2, <2>3, CountSubset, ConstantsOK
  <2> QED
    BY <2>4 DEF T
<1>3. \A i, j \in ActiveOn(p)' :
        i # j /\ "research" \notin {TypeOf(i)', TypeOf(j)'} =>
          queue'[i].finish <= queue'[j].start \/ queue'[j].finish <= queue'[i].start
  BY <1>1 DEF QueueIsSerial
<1>4. \A i, j \in ActiveOn(p)' :
        /\ TypeOf(i)' = "building" /\ queue'[i].key = queue'[j].key
        /\ queue'[i].target = queue'[j].target
        => i = j
  BY <1>1 DEF TargetsDistinct
<1>5. \A i, j \in ActiveOn(p)' :
        TypeOf(i)' = "research" /\ TypeOf(j)' = "research" => i = j
  BY <1>1 DEF OneResearchPerPlanet
<1> QED
  BY <1>2, <1>3, <1>4, <1>5

\* Nor can the commit of an order break them on its own planet: the handler
\* was admitted, and chains the row behind the pending ones.
LEMMA CommitIsSafe ==
  ASSUME SafeInv, NEW r \in Requests, QueueCommit(r),
         NEW p \in Planets, p = job[r].planet
  PROVE  /\ Cardinality({i \in ActiveOn(p)' : TypeOf(i)' # "research"}) <= Cap
         /\ \A i, j \in ActiveOn(p)' :
              i # j /\ "research" \notin {TypeOf(i)', TypeOf(j)'} =>
                queue'[i].finish <= queue'[j].start \/ queue'[j].finish <= queue'[i].start
         /\ \A i, j \in ActiveOn(p)' :
              /\ TypeOf(i)' = "building" /\ queue'[i].key = queue'[j].key
              /\ queue'[i].target = queue'[j].target
              => i = j
         /\ \A i, j \in ActiveOn(p)' :
              TypeOf(i)' = "research" /\ TypeOf(j)' = "research" => i = j
<1> PICK k, done, old, n : /\ k = job[r].key
                           /\ done = Repairable(k, seen[r])
                           /\ old = ActiveOn(p)
                           /\ n = Len(queue) + 1
  OBVIOUS
<1>1. TypeInv /\ pc[r] = "checked" /\ r \in Txs /\ k \in Keys
  BY TxFacts DEF SafeInv, LockInv, QueueCommit, TypeInv, TypeOK
<1>2. /\ old \subseteq seen[r]
      /\ QueueType[k] = "research" => \A i \in old : TypeOf(i) # "research"
      /\ QueueType[k] # "research" => Cardinality(Counted(p, k)) < Cap
  BY <1>1 DEF SafeInv, Admitted
<1>3. /\ n \notin old
      /\ ActiveOn(p)' = (old \ done) \cup {n}
      /\ \A i \in old :
           /\ queue'[i].key = queue[i].key
           /\ queue'[i].target = queue[i].target
           /\ queue'[i].start = queue[i].start
           /\ queue'[i].finish = queue[i].finish
  BY <1>1, CommitOn
<1>4. /\ queue'[n].key = k /\ n \in Ids
      /\ queue'[n].start \in Nat /\ queue'[n].finish \in Nat
      /\ IsStart(queue'[n].start, k, ActiveOn(p) \ done)
      /\ IsTarget(queue'[n].target, p, k, seen[r] \ done)
  BY <1>1, CommitFacts
<1>5. /\ \A i \in old : TypeOf(i)' = TypeOf(i)
      /\ TypeOf(n)' = QueueType[k]
  BY <1>3, <1>4 DEF TypeOf
<1>6. old \in SUBSET Ids /\ \A i \in old : queue[i] \in Row
  BY <1>1, ActiveOnIds, QueueDomain DEF TypeInv, ActiveOn
<1>7. Cardinality({i \in ActiveOn(p)' : TypeOf(i)' # "research"}) <= Cap
  <2> DEFINE T == {i \in ActiveOn(p)' : TypeOf(i)' # "research"}
             S == {i \in old : TypeOf(i) # "research"}
  <2>1. CASE QueueType[k] = "research"
    <3>1. T \subseteq S
      BY <1>3, <1>5, <2>1
    <3>2. Cardinality(S) <= Cap
      BY DEF SafeInv, QueueCapped
    <3>3. S \in SUBSET Ids
      BY <1>6
    <3> HIDE DEF S, T
    <3> QED
      BY <3>1, <3>2, <3>3, CountSubset, ConstantsOK DEF T
  <2>2. CASE QueueType[k] # "research"
    <3> DEFINE C == Counted(p, k)
    <3>1. old \ done \subseteq C
      BY <1>2 DEF C, Counted, Repairable
    <3>2. T \subseteq C \cup {n}
      BY <1>3, <3>1
    <3>3. C \in SUBSET Ids /\ Cardinality(C) < Cap
      BY <1>2, <1>6, <2>2 DEF C, Counted
    <3> HIDE DEF C, T
    <3>4. IsFiniteSet(C) /\ Cardinality(C) \in Nat
      BY <3>3, CountType
    <3>5. Cardinality(C \cup {n}) <= Cardinality(C) + 1
      <4>1. Cardinality(C \cup {n}) = IF n \in C THEN Cardinality(C) ELSE Cardinality(C) + 1
        BY <3>4, FS_AddElement, Zenon
      <4> QED
        BY <3>4, <4>1
    <3>6. C \cup {n} \in SUBSET Ids
      BY <1>4, <3>3
    <3>7. Cardinality(T) <= Cardinality(C \cup {n}) /\ Cardinality(T) \in Nat /\ Cardinality(C \cup {n}) \in Nat
      BY <3>2, <3>6, CountSubset
    <3> QED
      BY <3>3, <3>4, <3>5, <3>7, ConstantsOK DEF T
  <2> QED
    BY <2>1, <2>2
<1>8. \A i, j \in ActiveOn(p)' :
        i # j /\ "research" \notin {TypeOf(i)', TypeOf(j)'} =>
          queue'[i].finish <= queue'[j].start \/ queue'[j].finish <= queue'[i].start
  <2>1. \A i, j \in old :
          i # j /\ "research" \notin {TypeOf(i), TypeOf(j)} =>
            queue[i].finish <= queue[j].start \/ queue[j].finish <= queue[i].start
    BY DEF SafeInv, QueueIsSerial
  <2>2. QueueType[k] # "research" => \A i \in old \ done : queue[i].finish <= queue'[n].start
    BY <1>4 DEF IsStart, IsTail
  <2> QED
    BY <1>3, <1>5, <2>1, <2>2
<1>9. \A i, j \in ActiveOn(p)' :
        /\ TypeOf(i)' = "building" /\ queue'[i].key = queue'[j].key
        /\ queue'[i].target = queue'[j].target
        => i = j
  <2>1. \A i, j \in old :
          /\ TypeOf(i) = "building" /\ queue[i].key = queue[j].key
          /\ queue[i].target = queue[j].target
          => i = j
    BY DEF SafeInv, TargetsDistinct
  <2>2. ASSUME QueueType[k] = "building", NEW i \in old \ done, queue[i].key = k
        PROVE  queue[i].target # queue'[n].target
    <3>1. queue[i].target < queue'[n].target
      BY <1>2, <1>4, <2>2 DEF IsTarget, IsNextLevel
    <3>2. queue[i].target \in Nat /\ queue'[n].target \in Nat
      BY <1>1, <1>6, CommitFacts DEF Row
    <3> QED
      BY <3>1, <3>2
  <2>3. \A i \in old : TypeOf(i) = QueueType[queue[i].key]
    BY DEF TypeOf
  <2> QED
    BY <1>3, <1>4, <1>5, <2>1, <2>2, <2>3
<1>10. \A i, j \in ActiveOn(p)' :
         TypeOf(i)' = "research" /\ TypeOf(j)' = "research" => i = j
  <2>1. \A i, j \in old : TypeOf(i) = "research" /\ TypeOf(j) = "research" => i = j
    BY DEF SafeInv, OneResearchPerPlanet
  <2> QED
    BY <1>2, <1>3, <1>5, <2>1
<1> QED
  BY <1>7, <1>8, <1>9, <1>10

LEMMA SafeStep == SafeInv /\ [Next]_vars => SafeInv'
<1> SUFFICES ASSUME SafeInv, [Next]_vars PROVE SafeInv'
  OBVIOUS
<1>1. TypeInv /\ LockInv /\ LockInv' /\ Admitted'
  BY LockStep, AdmittedStep DEF SafeInv, LockInv
<1>2. ASSUME NEW p \in Planets
      PROVE  /\ Cardinality({i \in ActiveOn(p)' : TypeOf(i)' # "research"}) <= Cap
             /\ \A i, j \in ActiveOn(p)' :
                  i # j /\ "research" \notin {TypeOf(i)', TypeOf(j)'} =>
                    queue'[i].finish <= queue'[j].start \/ queue'[j].finish <= queue'[i].start
             /\ \A i, j \in ActiveOn(p)' :
                  /\ TypeOf(i)' = "building" /\ queue'[i].key = queue'[j].key
                  /\ queue'[i].target = queue'[j].target
                  => i = j
             /\ \A i, j \in ActiveOn(p)' :
                  TypeOf(i)' = "research" /\ TypeOf(j)' = "research" => i = j
  <2>1. CASE Kept(p)
    BY <1>1, <2>1, KeptIsSafe DEF SafeInv
  <2>2. CASE ~Kept(p)
    <3> PICK r \in Requests : QueueCommit(r)
      BY <1>1, <2>2, KeptOther, NextCases
    <3>1. p = job[r].planet
      BY <1>1, <2>2, CommitOn, TxFacts
    <3> QED
      BY <3>1, CommitIsSafe
  <2> QED
    BY <2>1, <2>2
<1>3. QueueCapped'
  BY <1>2 DEF QueueCapped
<1>4. QueueIsSerial'
  BY <1>2 DEF QueueIsSerial
<1>5. TargetsDistinct'
  BY <1>2 DEF TargetsDistinct
<1>6. OneResearchPerPlanet'
  BY <1>2 DEF OneResearchPerPlanet
<1> QED
  BY <1>1, <1>3, <1>4, <1>5, <1>6 DEF SafeInv

LEMMA SafeAlways == Spec => []SafeInv
BY SafeInit, SafeStep, PTL DEF Spec

\* The cap of a planet's queue, however many handlers race for its last slot
\* (build.go:79, shipyard.go:65, shipyard.go:188).
THEOREM CapHolds == Spec => []QueueCapped
BY SafeAlways, PTL DEF SafeInv

\* No two unresolved orders of a planet that are not research overlap in time
\* (build.go:110-121, shipyard.go:104-119).
THEOREM SerialHolds == Spec => []QueueIsSerial
BY SafeAlways, PTL DEF SafeInv

\* No two unresolved upgrades of a building aim at one level (build.go:82-90).
THEOREM TargetsHold == Spec => []TargetsDistinct
BY SafeAlways, PTL DEF SafeInv

\* One unresolved research per planet (research.go:57, research.go:76-83).
THEOREM ResearchHolds == Spec => []OneResearchPerPlanet
BY SafeAlways, PTL DEF SafeInv

-----------------------------------------------------------------------------
(* Effects.                                                                *)

LEMMA GainStep ==
  ASSUME LockInv, [Next]_vars, NEW p \in Planets, NEW k \in Keys,
         level'[p][k] # level[p][k]
  PROVE  level'[p][k] - level[p][k] <=
           Cardinality({i \in RowsFor(ActiveOn(p), p, k) : queue'[i].applied})
<1>1. TypeInv /\ LocksHeld
  BY DEF LockInv
<1>2. PICK s \in Sweepers : SweepCommit(s)
  BY DEF Next, Request, QueueLock, QueueCheck, QueueCommit, CancelRead, CancelMark, CancelLock,
         CancelCommit, ListRows, ListLevels, ListRepair, ListDone, Sweep, SweepClaim, SweepLock,
         Rollback, Refresh, Tick, vars, tables
<1> DEFINE mine == RowsFor(seen[s], p, k)
           resolved == {i \in RowsFor(ActiveOn(p), p, k) : queue'[i].applied}
<1>3. s \in Txs /\ HeldBy(s) /\ pc[s] = "claimed"
  BY <1>1, <1>2, TxFacts DEF LocksHeld, SweepCommit
<1>4. \A i \in seen[s] : i \in Active /\ i \in DOMAIN queue
  BY <1>3 DEF HeldBy, Active
<1>5. \A i \in seen[s] : queue'[i].applied
  <2>1. queue \in Seq(Row)
    BY <1>1 DEF TypeInv, TypeOK
  <2>2. queue' = Marked(seen[s], {})
    BY <1>2 DEF SweepCommit
  <2> QED
    BY <1>4, <2>1, <2>2, MarkedFacts
<1>6. mine \subseteq resolved
  BY <1>4, <1>5 DEF RowsFor, ActiveOn
<1>7. resolved \in SUBSET Ids /\ mine \in SUBSET resolved
  BY <1>1, <1>6, ActiveOnIds DEF RowsFor
<1>8. level'[p][k] = level[p][k] + Cardinality(mine)
  BY <1>2 DEF SweepCommit
<1> HIDE DEF mine, resolved
<1>9. Cardinality(mine) <= Cardinality(resolved) /\ Cardinality(mine) \in Nat /\ Cardinality(resolved) \in Nat
  BY <1>7, CountSubset
<1> QED
  BY <1>1, <1>8, <1>9, LevelFacts DEF resolved

\* Every level and unit a planet gains is paid for by orders that are pending
\* until that very step and applied by it: no order takes effect twice,
\* whatever the schedulers, handlers and rollbacks do (scheduler.go:61-63,
\* build_queue.go:155-166).
THEOREM GainsHold == Spec => GainsAreOrders
<1>1. LockInv /\ [Next]_vars =>
        [\A p \in Planets, k \in Keys :
          LET resolved == {i \in RowsFor(ActiveOn(p), p, k) : queue'[i].applied}
          IN level'[p][k] # level[p][k] =>
               level'[p][k] - level[p][k] <= Cardinality(resolved)]_vars
  BY GainStep
<1> QED
  BY <1>1, LocksKept, PTL DEF Spec, GainsAreOrders

-----------------------------------------------------------------------------
(* The stockpile.  What a handler pays from, or a Cancel credits to, is the *)
(* stockpile it read under the planet's lock, brought up to the present.   *)

UpdatedPast == \A p \in Planets : updated[p] <= clock

\* The row a Cancel works on belongs to the planet it credits.
CancelsItsRow ==
  \A r \in Requests : pc[r] \in {"cancelling", "marked", "crediting"} =>
    queue[job[r].item].planet = job[r].planet

\* A purse holds no more than the stock it was read from and its production.
PurseCovered ==
  \A r \in Requests : pc[r] \in {"locked", "checked", "crediting"} =>
    LET p == job[r].planet
    IN purse[r] + Rate * updated[p] <= metal[p] + Rate * clock

StockInv == LockInv /\ UpdatedPast /\ CancelsItsRow /\ PurseCovered /\ NoFreeResources

LEMMA YieldGrows ==
  ASSUME NEW a \in Nat, NEW b \in Nat, a <= b
  PROVE  Rate * a \in Nat /\ Rate * b \in Nat /\ Rate * a <= Rate * b
<1>1. Rate \in Nat
  BY ConstantsOK
<1>2. a * Rate \in Nat /\ b * Rate \in Nat /\ a * Rate <= b * Rate
  BY <1>1, ProductGrows
<1>3. Rate * a = a * Rate /\ Rate * b = b * Rate
  BY <1>1
<1> QED
  BY <1>2, <1>3

LEMMA TimeFacts ==
  ASSUME TypeInv
  PROVE  /\ clock \in Nat
         /\ \A p \in Planets : updated[p] \in Nat /\ metal[p] \in Nat
         /\ \A t \in Txs : purse[t] \in Nat
         /\ Rate \in Nat /\ StartMetal \in Nat
BY ConstantsOK DEF TypeInv, TypeOK

\* Production yields at most Rate a second.
LEMMA RefreshedYield ==
  ASSUME TypeInv, NEW p \in Planets, updated[p] <= clock
  PROVE  Refreshed(p) \in Nat /\ Refreshed(p) + Rate * updated[p] <= metal[p] + Rate * clock
<1>1. Refreshed(p) \in Nat
  BY RefreshedType DEF TypeInv
<1>2. clock \in Nat /\ updated[p] \in Nat /\ metal[p] \in Nat /\ Rate \in Nat /\ Storage \in Nat
  BY TimeFacts, ConstantsOK
<1>3. Rate * updated[p] \in Nat /\ Rate * clock \in Nat /\ Rate * updated[p] <= Rate * clock
  BY <1>2, YieldGrows
<1>4. Rate * (clock - updated[p]) = Rate * clock - Rate * updated[p]
  BY <1>2
<1>5. Refreshed(p) = metal[p] \/ Refreshed(p) <= metal[p] + Rate * (clock - updated[p])
  <2>1. Rate * (clock - updated[p]) \in Int
    BY <1>3, <1>4
  <2> QED
    BY <1>2, <2>1 DEF Refreshed
<1> QED
  BY <1>1, <1>2, <1>3, <1>4, <1>5

\* Who moves a request's program counter, job and purse.
Sits(r) == pc'[r] = pc[r] /\ job'[r] = job[r] /\ purse'[r] = purse[r]

LEMMA RequestMoves ==
  ASSUME TypeInv, [Next]_vars, NEW r \in Requests,
         pc'[r] \in {"locked", "checked", "cancelling", "marked", "crediting"}
  PROVE  \/ \E p \in Planets, k \in Keys : QueueLock(r, p, k)
         \/ QueueCheck(r) \/ (\E i \in Ids : CancelRead(r, i)) \/ CancelMark(r) \/ CancelLock(r)
         \/ Sits(r) /\ ~QueueCommit(r) /\ ~CancelCommit(r)
<1> DEFINE Own == \/ \E p \in Planets, k \in Keys : QueueLock(r, p, k)
                  \/ QueueCheck(r) \/ (\E i \in Ids : CancelRead(r, i))
                  \/ CancelMark(r) \/ CancelLock(r)
<1>1. /\ pc \in [Txs -> PCs] /\ seen \in [Txs -> SUBSET Ids] /\ r \in Txs
      /\ job \in [Txs -> [planet : Planets, key : Keys, item : Ids \cup {0}]]
      /\ purse \in [Txs -> Nat]
  BY TxFacts DEF TypeInv, TypeOK
<1>2. ASSUME NEW t \in Txs, Finish(t)
      PROVE  Sits(r) /\ r # t
  BY <1>1, <1>2 DEF Finish, Sits
<1>3. ~QueueCommit(r) /\ ~CancelCommit(r)
  BY <1>1, <1>2 DEF QueueCommit, CancelCommit
<1>4. ASSUME NEW q \in Requests, Request(q), ~Own
      PROVE  Sits(r)
  <2>1. q \in Txs
    BY TxFacts
  <2>2. CASE QueueCommit(q) \/ CancelCommit(q) \/ ListDone(q)
    BY <1>2, <2>1, <2>2 DEF QueueCommit, CancelCommit, ListDone
  <2>3. CASE \E p \in Planets, k \in Keys : QueueLock(q, p, k)
    <3>1. q # r
      BY <1>4, <2>3
    <3> PICK p \in Planets, k \in Keys : QueueLock(q, p, k)
      BY <2>3
    <3>2. /\ pc' = [pc EXCEPT ![q] = "locked"]
          /\ job' = [job EXCEPT ![q] = [planet |-> p, key |-> k, item |-> 0]]
          /\ purse' = [purse EXCEPT ![q] = Refreshed(p)]
      BY DEF QueueLock, Goto
    <3> HIDE DEF Own
    <3> QED
      BY <1>1, <3>1, <3>2 DEF Sits
  <2>4. CASE QueueCheck(q)
    BY <1>1, <1>4, <2>1, <2>4 DEF QueueCheck, Goto, Sits
  <2>5. CASE \E i \in Ids : CancelRead(q, i)
    BY <1>1, <1>4, <2>1, <2>5 DEF CancelRead, Goto, Sits
  <2>6. CASE CancelMark(q)
    BY <1>1, <1>4, <2>1, <2>6 DEF CancelMark, Goto, Sits
  <2>7. CASE CancelLock(q)
    BY <1>1, <1>4, <2>1, <2>7 DEF CancelLock, Goto, Sits
  <2>8. CASE (\E p \in Planets : ListRows(q, p)) \/ ListLevels(q)
    BY <1>1, <2>1, <2>8 DEF ListRows, ListLevels, Goto, Sits
  <2>9. CASE ListRepair(q)
    BY <1>1, <2>1, <2>9 DEF ListRepair, Sits
  <2> QED
    BY <1>4, <2>2, <2>3, <2>4, <2>5, <2>6, <2>7, <2>8, <2>9 DEF Request
<1>5. ASSUME NEW s \in Sweepers, Sweep(s)
      PROVE  Sits(r)
  <2>1. s \in Txs /\ s # r
    BY TxFacts
  <2>2. CASE SweepClaim(s)
    BY <1>1, <2>1, <2>2 DEF SweepClaim, Goto, Sits
  <2>3. CASE SweepLock(s)
    BY <2>3 DEF SweepLock, locals, Sits
  <2>4. CASE SweepCommit(s)
    BY <1>2, <2>1, <2>4 DEF SweepCommit
  <2> QED
    BY <1>5, <2>2, <2>3, <2>4 DEF Sweep
<1>6. ASSUME NEW t \in Txs, Rollback(t)
      PROVE  Sits(r)
  BY <1>2, <1>6 DEF Rollback
<1>7. ASSUME (\E p \in Planets : Refresh(p)) \/ Tick \/ UNCHANGED vars
      PROVE  Sits(r)
  BY <1>7 DEF Refresh, Tick, vars, locals, Sits
<1> QED
  BY <1>3, <1>4, <1>5, <1>6, <1>7 DEF Next

\* Who writes the stockpile of p: its holder, or a refresh while nobody holds it.
LEMMA StockMoves ==
  ASSUME LockInv, [Next]_vars, NEW p \in Planets
  PROVE  \/ metal'[p] = metal[p] /\ updated'[p] = updated[p]
         \/ Refresh(p)
         \/ \E r \in Requests : /\ QueueCommit(r) \/ CancelCommit(r)
                                /\ p = job[r].planet /\ planetLock[p] = r
<1> DEFINE Still == metal'[p] = metal[p] /\ updated'[p] = updated[p]
<1>1. /\ metal \in [Planets -> Nat] /\ updated \in [Planets -> 0..Horizon]
      /\ TypeInv /\ LocksHeld
  BY DEF LockInv, TypeInv, TypeOK
<1>2. ASSUME NEW r \in Requests, Request(r), ~QueueCommit(r), ~CancelCommit(r)
      PROVE  Still
  BY <1>2 DEF Request, QueueLock, QueueCheck, CancelRead, CancelMark, CancelLock, ListRows,
              ListLevels, ListRepair, ListDone, tables
<1>3. ASSUME NEW r \in Requests, QueueCommit(r) \/ CancelCommit(r)
      PROVE  planetLock[job[r].planet] = r /\ (p = job[r].planet \/ Still)
  <2>1. planetLock[job[r].planet] = r
    BY <1>1, <1>3, TxFacts DEF QueueCommit, CancelCommit, LocksHeld, HeldBy
  <2>2. CASE QueueCommit(r)
    BY <1>1, <2>1, <2>2 DEF QueueCommit
  <2>3. CASE CancelCommit(r)
    BY <1>1, <2>1, <2>3 DEF CancelCommit
  <2> QED
    BY <1>3, <2>2, <2>3
<1>4. ASSUME NEW s \in Sweepers, Sweep(s)
      PROVE  Still
  BY <1>4 DEF Sweep, SweepClaim, SweepLock, SweepCommit, tables
<1>5. CASE \E t \in Txs : Rollback(t)
  BY <1>5 DEF Rollback, tables
<1>6. ASSUME NEW q \in Planets, Refresh(q)
      PROVE  q = p \/ Still
  BY <1>1, <1>6 DEF Refresh
<1>7. CASE Tick \/ UNCHANGED vars
  BY <1>7 DEF Tick, vars, tables
<1> QED
  BY <1>2, <1>3, <1>4, <1>5, <1>6, <1>7 DEF Next

LEMMA ClockMoves ==
  ASSUME TypeInv, [Next]_vars
  PROVE  clock' \in Nat /\ clock <= clock'
<1>1. clock \in Nat
  BY TimeFacts
<1>2. clock' = clock \/ clock' = clock + 1
  BY DEF Next, Request, QueueLock, QueueCheck, QueueCommit, CancelRead, CancelMark, CancelLock,
         CancelCommit, ListRows, ListLevels, ListRepair, ListDone, Sweep, SweepClaim, SweepLock,
         SweepCommit, Rollback, Refresh, Tick, vars
<1> QED
  BY <1>1, <1>2

\* Rows stay, and keep their planet and their cost.
LEMMA RowsStay ==
  ASSUME TypeInv, [Next]_vars, NEW i \in DOMAIN queue
  PROVE  /\ i \in DOMAIN queue'
         /\ queue'[i].planet = queue[i].planet
         /\ queue'[i].cost = queue[i].cost
<1>1. CASE OtherStep
  BY <1>1, OtherStepShrinks DEF Shrinks
<1>2. CASE \E r \in Requests : QueueCommit(r)
  BY <1>2, CommitFacts
<1> QED
  BY <1>1, <1>2, NextCases

LEMMA UpdatedPastNext == StockInv /\ [Next]_vars => UpdatedPast'
<1> SUFFICES ASSUME StockInv, [Next]_vars, NEW p \in Planets
             PROVE  updated'[p] <= clock'
  BY DEF UpdatedPast
<1>1. LockInv /\ TypeInv /\ updated[p] <= clock /\ updated[p] \in Nat /\ clock \in Nat
  BY TimeFacts DEF StockInv, LockInv, UpdatedPast
<1>2. clock' \in Nat /\ clock <= clock'
  BY <1>1, ClockMoves
<1>3. updated \in [Planets -> 0..Horizon]
  BY <1>1 DEF TypeInv, TypeOK
<1>4. CASE updated'[p] = updated[p]
  BY <1>1, <1>2, <1>4
<1>5. CASE Refresh(p)
  <2>1. updated' = [updated EXCEPT ![p] = clock]
    BY <1>5 DEF Refresh
  <2> QED
    BY <1>1, <1>2, <1>3, <2>1
<1>6. CASE \E r \in Requests : (QueueCommit(r) \/ CancelCommit(r)) /\ p = job[r].planet
  <2>1. updated' = [updated EXCEPT ![p] = clock]
    BY <1>6 DEF QueueCommit, CancelCommit
  <2> QED
    BY <1>1, <1>2, <1>3, <2>1
<1> QED
  BY <1>1, <1>4, <1>5, <1>6, StockMoves

LEMMA CancelsItsRowNext == StockInv /\ [Next]_vars => CancelsItsRow'
<1> SUFFICES ASSUME StockInv, [Next]_vars, NEW r \in Requests,
                    pc'[r] \in {"cancelling", "marked", "crediting"}
             PROVE  queue'[job'[r].item].planet = job'[r].planet
  BY DEF CancelsItsRow
<1>1. LockInv /\ TypeInv /\ CancelsItsRow /\ r \in Txs
  BY TxFacts DEF StockInv, LockInv
<1>2. /\ pc \in [Txs -> PCs]
      /\ job \in [Txs -> [planet : Planets, key : Keys, item : Ids \cup {0}]]
  BY <1>1 DEF TypeInv, TypeOK
<1> DEFINE i == job[r].item
<1>3. CASE pc[r] \in {"cancelling", "marked", "crediting"} /\ job'[r] = job[r]
  <2>1. i \in DOMAIN queue /\ queue[i].planet = job[r].planet
    BY <1>1, <1>3 DEF TypeInv, CancelledRowExists, CancelsItsRow
  <2>2. queue'[i].planet = queue[i].planet
    BY <1>1, <2>1, RowsStay
  <2> QED
    BY <1>3, <2>1, <2>2
<1>4. CASE \E p \in Planets, k \in Keys : QueueLock(r, p, k)
  BY <1>1, <1>2, <1>4 DEF QueueLock, Goto
<1>5. CASE QueueCheck(r)
  BY <1>1, <1>2, <1>5 DEF QueueCheck, Goto
<1>6. CASE \E j \in Ids : CancelRead(r, j)
  <2> PICK j \in Ids : CancelRead(r, j)
    BY <1>6
  <2>1. job'[r].item = j /\ job'[r].planet = queue[j].planet /\ queue' = queue
    BY <1>1, <1>2 DEF CancelRead, tables
  <2> QED
    BY <2>1
<1>7. CASE CancelMark(r) \/ CancelLock(r)
  <2>1. pc[r] \in {"cancelling", "marked"} /\ job' = job
    BY <1>7 DEF CancelMark, CancelLock, Goto
  <2> QED
    BY <1>3, <2>1
<1>8. CASE Sits(r)
  <2>1. pc'[r] = pc[r] /\ job'[r] = job[r]
    BY <1>8 DEF Sits
  <2> QED
    BY <1>3, <2>1
<1> QED
  BY <1>1, <1>4, <1>5, <1>6, <1>7, <1>8, RequestMoves

\* While t holds a planet nobody else writes its stockpile.
LEMMA HeldStock ==
  ASSUME LockInv, [Next]_vars, NEW p \in Planets, NEW r \in Requests, planetLock[p] = r,
         ~QueueCommit(r), ~CancelCommit(r)
  PROVE  metal'[p] = metal[p] /\ updated'[p] = updated[p]
<1>1. r # NoTx
  BY TxFacts DEF LockInv
<1>2. ~Refresh(p)
  BY <1>1 DEF Refresh
<1> QED
  BY <1>2, StockMoves

LEMMA PurseCoveredNext == StockInv /\ [Next]_vars => PurseCovered'
<1> SUFFICES ASSUME StockInv, [Next]_vars, NEW r \in Requests,
                    pc'[r] \in {"locked", "checked", "crediting"}
             PROVE  purse'[r] + Rate * updated'[job'[r].planet]
                      <= metal'[job'[r].planet] + Rate * clock'
  BY DEF PurseCovered
<1>1. LockInv /\ TypeInv /\ PurseCovered /\ UpdatedPast /\ r \in Txs
  BY TxFacts DEF StockInv, LockInv
<1>2. /\ pc \in [Txs -> PCs] /\ purse \in [Txs -> Nat]
      /\ job \in [Txs -> [planet : Planets, key : Keys, item : Ids \cup {0}]]
  BY <1>1 DEF TypeInv, TypeOK
<1>3. clock \in Nat /\ Rate \in Nat
  BY <1>1, TimeFacts
<1>4. ASSUME NEW p \in Planets, job'[r].planet = p, purse'[r] = Refreshed(p),
             UNCHANGED <<clock, metal, updated>>
      PROVE  purse'[r] + Rate * updated'[p] <= metal'[p] + Rate * clock'
  <2>1. updated[p] <= clock
    BY <1>1 DEF UpdatedPast
  <2>2. Refreshed(p) + Rate * updated[p] <= metal[p] + Rate * clock
    BY <1>1, <2>1, RefreshedYield
  <2> QED
    BY <1>4, <2>2
<1>5. CASE \E p \in Planets, k \in Keys : QueueLock(r, p, k)
  <2> PICK p \in Planets, k \in Keys : QueueLock(r, p, k)
    BY <1>5
  <2>1. job'[r].planet = p /\ purse'[r] = Refreshed(p) /\ UNCHANGED <<clock, metal, updated>>
    BY <1>1, <1>2 DEF QueueLock, tables
  <2> QED
    BY <1>4, <2>1
<1>6. CASE CancelLock(r)
  <2>1. job[r].planet \in Planets
    BY <1>1, TxFacts
  <2>2. /\ job'[r].planet = job[r].planet /\ purse'[r] = Refreshed(job[r].planet)
        /\ UNCHANGED <<clock, metal, updated>>
    BY <1>1, <1>2, <1>6 DEF CancelLock, tables
  <2> QED
    BY <1>4, <2>1, <2>2
<1>7. CASE (\E i \in Ids : CancelRead(r, i)) \/ CancelMark(r)
  BY <1>1, <1>2, <1>7 DEF CancelRead, CancelMark, Goto
<1>8. CASE /\ pc[r] \in {"locked", "checked", "crediting"}
           /\ job'[r] = job[r] /\ purse'[r] = purse[r]
           /\ ~QueueCommit(r) /\ ~CancelCommit(r)
  <2> DEFINE p == job[r].planet
  <2>1. p \in Planets /\ planetLock[p] = r
    BY <1>1, <1>8, TxFacts DEF LockInv, LocksHeld, HeldBy
  <2>2. metal'[p] = metal[p] /\ updated'[p] = updated[p]
    BY <1>1, <1>8, <2>1, HeldStock
  <2>3. purse[r] + Rate * updated[p] <= metal[p] + Rate * clock
    BY <1>1, <1>8 DEF PurseCovered
  <2>4. Rate * clock \in Nat /\ Rate * clock' \in Nat /\ Rate * clock <= Rate * clock'
    BY <1>1, <1>3, ClockMoves, YieldGrows
  <2>5. /\ purse[r] \in Nat /\ metal[p] \in Nat /\ updated[p] \in Nat
        /\ Rate * updated[p] \in Nat
    BY <1>1, <1>2, <2>1, TimeFacts, YieldGrows
  <2>6. purse[r] + Rate * updated[p] <= metal[p] + Rate * clock'
    <3> HIDE DEF p
    <3> QED
      BY <2>3, <2>4, <2>5
  <2> QED
    BY <1>8, <2>2, <2>6
<1>9. CASE QueueCheck(r)
  <2>1. /\ pc[r] = "locked" /\ job' = job /\ purse' = purse
        /\ metal' = metal /\ updated' = updated
    BY <1>9 DEF QueueCheck, Goto, tables
  <2>2. ~QueueCommit(r) /\ ~CancelCommit(r)
    BY <2>1 DEF QueueCommit, CancelCommit
  <2> QED
    BY <1>8, <2>1, <2>2
<1>10. CASE Sits(r) /\ ~QueueCommit(r) /\ ~CancelCommit(r)
  <2>1. pc'[r] = pc[r] /\ job'[r] = job[r] /\ purse'[r] = purse[r]
    BY <1>10 DEF Sits
  <2> QED
    BY <1>8, <1>10, <2>1
<1> QED
  BY <1>1, <1>5, <1>6, <1>7, <1>9, <1>10, RequestMoves

-----------------------------------------------------------------------------
(* The books of a planet: what its orders cost and what came back.         *)

LEMMA PaidType ==
  ASSUME TypeInv, NEW p \in Planets
  PROVE  /\ IsFiniteSet(Ids)
         /\ \A i \in Ids : /\ PaidOn(p)[i] \in Nat
                           /\ refunds[i] \in Nat
                           /\ RefundedOn(p)[i] \in Nat
         /\ Sum(PaidOn(p), Ids) \in Nat
         /\ Sum(RefundedOn(p), Ids) \in Nat
<1>1. IsFiniteSet(Ids)
  BY ConstantsOK, FS_Interval DEF Ids
<1>2. ASSUME NEW i \in Ids
      PROVE  PaidOn(p)[i] \in Nat /\ refunds[i] \in Nat
  <2>1. i \in DOMAIN queue => queue[i].cost \in Nat
    BY QueueDomain DEF TypeInv, Row
  <2> QED
    BY <2>1 DEF PaidOn, TypeInv, TypeOK
<1>3. ASSUME NEW i \in Ids
      PROVE  RefundedOn(p)[i] \in Nat
  <2>1. RefundedOn(p)[i] = PaidOn(p)[i] * refunds[i]
    BY DEF RefundedOn
  <2> QED
    BY <1>2, <2>1
<1>4. Sum(PaidOn(p), Ids) \in Nat
  BY <1>1, <1>2, SumType
<1>5. Sum(RefundedOn(p), Ids) \in Nat
  BY <1>1, <1>3, SumType
<1> QED
  BY <1>1, <1>2, <1>3, <1>4, <1>5

\* Only the commit of an order on p changes what the orders of p cost.
LEMMA PaidStays ==
  ASSUME TypeInv, [Next]_vars, NEW p \in Planets,
         \A r \in Requests : QueueCommit(r) => job[r].planet # p
  PROVE  \A i \in Ids : PaidOn(p)'[i] = PaidOn(p)[i]
<1> SUFFICES ASSUME NEW i \in Ids
             PROVE  PaidOn(p)'[i] = PaidOn(p)[i]
  OBVIOUS
<1>1. /\ PaidOn(p)[i] = IF i \in DOMAIN queue /\ queue[i].planet = p THEN queue[i].cost ELSE 0
      /\ PaidOn(p)'[i] = IF i \in DOMAIN queue' /\ queue'[i].planet = p THEN queue'[i].cost ELSE 0
  BY DEF PaidOn
<1>2. CASE OtherStep
  BY <1>1, <1>2, OtherStepShrinks DEF Shrinks
<1>3. CASE \E r \in Requests : QueueCommit(r)
  <2> PICK r \in Requests : QueueCommit(r)
    BY <1>3
  <2>1. /\ DOMAIN queue' = DOMAIN queue \cup {Len(queue) + 1}
        /\ Len(queue) + 1 \notin DOMAIN queue
        /\ queue'[Len(queue) + 1].planet = job[r].planet
        /\ \A j \in DOMAIN queue : /\ queue'[j].planet = queue[j].planet
                                   /\ queue'[j].cost = queue[j].cost
    BY CommitFacts
  <2>2. job[r].planet # p
    OBVIOUS
  <2> QED
    BY <1>1, <2>1, <2>2
<1> QED
  BY <1>2, <1>3, NextCases

\* Only the commit of a Cancel refunds, and one row.
LEMMA RefundsStay ==
  ASSUME [Next]_vars, \A r \in Requests : ~CancelCommit(r)
  PROVE  refunds' = refunds
BY DEF Next, Request, QueueLock, QueueCheck, QueueCommit, CancelRead, CancelMark, CancelLock,
       ListRows, ListLevels, ListRepair, ListDone, Sweep, SweepClaim, SweepLock,
       SweepCommit, Rollback, Refresh, Tick, vars

\* The Cancels of other planets leave the refunds of p alone.
LEMMA RefundsElsewhere ==
  ASSUME StockInv, [Next]_vars, NEW p \in Planets,
         \A r \in Requests : QueueCommit(r) \/ CancelCommit(r) => job[r].planet # p
  PROVE  Sum(RefundedOn(p), Ids)' = Sum(RefundedOn(p), Ids)
<1>1. TypeInv /\ TypeInv'
  BY TypeStep DEF StockInv, LockInv
<1>2. \A i \in Ids : PaidOn(p)'[i] = PaidOn(p)[i]
  BY <1>1, PaidStays
<1>3. ASSUME NEW i \in Ids
      PROVE  RefundedOn(p)'[i] = RefundedOn(p)[i]
  <2>1. RefundedOn(p)[i] = PaidOn(p)[i] * refunds[i] /\ RefundedOn(p)'[i] = PaidOn(p)'[i] * refunds'[i]
    BY DEF RefundedOn
  <2>2. CASE refunds'[i] = refunds[i]
    BY <1>2, <2>1, <2>2
  <2>3. CASE refunds'[i] # refunds[i]
    <3>1. PICK r \in Requests : CancelCommit(r)
      BY <2>3, RefundsStay
    <3>2. i = job[r].item
      BY <1>1, <2>3, <3>1 DEF CancelCommit, TypeInv, TypeOK
    <3>3. job[r].planet # p
      BY <3>1
    <3>4. queue[i].planet # p
      BY <3>1, <3>2, <3>3 DEF StockInv, CancelsItsRow, CancelCommit
    <3>5. PaidOn(p)[i] = 0
      BY <3>4 DEF PaidOn
    <3>6. refunds[i] \in Nat /\ refunds'[i] \in Nat
      BY <1>1 DEF TypeInv, TypeOK
    <3> QED
      BY <1>2, <2>1, <3>5, <3>6
  <2> QED
    BY <2>2, <2>3
<1>4. IsFiniteSet(Ids) /\ \A i \in Ids : RefundedOn(p)[i] \in Nat
  BY <1>1, PaidType
<1>5. Sum(RefundedOn(p)', Ids) = Sum(RefundedOn(p), Ids)
  BY <1>3, <1>4, SumSame
<1>6. Sum(RefundedOn(p), Ids)' = Sum(RefundedOn(p)', Ids)
  BY DEF Ids
<1> QED
  BY <1>5, <1>6

LEMMA PaidElsewhere ==
  ASSUME TypeInv, [Next]_vars, NEW p \in Planets,
         \A r \in Requests : QueueCommit(r) => job[r].planet # p
  PROVE  Sum(PaidOn(p), Ids)' = Sum(PaidOn(p), Ids)
<1>1. \A i \in Ids : PaidOn(p)'[i] = PaidOn(p)[i]
  BY PaidStays
<1>2. IsFiniteSet(Ids) /\ \A i \in Ids : PaidOn(p)[i] \in Nat
  BY PaidType
<1>3. Sum(PaidOn(p)', Ids) = Sum(PaidOn(p), Ids)
  BY <1>1, <1>2, SumSame
<1>4. Sum(PaidOn(p), Ids)' = Sum(PaidOn(p)', Ids)
  BY DEF Ids
<1> QED
  BY <1>3, <1>4

\* The books of p balance.
Covered(p) ==
  metal[p] + Sum(PaidOn(p), Ids) <= StartMetal + Rate * updated[p] + Sum(RefundedOn(p), Ids)

LEMMA CoveredMeans == NoFreeResources <=> \A p \in Planets : Covered(p)
BY DEF NoFreeResources, Covered

LEMMA CoveredFacts ==
  ASSUME StockInv, NEW p \in Planets
  PROVE  /\ TypeInv /\ Covered(p) /\ updated[p] <= clock
         /\ metal[p] \in Nat /\ Rate * updated[p] \in Nat /\ Rate * clock \in Nat
         /\ StartMetal \in Nat
         /\ Sum(PaidOn(p), Ids) \in Nat /\ Sum(RefundedOn(p), Ids) \in Nat
<1>1. TypeInv /\ NoFreeResources /\ updated[p] <= clock
  BY DEF StockInv, LockInv, UpdatedPast
<1>2. Covered(p)
  BY <1>1, CoveredMeans
<1>3. metal[p] \in Nat /\ updated[p] \in Nat /\ clock \in Nat /\ StartMetal \in Nat
  BY <1>1, TimeFacts
<1>4. Rate * updated[p] \in Nat /\ Rate * clock \in Nat
  BY <1>1, <1>3, YieldGrows
<1>5. Sum(PaidOn(p), Ids) \in Nat /\ Sum(RefundedOn(p), Ids) \in Nat
  BY <1>1, PaidType
<1> QED
  BY <1>1, <1>2, <1>3, <1>4, <1>5

\* What the holder of p has read is covered by what p had and has produced.
LEMMA PurseFacts ==
  ASSUME StockInv, NEW r \in Requests, pc[r] \in {"checked", "crediting"}
  PROVE  LET p == job[r].planet
         IN /\ p \in Planets /\ purse[r] \in Nat
            /\ purse[r] + Rate * updated[p] <= metal[p] + Rate * clock
<1>1. TypeInv /\ PurseCovered /\ r \in Txs
  BY TxFacts DEF StockInv, LockInv
<1> QED
  BY <1>1, TxFacts, TimeFacts DEF PurseCovered

LEMMA CoveredRefresh ==
  ASSUME StockInv, [Next]_vars, NEW p \in Planets, Refresh(p)
  PROVE  Covered(p)'
<1> DEFINE P == Sum(PaidOn(p), Ids)
           R == Sum(RefundedOn(p), Ids)
<1>1. /\ TypeInv /\ Covered(p) /\ updated[p] <= clock
      /\ metal[p] \in Nat /\ Rate * updated[p] \in Nat /\ Rate * clock \in Nat
      /\ StartMetal \in Nat /\ P \in Nat /\ R \in Nat
  BY CoveredFacts
<1>2. metal'[p] = Refreshed(p) /\ updated'[p] = clock /\ UNCHANGED <<queue, refunds>>
  BY <1>1 DEF Refresh, TypeInv, TypeOK
<1>3. P' = P /\ R' = R
  BY <1>2 DEF PaidOn, RefundedOn, Ids
<1>4. Refreshed(p) \in Nat /\ Refreshed(p) + Rate * updated[p] <= metal[p] + Rate * clock
  BY <1>1, RefreshedYield
<1>5. metal[p] + P <= StartMetal + Rate * updated[p] + R
  BY <1>1 DEF Covered
<1>6. Refreshed(p) + P <= StartMetal + Rate * clock + R
  <2> HIDE DEF P, R
  <2> QED
    BY <1>1, <1>4, <1>5
<1>7. metal'[p] + P' <= StartMetal + Rate * updated'[p] + R'
  BY <1>2, <1>3, <1>6
<1> QED
  BY <1>7 DEF Covered

BooksTyped ==
  \A p \in Planets :
    /\ \A i \in Ids : /\ PaidOn(p)[i] \in Nat
                      /\ refunds[i] \in Nat
                      /\ RefundedOn(p)[i] \in Nat
    /\ Sum(PaidOn(p), Ids) \in Nat
    /\ Sum(RefundedOn(p), Ids) \in Nat

LEMMA Books == TypeInv => BooksTyped
BY PaidType DEF BooksTyped

LEMMA BooksNow == TypeInv /\ [Next]_vars => BooksTyped /\ BooksTyped'
BY Books, TypeStep, PTL

\* The commit of an order debits what it writes into the row.
LEMMA CoveredCommit ==
  ASSUME StockInv, [Next]_vars, NEW r \in Requests, QueueCommit(r),
         NEW p \in Planets, p = job[r].planet
  PROVE  Covered(p)'
<1> DEFINE P == Sum(PaidOn(p), Ids)
           R == Sum(RefundedOn(p), Ids)
<1>1. TypeInv /\ TypeInv' /\ r \in Txs
  BY TypeStep, TxFacts DEF StockInv, LockInv
<1>2. pc[r] = "checked" /\ updated' = [updated EXCEPT ![p] = clock] /\ refunds' = refunds
  BY DEF QueueCommit
<1>3. purse[r] \in Nat /\ purse[r] + Rate * updated[p] <= metal[p] + Rate * clock
  BY <1>2, PurseFacts
<1>row. LET m == Len(queue) + 1
       IN /\ DOMAIN queue' = DOMAIN queue \cup {m} /\ m \notin DOMAIN queue /\ m \in Ids
          /\ \A i \in DOMAIN queue : /\ queue'[i].planet = queue[i].planet
                                     /\ queue'[i].cost = queue[i].cost
          /\ queue'[m].planet = p
          /\ queue'[m].cost \in Nat /\ queue'[m].cost <= purse[r]
          /\ metal' = [metal EXCEPT ![p] = purse[r] - queue'[m].cost]
  BY <1>1, CommitFacts
<1> PICK n \in Ids, c \in Nat :
      /\ DOMAIN queue' = DOMAIN queue \cup {n} /\ n \notin DOMAIN queue
      /\ \A i \in DOMAIN queue : /\ queue'[i].planet = queue[i].planet
                                 /\ queue'[i].cost = queue[i].cost
      /\ queue'[n].planet = p /\ queue'[n].cost = c /\ c <= purse[r]
      /\ metal' = [metal EXCEPT ![p] = purse[r] - c]
  BY <1>row
<1>books. BooksTyped /\ BooksTyped'
  BY <1>1, BooksNow
<1>4. /\ IsFiniteSet(Ids)
      /\ \A i \in Ids : /\ PaidOn(p)[i] \in Nat /\ PaidOn(p)'[i] \in Nat
                        /\ RefundedOn(p)[i] \in Nat /\ RefundedOn(p)'[i] \in Nat
                        /\ refunds[i] \in Nat
      /\ P \in Nat /\ P' \in Nat /\ R \in Nat /\ R' \in Nat
  BY <1>1, <1>books, PaidType DEF BooksTyped
<1>5. ASSUME NEW i \in Ids
      PROVE  /\ i = n => PaidOn(p)[i] = 0 /\ PaidOn(p)'[i] = c
             /\ i # n => PaidOn(p)'[i] = PaidOn(p)[i]
  <2>1. /\ PaidOn(p)[i] = IF i \in DOMAIN queue /\ queue[i].planet = p THEN queue[i].cost ELSE 0
        /\ PaidOn(p)'[i] = IF i \in DOMAIN queue' /\ queue'[i].planet = p THEN queue'[i].cost ELSE 0
    BY DEF PaidOn
  <2> QED
    BY <2>1
<1>6. P' = P + c
  <2>1. P' = Sum(PaidOn(p)', Ids)
    BY DEF Ids
  <2>2. \A i \in Ids : PaidOn(p)[i] \in Nat /\ PaidOn(p)'[i] \in Nat
    BY <1>4
  <2>3. \A i \in Ids \ {n} : PaidOn(p)'[i] = PaidOn(p)[i]
    BY <1>5
  <2>4. IsFiniteSet(Ids)
    BY <1>4
  <2>5. Sum(PaidOn(p)', Ids) + PaidOn(p)[n] = P + PaidOn(p)'[n]
    BY <2>2, <2>3, <2>4, SumChange
  <2> QED
    BY <1>4, <1>5, <2>1, <2>5
<1>7. R <= R'
  <2>1. R' = Sum(RefundedOn(p)', Ids)
    BY DEF Ids
  <2>2. \A i \in Ids \ {n} : RefundedOn(p)'[i] = RefundedOn(p)[i]
    BY <1>2, <1>5 DEF RefundedOn
  <2>3. RefundedOn(p)[n] <= RefundedOn(p)'[n]
    <3>1. RefundedOn(p)[n] = PaidOn(p)[n] * refunds[n] /\ RefundedOn(p)'[n] = PaidOn(p)'[n] * refunds[n]
      BY <1>2 DEF RefundedOn
    <3>2. PaidOn(p)[n] <= PaidOn(p)'[n]
      BY <1>5
    <3> QED
      BY <1>4, <3>1, <3>2, ProductGrows
  <2>4. \A i \in Ids : RefundedOn(p)[i] \in Nat /\ RefundedOn(p)'[i] \in Nat
    BY <1>4
  <2>5. IsFiniteSet(Ids)
    BY <1>4
  <2>6. Sum(RefundedOn(p)', Ids) + RefundedOn(p)[n] = R + RefundedOn(p)'[n]
    BY <2>2, <2>4, <2>5, SumChange
  <2> QED
    BY <1>4, <2>1, <2>3, <2>4, <2>6
<1>8. /\ Covered(p) /\ metal[p] \in Nat /\ Rate * updated[p] \in Nat /\ Rate * clock \in Nat
      /\ StartMetal \in Nat /\ P \in Nat /\ R \in Nat
  BY CoveredFacts
<1>9. metal[p] + P <= StartMetal + Rate * updated[p] + R
  BY <1>8 DEF Covered
<1>10. metal'[p] = purse[r] - c /\ updated'[p] = clock
  BY <1>1, <1>2 DEF TypeInv, TypeOK
<1>11. (purse[r] - c) + (P + c) <= StartMetal + Rate * clock + R'
  <2> HIDE DEF P, R
  <2> QED
    BY <1>3, <1>4, <1>7, <1>8, <1>9
<1>12. metal'[p] + P' <= StartMetal + Rate * updated'[p] + R'
  BY <1>6, <1>10, <1>11
<1> QED
  BY <1>12 DEF Covered

\* The commit of a Cancel credits what the row says it cost.
LEMMA CoveredCancel ==
  ASSUME StockInv, [Next]_vars, NEW r \in Requests, CancelCommit(r),
         NEW p \in Planets, p = job[r].planet
  PROVE  Covered(p)'
<1> DEFINE P == Sum(PaidOn(p), Ids)
           R == Sum(RefundedOn(p), Ids)
<1>1. TypeInv /\ TypeInv' /\ CancelsItsRow /\ r \in Txs
  BY TypeStep, TxFacts DEF StockInv, LockInv
<1> PICK i \in DOMAIN queue : i = job[r].item
  BY <1>1 DEF CancelCommit, TypeInv, CancelledRowExists
<1>2. /\ pc[r] = "crediting" /\ updated' = [updated EXCEPT ![p] = clock]
      /\ metal' = [metal EXCEPT ![p] = purse[r] + queue[i].cost]
      /\ refunds' = [refunds EXCEPT ![i] = refunds[i] + 1]
  BY DEF CancelCommit
<1>3. purse[r] \in Nat /\ purse[r] + Rate * updated[p] <= metal[p] + Rate * clock
  BY <1>2, PurseFacts
<1> PICK c \in Nat : queue[i].cost = c
  BY <1>1, QueueDomain DEF TypeInv, Row
<1>4. i \in Ids /\ queue[i].planet = p
  BY <1>1, <1>2, QueueDomain DEF TypeInv, CancelsItsRow
<1>5. PaidOn(p)[i] = c
  BY <1>4 DEF PaidOn
<1>6. \A q \in Requests : ~QueueCommit(q)
  <2>1. refunds \in [Ids -> Nat] /\ refunds[i] \in Nat
    BY <1>1, <1>4 DEF TypeInv, TypeOK
  <2>2. refunds'[i] # refunds[i]
    BY <1>2, <1>4, <2>1
  <2> QED
    BY <2>2 DEF QueueCommit
<1>7. P' = P
  BY <1>1, <1>6, PaidElsewhere
<1>8. \A j \in Ids : PaidOn(p)'[j] = PaidOn(p)[j]
  BY <1>1, <1>6, PaidStays
<1>9. /\ IsFiniteSet(Ids)
      /\ \A j \in Ids : /\ RefundedOn(p)[j] \in Nat /\ RefundedOn(p)'[j] \in Nat
                        /\ refunds[j] \in Nat
      /\ R \in Nat /\ R' \in Nat
  <2>1. BooksTyped /\ BooksTyped'
    BY <1>1, BooksNow
  <2> QED
    BY <1>1, <2>1, PaidType DEF BooksTyped
<1>10. R' = R + c
  <2>1. R' = Sum(RefundedOn(p)', Ids)
    BY DEF Ids
  <2>2. ASSUME NEW j \in Ids \ {i}
        PROVE  RefundedOn(p)'[j] = RefundedOn(p)[j]
    <3>1. refunds'[j] = refunds[j]
      BY <1>1, <1>2 DEF TypeInv, TypeOK
    <3> QED
      BY <1>8, <3>1 DEF RefundedOn
  <2>3. RefundedOn(p)'[i] = RefundedOn(p)[i] + c
    <3>1. refunds'[i] = refunds[i] + 1 /\ refunds[i] \in Nat
      BY <1>1, <1>2, <1>4 DEF TypeInv, TypeOK
    <3>2. RefundedOn(p)[i] = c * refunds[i] /\ RefundedOn(p)'[i] = c * refunds'[i]
      BY <1>4, <1>5, <1>8 DEF RefundedOn
    <3>3. c * (refunds[i] + 1) = c * refunds[i] + c
      BY <3>1
    <3> QED
      BY <3>1, <3>2, <3>3
  <2>4. \A j \in Ids : RefundedOn(p)[j] \in Nat /\ RefundedOn(p)'[j] \in Nat
    BY <1>9
  <2>5. \A j \in Ids \ {i} : RefundedOn(p)'[j] = RefundedOn(p)[j]
    BY <2>2
  <2>6. IsFiniteSet(Ids) /\ i \in Ids
    BY <1>4, <1>9
  <2>7. Sum(RefundedOn(p)', Ids) + RefundedOn(p)[i] = R + RefundedOn(p)'[i]
    BY <2>4, <2>5, <2>6, SumChange
  <2> QED
    BY <1>4, <1>9, <2>1, <2>3, <2>4, <2>7
<1>11. /\ Covered(p) /\ metal[p] \in Nat /\ Rate * updated[p] \in Nat /\ Rate * clock \in Nat
       /\ StartMetal \in Nat /\ P \in Nat /\ R \in Nat
  BY CoveredFacts
<1>12. metal[p] + P <= StartMetal + Rate * updated[p] + R
  BY <1>11 DEF Covered
<1>13. metal'[p] = purse[r] + c /\ updated'[p] = clock
  BY <1>1, <1>2 DEF TypeInv, TypeOK
<1>14. (purse[r] + c) + P <= StartMetal + Rate * clock + (R + c)
  <2> HIDE DEF P, R
  <2> QED
    BY <1>3, <1>11, <1>12
<1>15. metal'[p] + P' <= StartMetal + Rate * updated'[p] + R'
  BY <1>7, <1>10, <1>13, <1>14
<1> QED
  BY <1>15 DEF Covered

LEMMA CoveredNext ==
  ASSUME StockInv, [Next]_vars, NEW p \in Planets
  PROVE  Covered(p)'
<1> DEFINE P == Sum(PaidOn(p), Ids)
           R == Sum(RefundedOn(p), Ids)
<1>1. LockInv /\ TypeInv /\ Covered(p)
  BY CoveredFacts DEF StockInv
<1>2. CASE \E r \in Requests : QueueCommit(r) /\ p = job[r].planet
  BY <1>2, CoveredCommit
<1>3. CASE \E r \in Requests : CancelCommit(r) /\ p = job[r].planet
  BY <1>3, CoveredCancel
<1>4. CASE Refresh(p)
  BY <1>4, CoveredRefresh
<1>5. CASE /\ \A r \in Requests : QueueCommit(r) \/ CancelCommit(r) => job[r].planet # p
           /\ ~Refresh(p)
  <2>1. metal'[p] = metal[p] /\ updated'[p] = updated[p]
    BY <1>1, <1>5, StockMoves
  <2>2. P' = P /\ R' = R
    BY <1>1, <1>5, PaidElsewhere, RefundsElsewhere
  <2>3. metal[p] + P <= StartMetal + Rate * updated[p] + R
    BY <1>1 DEF Covered
  <2>4. metal'[p] + P' <= StartMetal + Rate * updated'[p] + R'
    BY <2>1, <2>2, <2>3
  <2> QED
    BY <2>4 DEF Covered
<1> QED
  BY <1>2, <1>3, <1>4, <1>5

LEMMA StockInit == Init => StockInv
<1> SUFFICES ASSUME Init PROVE StockInv
  OBVIOUS
<1>1. LockInv /\ TypeInv
  BY LockInit DEF LockInv
<1>2. UpdatedPast
  BY DEF Init, UpdatedPast
<1>3. CancelsItsRow /\ PurseCovered
  BY DEF Init, CancelsItsRow, PurseCovered, Txs
<1>4. ASSUME NEW p \in Planets
      PROVE  Covered(p)
  <2>1. \A i \in Ids : PaidOn(p)[i] = 0
    BY DEF Init, PaidOn
  <2>2. \A i \in Ids : RefundedOn(p)[i] = 0
    BY <2>1 DEF Init, RefundedOn
  <2>3. IsFiniteSet(Ids)
    BY <1>1, PaidType
  <2>4. Sum(PaidOn(p), Ids) = 0
    BY <2>1, <2>3, SumZero
  <2>5. Sum(RefundedOn(p), Ids) = 0
    BY <2>2, <2>3, SumZero
  <2>6. metal[p] = StartMetal /\ updated[p] = 0 /\ StartMetal \in Nat /\ Rate \in Nat
    BY ConstantsOK DEF Init
  <2> QED
    BY <2>4, <2>5, <2>6 DEF Covered
<1>5. NoFreeResources
  BY <1>4, CoveredMeans
<1> QED
  BY <1>1, <1>2, <1>3, <1>5 DEF StockInv

LEMMA StockStep == StockInv /\ [Next]_vars => StockInv'
<1> SUFFICES ASSUME StockInv, [Next]_vars PROVE StockInv'
  OBVIOUS
<1>1. LockInv'
  BY LockStep DEF StockInv
<1>2. UpdatedPast' /\ CancelsItsRow' /\ PurseCovered'
  BY UpdatedPastNext, CancelsItsRowNext, PurseCoveredNext
<1>3. \A p \in Planets : Covered(p)'
  BY CoveredNext
<1>4. NoFreeResources'
  BY <1>3 DEF NoFreeResources, Covered
<1> QED
  BY <1>1, <1>2, <1>4 DEF StockInv

\* Whatever handlers, refreshes and rollbacks interleave, a planet's stock and
\* what its orders have cost never exceed its starting stock, its production
\* and its refunds: no debit is lost, no window of production credited twice,
\* no refund larger than the order (resources.go:31-98, build.go:96-131,
\* build.go:231-266).
THEOREM ResourcesHold == Spec => []NoFreeResources
<1>1. Spec => []StockInv
  BY StockInit, StockStep, PTL DEF Spec
<1> QED
  BY <1>1, PTL DEF StockInv
=============================================================================
