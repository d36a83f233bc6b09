---------------------- MODULE NotificationLeaseProofs ----------------------
(***************************************************************************)
(* Without a fault no row is in the hands of two dispatchers, for every    *)
(* number of dispatchers and every batch size whose sends fit in the       *)
(* lease; a notice is repeated only after a fault or an unclear send, its  *)
(* attempts are bounded in a calm, the order of a booking's notices is     *)
(* kept, and the outbox implements NoticeDelivery.                         *)
(***************************************************************************)
EXTENDS NotificationOutboxProofs

(* The time a batch takes is that of one row and that of the rest.         *)
LEMMA BatchTime ==
  ASSUME NEW B, IsFiniteSet(B), NEW x \in B
  PROVE  \E t \in Nat :
           /\ t = Cardinality(B \ {x}) * SendTimeout
           /\ (Cardinality(B) - 1) * SendTimeout = t
           /\ Cardinality(B) * SendTimeout = t + SendTimeout
<1>1. SendTimeout \in Nat
  BY OutboxAssumption
<1>2. PICK n \in Nat : n = Cardinality(B \ {x})
  BY FS_RemoveElement, FS_CardinalityType
<1>3. Cardinality(B) = n + 1
  <2>1. Cardinality(B) \in Nat /\ n = Cardinality(B) - 1
    BY <1>2, FS_RemoveElement, FS_CardinalityType
  <2> QED BY <2>1
<1>4. n * SendTimeout \in Nat /\ (n + 1) * SendTimeout = n * SendTimeout + SendTimeout
  BY <1>1
<1>5. (Cardinality(B) - 1) * SendTimeout = n * SendTimeout
  BY <1>2, <1>3
<1> QED BY <1>2, <1>3, <1>4, <1>5

(* The rows a dispatcher claims fit in a lease.                            *)
LEMMA ClaimedTime ==
  ASSUME TypeInv, NEW T \in SUBSET DOMAIN outbox, Cardinality(T) <= BatchSize
  PROVE  LET B == {Snapshot(i) : i \in T}
         IN  /\ IsFiniteSet(B)
             /\ \A x, y \in B : x.id = y.id => x = y
             /\ Cardinality(B) * SendTimeout < LockTTL
<1> DEFINE B == {Snapshot(i) : i \in T}
           f == [i \in T |-> Snapshot(i)]
<1>1. IsFiniteSet(T) /\ Cardinality(T) \in Nat
  <2>1. Len(outbox) \in Nat /\ DOMAIN outbox = 1..Len(outbox)
    BY Ids DEF TypeInv
  <2>2. IsFiniteSet(1..Len(outbox))
    BY <2>1, FS_Interval
  <2> QED BY <2>1, <2>2, FS_Subset, FS_CardinalityType
<1>2. f \in Surjection(T, B)
  BY DEF Surjection
<1>3. IsFiniteSet(B) /\ Cardinality(B) <= Cardinality(T)
  BY <1>1, <1>2, FS_Surjection
<1>4. \A x, y \in B : x.id = y.id => x = y
  <2>1. \A i \in T : Snapshot(i).id = i
    BY SnapshotType DEF TypeInv
  <2> QED BY <2>1
<1>5. Cardinality(B) * SendTimeout < LockTTL
  <2> HIDE DEF B
  <2>2. SendTimeout \in Nat /\ BatchSize \in Nat /\ LockTTL \in Nat /\ BatchSize * SendTimeout < LockTTL
    BY OutboxAssumption
  <2>1. PICK n \in Nat : n = Cardinality(B) /\ n <= BatchSize
    <3>1. Cardinality(B) \in Nat
      BY <1>3, FS_CardinalityType
    <3> QED BY <1>1, <1>3, <2>2, <3>1
  <2>3. PICK m \in Nat : BatchSize = n + m
    <3>1. BatchSize - n \in Nat /\ BatchSize = n + (BatchSize - n)
      BY <2>1, <2>2
    <3> QED BY <3>1
  <2>4. BatchSize * SendTimeout = n * SendTimeout + m * SendTimeout
    BY <2>2, <2>3
  <2>5. n * SendTimeout \in Nat /\ m * SendTimeout \in Nat
    BY <2>2
  <2> QED BY <2>1, <2>2, <2>4, <2>5
<1> QED BY <1>3, <1>4, <1>5

(* What a step of one dispatcher leaves another one.                       *)
LEMMA OthersKept ==
  ASSUME TypeInv, NEW e \in Dispatchers, NEW d \in Dispatchers, e # d,
         Step(e) \/ MarkFails(e) \/ Crash(e)
  PROVE  /\ pc'[d] = pc[d] /\ batch'[d] = batch[d] /\ sendBy'[d] = sendBy[d]
         /\ result'[d] = result[d]
         /\ clock' = clock
<1>1. CASE Fetch(e)
  <2>1. UNCHANGED <<clock, sendBy, result>>
    BY <1>1 DEF Fetch
  <2>2. \/ \E B : pc' = [pc EXCEPT ![e] = "next"] /\ batch' = [batch EXCEPT ![e] = B]
        \/ UNCHANGED <<pc, batch>>
    BY <1>1, FetchRows
  <2> QED BY <2>1, <2>2, DispatchTypes
<1>2. CASE FetchNothing(e)
  BY <1>2 DEF FetchNothing
<1>3. CASE NextItem(e)
  <2>1. PICK x \in batch[e] :
          /\ pc' = [pc EXCEPT ![e] = IF x.stale THEN "mark" ELSE "send"]
          /\ sendBy' = [sendBy EXCEPT ![e] = IF x.stale THEN 0 ELSE clock + SendTimeout]
    BY <1>3 DEF NextItem
  <2>2. UNCHANGED <<batch, clock, result>>
    BY <1>3 DEF NextItem
  <2> QED BY <2>1, <2>2, DispatchTypes
<1>4. CASE SendAccepted(e) \/ SendRefused(e) \/ SendTimesOut(e)
  BY <1>4, SendType, DispatchTypes DEF Returns
<1>5. CASE SendPanics(e) \/ Crash(e)
  BY <1>5, DieType, DispatchTypes DEF Die
<1>6. CASE Mark(e)
  <2>1. \E next \in {"idle", "next"} : pc' = [pc EXCEPT ![e] = next]
    BY <1>6, MarkRows
  <2>2. \E B \in SUBSET Item : batch' = [batch EXCEPT ![e] = B]
    BY <1>6, MarkRows, DispatchTypes
  <2>3. UNCHANGED <<clock, sendBy>> /\ result' = [result EXCEPT ![e] = "ok"]
    BY <1>6 DEF Mark
  <2> QED BY <2>1, <2>2, <2>3, DispatchTypes
<1>7. CASE MarkFails(e)
  BY <1>7, DispatchTypes DEF MarkFails, Abandon
<1>8. CASE Restart(e)
  BY <1>8, DispatchTypes DEF Restart, dispatch
<1> QED BY <1>1, <1>2, <1>3, <1>4, <1>5, <1>6, <1>7, <1>8 DEF Step, Send

(* A held row is not due, so that nobody else claims it.                   *)
LEMMA HeldNotDue ==
  ASSUME TypeInv, BatchesDistinct, NEW d \in Dispatchers, Held(d), NEW x \in batch[d]
  PROVE  x.id \notin DueIds
<1>1. x.id \in DOMAIN outbox /\ outbox[x.id].lockedUntil \in Nat
  <2>1. x.id \in DOMAIN outbox
    BY SendingItem
  <2> QED BY <2>1, Ids DEF TypeInv, Row
<1>2. PICK t \in Nat :
        /\ (Cardinality(batch[d]) - 1) * SendTimeout = t
        /\ Cardinality(batch[d]) * SendTimeout = t + SendTimeout
  BY BatchTime DEF BatchesDistinct
<1>3. clock \in Nat /\ sendBy[d] \in Nat /\ SendTimeout \in Nat
  BY OutboxAssumption DEF TypeInv, TypeOK
<1>4. pc[d] = "send" => DoneBy(d) = sendBy[d] + t /\ clock <= sendBy[d]
  BY <1>2 DEF DoneBy, Held
<1>5. pc[d] = "mark" => DoneBy(d) = clock + t
  BY <1>2 DEF DoneBy
<1>6. pc[d] \notin {"send", "mark"} => DoneBy(d) = clock + (t + SendTimeout)
  BY <1>2 DEF DoneBy
<1>7. clock < outbox[x.id].lockedUntil /\ outbox[x.id].state = "processing"
  <2>1. DoneBy(d) < outbox[x.id].lockedUntil /\ outbox[x.id].state = "processing"
    BY DEF Held
  <2> QED BY <1>1, <1>2, <1>3, <1>4, <1>5, <1>6, <2>1
<1> QED BY <1>1, <1>3, <1>7 DEF DueIds, Due

-----------------------------------------------------------------------------
(* The parts of a step that does not touch a dispatcher or its rows.       *)
LEMMA HeldKept ==
  ASSUME TypeInv, NEW d \in Dispatchers, Held(d),
         pc'[d] = pc[d], batch'[d] = batch[d], sendBy'[d] = sendBy[d], clock' = clock,
         \A x \in batch[d] : outbox'[x.id] = outbox[x.id]
  PROVE  Held(d)'
<1>1. DoneBy(d)' = DoneBy(d)
  BY DEF DoneBy
<1> QED BY <1>1 DEF Held

(* The faults are counted one by one.                                      *)
LEMMA FaultsBy ==
  ASSUME TypeInv, [Next]_vars
  PROVE  UNCHANGED faults \/ Fault
<1>1. ASSUME NEW d \in Dispatchers, Step(d) \/ MarkFails(d) \/ Crash(d)
      PROVE  UNCHANGED faults \/ Fault
  <2>1. CASE Fetch(d) \/ FetchNothing(d) \/ NextItem(d) \/ SendPanics(d)
    BY <2>1 DEF Fetch, FetchNothing, NextItem, SendPanics
  <2>2. CASE SendAccepted(d) \/ SendRefused(d) \/ SendTimesOut(d)
    BY <2>2, SendType
  <2>3. CASE Mark(d) \/ Restart(d) \/ MarkFails(d) \/ Crash(d)
    BY <2>3 DEF Mark, Restart, MarkFails, Crash
  <2> QED BY <1>1, <2>1, <2>2, <2>3 DEF Step, Send
<1>2. ASSUME NEW b \in Bookings, Book(b) \/ Confirm(b) \/ Cancel(b)
      PROVE  UNCHANGED faults
  BY <1>2 DEF Book, Confirm, Cancel, Change
<1>3. LateSendEnds \/ Tick \/ UNCHANGED vars => UNCHANGED faults \/ Fault
  BY DEF LateSendEnds, Tick, vars
<1> QED BY <1>1, <1>2, <1>3 DEF Next

(* A step without a fault was taken without a fault before.                *)
LEMMA FaultFree ==
  ASSUME TypeInv, [Next]_vars, faults' = 0
  PROVE  faults = 0 /\ ~Fault
<1>1. ~Fault
  BY Faults DEF TypeInv
<1> QED BY <1>1, FaultsBy

(* Batches are finite and name a row once; only a dispatcher at work has   *)
(* one.                                                                    *)
LEMMA DistinctStep ==
  ASSUME TypeInv, BatchesDistinct, [Next]_vars
  PROVE  BatchesDistinct'
<1> DEFINE Distinct(B) == IsFiniteSet(B) /\ \A x, y \in B : x.id = y.id => x = y
           Working(p) == p \in {"next", "send", "mark"}
<1>1. ASSUME NEW B, Distinct(B), NEW C \in SUBSET B
      PROVE  Distinct(C)
  BY <1>1, FS_Subset
<1>2. Distinct({})
  BY FS_EmptySet
<1>3. \A d \in Dispatchers : Distinct(batch[d]) /\ (Working(pc[d]) \/ batch[d] = {})
  BY DEF BatchesDistinct
<1> SUFFICES ASSUME NEW d \in Dispatchers
             PROVE  Distinct(batch'[d]) /\ (Working(pc'[d]) \/ batch'[d] = {})
  BY DEF BatchesDistinct
<1> HIDE DEF Distinct
<1>4. CASE pc'[d] = pc[d] /\ batch'[d] = batch[d]
  BY <1>3, <1>4
<1>5. CASE batch'[d] = {}
  BY <1>2, <1>5
<1>6. CASE batch'[d] \subseteq batch[d] /\ Working(pc'[d])
  BY <1>1, <1>3, <1>6
<1>7. CASE Fetch(d)
  <2>1. PICK T \in SUBSET DueIds :
          /\ Cardinality(T) <= BatchSize
          /\ \/ /\ pc' = [pc EXCEPT ![d] = "next"]
                /\ batch' = [batch EXCEPT ![d] = {Snapshot(i) : i \in T}]
             \/ UNCHANGED <<pc, batch>>
    BY <1>7 DEF Fetch, Picked
  <2>2. Distinct({Snapshot(i) : i \in T})
    <3>1. T \in SUBSET DOMAIN outbox
      BY DEF DueIds
    <3> QED BY <2>1, <3>1, ClaimedTime DEF Distinct
  <2>3. CASE UNCHANGED <<pc, batch>>
    BY <1>4, <2>3
  <2>4. CASE /\ pc' = [pc EXCEPT ![d] = "next"]
             /\ batch' = [batch EXCEPT ![d] = {Snapshot(i) : i \in T}]
    BY <2>2, <2>4, DispatchTypes
  <2> QED BY <2>1, <2>3, <2>4
<1>8. CASE FetchNothing(d)
  BY <1>4, <1>8 DEF FetchNothing
<1>9. CASE NextItem(d)
  <2>1. (\E p \in {"mark", "send"} : pc' = [pc EXCEPT ![d] = p]) /\ UNCHANGED batch
    BY <1>9 DEF NextItem
  <2> QED BY <1>6, <2>1, DispatchTypes
<1>10. CASE SendAccepted(d) \/ SendRefused(d) \/ SendTimesOut(d)
  BY <1>6, <1>10, SendType, DispatchTypes DEF Returns
<1>11. CASE SendPanics(d) \/ Crash(d)
  BY <1>5, <1>11, DieType, DispatchTypes DEF Die
<1>12. CASE Mark(d)
  <2>1. PICK x \in batch[d] :
          \/ /\ batch' = [batch EXCEPT ![d] = @ \ {x}]
             /\ pc' = [pc EXCEPT ![d] = IF batch[d] = {x} THEN "idle" ELSE "next"]
          \/ Abandon(d)
    BY <1>12 DEF Mark
  <2>2. CASE Abandon(d)
    BY <1>5, <2>2, DispatchTypes DEF Abandon
  <2>3. CASE /\ batch' = [batch EXCEPT ![d] = @ \ {x}]
             /\ pc' = [pc EXCEPT ![d] = IF batch[d] = {x} THEN "idle" ELSE "next"]
    BY <1>5, <1>6, <2>3, DispatchTypes
  <2> QED BY <2>1, <2>2, <2>3
<1>13. CASE MarkFails(d)
  BY <1>5, <1>13, DispatchTypes DEF MarkFails, Abandon
<1>14. CASE Restart(d)
  <2>1. batch[d] = {}
    BY <1>3, <1>14 DEF Restart
  <2> QED BY <1>5, <1>14, <2>1 DEF Restart, dispatch
<1>15. ASSUME NEW e \in Dispatchers, e # d, Step(e) \/ MarkFails(e) \/ Crash(e)
       PROVE  pc'[d] = pc[d] /\ batch'[d] = batch[d]
  BY <1>15, OthersKept
<1>16. ASSUME NEW b \in Bookings, Book(b) \/ Confirm(b) \/ Cancel(b)
       PROVE  pc'[d] = pc[d] /\ batch'[d] = batch[d]
  BY <1>16, ChangeRows
<1>17. LateSendEnds \/ Tick \/ UNCHANGED vars => pc'[d] = pc[d] /\ batch'[d] = batch[d]
  BY DEF LateSendEnds, Tick, vars, dispatch
<1>18. \/ \E b \in Bookings : Book(b) \/ Confirm(b) \/ Cancel(b)
       \/ LateSendEnds \/ Tick \/ UNCHANGED vars
       \/ \E e \in Dispatchers : e # d /\ (Step(e) \/ MarkFails(e) \/ Crash(e))
       \/ Fetch(d) \/ FetchNothing(d) \/ NextItem(d) \/ SendAccepted(d)
       \/ SendRefused(d) \/ SendTimesOut(d) \/ SendPanics(d) \/ Crash(d)
       \/ Mark(d) \/ MarkFails(d) \/ Restart(d)
  BY DEF Next, Step, Send
<1> QED BY <1>4, <1>7, <1>8, <1>9, <1>10, <1>11, <1>12, <1>13, <1>14, <1>15, <1>16, <1>17, <1>18

(* A batch that grows does so in a Fetch, of rows that nobody held.        *)
LEMMA OneSenderStep ==
  ASSUME TypeInv, BatchesDistinct, LeaseHeld, OneSender, [Next]_vars
  PROVE  OneSender'
<1> SUFFICES ASSUME faults' = 0, NEW d \in Dispatchers, NEW e \in Dispatchers, d # e,
                    NEW x \in batch'[d], NEW y \in batch'[e]
             PROVE  x.id # y.id
  BY DEF OneSender
<1>1. faults = 0
  BY FaultFree
<1>2. ASSUME NEW c \in Dispatchers, NEW z \in batch[c]
      PROVE  z.id \notin DueIds
  BY <1>1, <1>2, HeldNotDue DEF LeaseHeld
<1>3. ASSUME NEW c \in Dispatchers, NEW z \in batch'[c], z \notin batch[c]
      PROVE  Fetch(c) /\ z.id \in DueIds
  <2>1. Fetch(c)
    BY <1>3, BatchStep
  <2>2. PICK T \in SUBSET DueIds :
          \/ batch' = [batch EXCEPT ![c] = {Snapshot(i) : i \in T}]
          \/ UNCHANGED batch
    BY <2>1 DEF Fetch, Picked
  <2>3. batch'[c] = {Snapshot(i) : i \in T}
    BY <1>3, <2>2, DispatchTypes
  <2>4. \A i : Snapshot(i).id = i
    BY DEF Snapshot
  <2> QED BY <1>3, <2>1, <2>3, <2>4
<1>4. ASSUME NEW a \in Dispatchers, NEW c \in Dispatchers, a # c, Fetch(a)
      PROVE  batch'[c] = batch[c]
  BY <1>4, OthersKept DEF Step
<1>5. CASE x \in batch[d] /\ y \in batch[e]
  BY <1>1, <1>5 DEF OneSender
<1>6. CASE x \notin batch[d]
  BY <1>2, <1>3, <1>4, <1>6
<1>7. CASE y \notin batch[e]
  BY <1>2, <1>3, <1>4, <1>7
<1> QED BY <1>5, <1>6, <1>7

-----------------------------------------------------------------------------
(* A claim leases its rows for longer than the batch can take.             *)
LEMMA FetchHeld ==
  ASSUME TypeInv, NEW d \in Dispatchers, Fetch(d), ~Fault
  PROVE  Held(d)'
<1>1. PICK T \in SUBSET DueIds :
        /\ Cardinality(T) <= BatchSize
        /\ outbox' = [i \in DOMAIN outbox |-> IF i \in T THEN Claimed(outbox[i]) ELSE outbox[i]]
        /\ pc' = [pc EXCEPT ![d] = "next"]
        /\ batch' = [batch EXCEPT ![d] = {Snapshot(i) : i \in T}]
  BY DEF Fetch, Picked
<1>2. T \in SUBSET DOMAIN outbox
  BY DEF DueIds
<1>3. pc'[d] = "next" /\ batch'[d] = {Snapshot(i) : i \in T} /\ clock' = clock
  BY <1>1, DispatchTypes DEF Fetch
<1>4. PICK t \in Nat : t = Cardinality(batch'[d]) * SendTimeout /\ t < LockTTL
  <2>1. IsFiniteSet(batch'[d]) /\ Cardinality(batch'[d]) * SendTimeout < LockTTL
    BY <1>1, <1>2, <1>3, ClaimedTime
  <2>2. Cardinality(batch'[d]) * SendTimeout \in Nat
    BY <2>1, FS_CardinalityType, OutboxAssumption
  <2> QED BY <2>1, <2>2
<1>5. DoneBy(d)' = clock + t
  BY <1>3, <1>4 DEF DoneBy
<1>6. ASSUME NEW i \in T
      PROVE  outbox'[i].state = "processing" /\ outbox'[i].lockedUntil = clock + LockTTL
  <2>1. outbox[i] \in Row /\ outbox'[i] = Claimed(outbox[i])
    BY <1>1, <1>2, Ids DEF TypeInv
  <2> QED BY <2>1 DEF Claimed, Row
<1>7. ASSUME NEW x \in batch'[d]
      PROVE  outbox'[x.id].state = "processing" /\ clock + t < outbox'[x.id].lockedUntil
  <2>1. PICK i \in T : x.id = i
    BY <1>3 DEF Snapshot
  <2>2. clock \in Nat /\ LockTTL \in Nat
    BY OutboxAssumption DEF TypeInv, TypeOK
  <2> QED BY <1>4, <1>6, <2>1, <2>2
<1> QED BY <1>3, <1>5, <1>7 DEF Held

(* Choosing the next row and sending it takes no more than SendTimeout of  *)
(* what the lease has left.                                                *)
LEMMA WorkHeld ==
  ASSUME TypeInv, BatchesDistinct, NEW d \in Dispatchers, Held(d),
         NextItem(d) \/ SendAccepted(d) \/ SendRefused(d) \/ SendTimesOut(d)
  PROVE  Held(d)'
<1>1. UNCHANGED <<clock, outbox, batch>>
  BY SendType DEF NextItem
<1>2. clock \in Nat /\ sendBy[d] \in Nat /\ SendTimeout \in Nat
  BY OutboxAssumption DEF TypeInv, TypeOK
<1>3. PICK x \in batch[d] : TRUE
  BY DEF NextItem, SendAccepted, SendRefused, SendTimesOut
<1>4. PICK t \in Nat :
        /\ (Cardinality(batch[d]) - 1) * SendTimeout = t
        /\ Cardinality(batch[d]) * SendTimeout = t + SendTimeout
  BY <1>3, BatchTime DEF BatchesDistinct
<1>5. \A y \in batch[d] : outbox[y.id].lockedUntil \in Nat
  BY SendingItem, Ids DEF TypeInv, Row
<1>6. CASE NextItem(d)
  <2>1. PICK y \in batch[d] :
          /\ pc' = [pc EXCEPT ![d] = IF y.stale THEN "mark" ELSE "send"]
          /\ sendBy' = [sendBy EXCEPT ![d] = IF y.stale THEN 0 ELSE clock + SendTimeout]
    BY <1>6 DEF NextItem
  <2>2. pc[d] = "next" /\ DoneBy(d) = clock + (t + SendTimeout)
    BY <1>4, <1>6 DEF NextItem, DoneBy
  <2>3. CASE y.stale
    <3>1. pc'[d] = "mark" /\ DoneBy(d)' = clock + t
      BY <1>1, <1>4, <2>1, <2>3, DispatchTypes DEF DoneBy
    <3> QED BY <1>1, <1>2, <1>5, <2>2, <3>1 DEF Held
  <2>4. CASE ~y.stale
    <3>1. /\ pc'[d] = "send" /\ sendBy'[d] = clock + SendTimeout
      BY <2>1, <2>4, DispatchTypes
    <3>2. DoneBy(d)' = (clock + SendTimeout) + t
      BY <1>1, <1>4, <3>1 DEF DoneBy
    <3> QED BY <1>1, <1>2, <1>5, <2>2, <3>1, <3>2 DEF Held
  <2> QED BY <2>3, <2>4
<1>7. CASE SendAccepted(d) \/ SendRefused(d) \/ SendTimesOut(d)
  <2>1. pc[d] = "send" /\ DoneBy(d) = sendBy[d] + t
    BY <1>4, <1>7 DEF SendAccepted, SendRefused, SendTimesOut, Sending, DoneBy
  <2>2. pc'[d] = "mark" /\ DoneBy(d)' = clock + t
    BY <1>1, <1>4, <1>7, SendType, DispatchTypes DEF Returns, DoneBy
  <2> QED BY <1>1, <1>2, <1>5, <2>1, <2>2 DEF Held
<1> QED BY <1>6, <1>7

(* A mark takes no time and touches no other row of the batch.             *)
LEMMA MarkHeld ==
  ASSUME TypeInv, BatchesDistinct, NEW d \in Dispatchers, Held(d), Mark(d), ~Fault
  PROVE  Held(d)'
<1>1. PICK x \in batch[d] :
        /\ \A i \in DOMAIN outbox : i # x.id => outbox'[i] = outbox[i]
        /\ batch' = [batch EXCEPT ![d] = {}] \/ batch' = [batch EXCEPT ![d] = @ \ {x}]
  BY MarkRows
<1>2. (\E p \in {"idle", "next"} : pc'[d] = p) /\ clock' = clock
  BY MarkRows, DispatchTypes DEF Mark
<1>3. CASE batch'[d] = {}
  BY <1>2, <1>3 DEF Held
<1>4. CASE batch'[d] = batch[d] \ {x}
  <2>1. PICK t \in Nat :
          /\ t = Cardinality(batch[d] \ {x}) * SendTimeout
          /\ (Cardinality(batch[d]) - 1) * SendTimeout = t
    BY <1>1, BatchTime DEF BatchesDistinct
  <2>2. DoneBy(d) = clock + t
    BY <2>1 DEF Mark, DoneBy
  <2>3. DoneBy(d)' = clock + t
    BY <1>2, <1>4, <2>1 DEF DoneBy
  <2>4. \A y \in batch'[d] : y \in batch[d] /\ outbox'[y.id] = outbox[y.id]
    BY <1>1, <1>4, SendingItem DEF BatchesDistinct
  <2> QED BY <1>2, <2>2, <2>3, <2>4 DEF Held
<1> QED BY <1>1, <1>3, <1>4, DispatchTypes

(* Time passes only while the dispatchers wait or send in time.            *)
LEMMA TickHeld ==
  ASSUME TypeInv, BatchesDistinct, NEW d \in Dispatchers, Held(d), Tick, ~Fault
  PROVE  Held(d)'
<1>1. UNCHANGED <<outbox, pc, batch, sendBy>> /\ clock' = clock + 1 /\ ~Slow(d)
  BY DEF Tick
<1>2. CASE batch[d] = {}
  <2>1. pc[d] # "send" \/ clock < sendBy[d]
    BY <1>1 DEF Slow, TypeInv, TypeOK
  <2> QED BY <1>1, <1>2, <2>1 DEF Held, TypeInv, TypeOK
<1>3. CASE batch[d] # {}
  <2>1. pc[d] = "send" /\ clock < sendBy[d]
    BY <1>1, <1>3 DEF Slow, BatchesDistinct, TypeInv, TypeOK
  <2>2. DoneBy(d)' = DoneBy(d)
    BY <1>1, <2>1 DEF DoneBy
  <2> QED BY <1>1, <2>1, <2>2 DEF Held, TypeInv, TypeOK
<1> QED BY <1>2, <1>3

(* What a step of one dispatcher does to the rows another one holds.       *)
LEMMA OthersHeld ==
  ASSUME TypeInv, BatchesDistinct, NEW d \in Dispatchers, Held(d),
         NEW e \in Dispatchers, e # d, Step(e) \/ MarkFails(e) \/ Crash(e),
         \A x \in batch[d], y \in batch[e] : x.id # y.id
  PROVE  Held(d)'
<1>1. ASSUME NEW x \in batch[d]
      PROVE  outbox'[x.id] = outbox[x.id]
  <2>1. x.id \in DOMAIN outbox
    BY SendingItem
  <2>2. CASE Fetch(e)
    <3>1. PICK T \in SUBSET DueIds :
            outbox' = [i \in DOMAIN outbox |-> IF i \in T THEN Claimed(outbox[i]) ELSE outbox[i]]
      BY <2>2 DEF Fetch, Picked
    <3> QED BY <2>1, <3>1, HeldNotDue
  <2>3. CASE Mark(e)
    BY <2>1, <2>3, MarkRows
  <2>4. CASE Send(e) \/ Crash(e) \/ FetchNothing(e) \/ NextItem(e) \/ MarkFails(e) \/ Restart(e)
    BY <2>4, SendType, DieType, RestType DEF Send
  <2> QED BY <2>2, <2>3, <2>4 DEF Step
<1> QED BY <1>1, OthersKept, HeldKept

(* The lease outlasts the batch.                                           *)
LEMMA LeaseStep ==
  ASSUME TypeInv, BatchesDistinct, LeaseHeld, OneSender, [Next]_vars
  PROVE  LeaseHeld'
<1> SUFFICES ASSUME faults' = 0, NEW d \in Dispatchers
             PROVE  Held(d)'
  BY DEF LeaseHeld
<1>1. faults = 0 /\ ~Fault
  BY FaultFree
<1>2. Held(d)
  BY <1>1 DEF LeaseHeld
<1>3. ASSUME NEW e \in Dispatchers, e # d, Step(e) \/ MarkFails(e) \/ Crash(e)
      PROVE  Held(d)'
  <2>1. \A x \in batch[d], y \in batch[e] : x.id # y.id
    BY <1>1, <1>3 DEF OneSender
  <2> QED BY <1>2, <1>3, <2>1, OthersHeld
<1>4. ASSUME NEW b \in Bookings, Book(b) \/ Confirm(b) \/ Cancel(b)
      PROVE  Held(d)'
  <2>1. UNCHANGED <<clock, pc, batch, sendBy>>
    BY <1>4 DEF Book, Confirm, Cancel, Change, dispatch
  <2>2. \A x \in batch[d] : outbox'[x.id] = outbox[x.id]
    BY <1>4, ChangeRows, SendingItem
  <2> QED BY <1>2, <2>1, <2>2, HeldKept
<1>5. CASE LateSendEnds \/ UNCHANGED vars
  <2>1. UNCHANGED <<clock, outbox, pc, batch, sendBy>>
    BY <1>5 DEF LateSendEnds, vars, dispatch
  <2> QED BY <1>2, <2>1, HeldKept
<1>6. CASE SendPanics(d)
  <2>1. pc'[d] # "send" /\ batch'[d] = {}
    BY <1>6, DispatchTypes DEF SendPanics, Die
  <2> QED BY <2>1 DEF Held
<1>7. CASE FetchNothing(d)
  <2>1. UNCHANGED <<clock, outbox, pc, batch, sendBy>>
    BY <1>7 DEF FetchNothing
  <2> QED BY <1>2, <2>1, HeldKept
<1>8. CASE Restart(d)
  <2>1. batch'[d] = {} /\ pc'[d] = "idle"
    BY <1>8, DispatchTypes DEF Restart, dispatch, BatchesDistinct
  <2> QED BY <2>1 DEF Held
<1>9. ~MarkFails(d) /\ ~Crash(d)
  BY <1>1 DEF MarkFails, Crash
<1>10. CASE Tick
  BY <1>1, <1>2, <1>10, TickHeld
<1> QED BY <1>1, <1>2, <1>3, <1>4, <1>5, <1>6, <1>7, <1>8, <1>9, <1>10, FetchHeld, WorkHeld, MarkHeld
         DEF Next, Step, Send

(* Every reachable state satisfies the invariant that carries the lease:   *)
(* it bounds when a dispatcher is done with its batch.                     *)
THEOREM LeaseInvariance == Spec => []LeaseInv
<1> DEFINE Inv == TypeInv /\ BatchesDistinct /\ LeaseHeld /\ OneSender
<1>1. Init => Inv
  <2>1. Init => TypeInv
    BY EmptySeq DEF Init, TypeInv, TypeOK, Known
  <2>2. Init => BatchesDistinct
    BY FS_EmptySet DEF Init, BatchesDistinct
  <2>3. Init => LeaseHeld /\ OneSender
    BY DEF Init, LeaseHeld, Held, OneSender
  <2> QED BY <2>1, <2>2, <2>3
<1>2. Inv /\ [Next]_vars => Inv'
  BY TypeStep, DistinctStep, LeaseStep, OneSenderStep
<1>3. TruthInv /\ Inv => LeaseInv
  BY DEF LeaseInv
<1> QED BY <1>1, <1>2, <1>3, TruthInvariance, PTL DEF Spec

(* As long as no process crashes, stalls or loses an answer, no two        *)
(* dispatchers have the same row in hand, however many they are: the lease *)
(* is longer than a full batch whose every send times out.                 *)
THEOREM LeaseOutlastsBatch == Spec => []OneSender
<1>1. LeaseInv => OneSender
  BY DEF LeaseInv
<1> QED BY <1>1, LeaseInvariance, PTL

-----------------------------------------------------------------------------
(* What a dispatcher may still send, and what it has in the air.           *)
Owes(d, i) == \E x \in batch[d] : x.id = i /\ ~(pc[d] = "mark" /\ First(d, x))

(* How a step may change the acceptances t and the claims a of a row, and  *)
(* the sends to come (O) and in the air (F): less is to come, one that was *)
(* to come is accepted or in the air, one in the air ends, or a claim      *)
(* allows one more.                                                        *)
Accounted(O, F, t, a, O2, F2, t2, a2) ==
  \/ a2 >= a /\ O2 \subseteq O /\ F2 \subseteq F /\ t2 = t
  \/ a2 >= a /\ \E d \in O : O2 \subseteq O \ {d} /\ F2 \subseteq F /\ t2 <= t + 1
  \/ a2 >= a /\ \E d \in O : \E s : O2 \subseteq O \ {d} /\ F2 \subseteq F \cup {s} /\ t2 = t
  \/ a2 >= a /\ \E s \in F : O2 \subseteq O /\ F2 \subseteq F \ {s} /\ t2 <= t + 1
  \/ a2 = a + 1 /\ \E d : O2 \subseteq O \cup {d} /\ F2 \subseteq F /\ t2 = t

(* The claims still cover the acceptances after such a change.             *)
LEMMA Counted ==
  ASSUME NEW O, NEW F, NEW O2, NEW F2,
         NEW t \in Nat, NEW t2 \in Nat, NEW a \in Nat, NEW a2 \in Nat,
         IsFiniteSet(O), IsFiniteSet(F), t + Cardinality(O) + Cardinality(F) <= a,
         Accounted(O, F, t, a, O2, F2, t2, a2)
  PROVE  t2 + Cardinality(O2) + Cardinality(F2) <= a2
<1>1. Cardinality(O) \in Nat /\ Cardinality(F) \in Nat
  BY FS_CardinalityType
<1>2. ASSUME NEW S, IsFiniteSet(S), NEW T, T \subseteq S
      PROVE  Cardinality(T) \in Nat /\ Cardinality(T) <= Cardinality(S) /\ Cardinality(S) \in Nat
  BY <1>2, FS_Subset, FS_CardinalityType
<1>3. ASSUME NEW S, IsFiniteSet(S), NEW x \in S, NEW T, T \subseteq S \ {x}
      PROVE  Cardinality(T) \in Nat /\ Cardinality(T) <= Cardinality(S) - 1
  <2>1. IsFiniteSet(S \ {x}) /\ Cardinality(S \ {x}) = Cardinality(S) - 1
    BY <1>3, FS_RemoveElement
  <2> QED BY <1>2, <1>3, <2>1
<1>4. ASSUME NEW S, IsFiniteSet(S), NEW x, NEW T, T \subseteq S \cup {x}
      PROVE  Cardinality(T) \in Nat /\ Cardinality(T) <= Cardinality(S) + 1
  <2>1. IsFiniteSet(S \cup {x}) /\ Cardinality(S \cup {x}) <= Cardinality(S) + 1
    <3>1. Cardinality(S) \in Nat
      BY <1>4, FS_CardinalityType
    <3>2. /\ IsFiniteSet(S \cup {x})
          /\ Cardinality(S \cup {x}) = IF x \in S THEN Cardinality(S) ELSE Cardinality(S) + 1
      BY <1>4, FS_AddElement
    <3> QED BY <3>1, <3>2
  <2>2. /\ Cardinality(T) \in Nat /\ Cardinality(T) <= Cardinality(S \cup {x})
        /\ Cardinality(S \cup {x}) \in Nat /\ Cardinality(S) \in Nat
    BY <1>2, <1>4, <2>1, FS_CardinalityType
  <2> QED BY <2>1, <2>2
<1>5. CASE a2 >= a /\ O2 \subseteq O /\ F2 \subseteq F /\ t2 = t
  <2>1. Cardinality(O2) \in Nat /\ Cardinality(O2) <= Cardinality(O)
    BY <1>2, <1>5
  <2>2. Cardinality(F2) \in Nat /\ Cardinality(F2) <= Cardinality(F)
    BY <1>2, <1>5
  <2> QED BY <1>1, <1>5, <2>1, <2>2
<1>6. ASSUME a2 >= a, NEW d \in O, O2 \subseteq O \ {d}, F2 \subseteq F, t2 <= t + 1
      PROVE  t2 + Cardinality(O2) + Cardinality(F2) <= a2
  <2>1. Cardinality(O2) \in Nat /\ Cardinality(O2) <= Cardinality(O) - 1
    BY <1>3, <1>6
  <2>2. Cardinality(F2) \in Nat /\ Cardinality(F2) <= Cardinality(F)
    BY <1>2, <1>6
  <2> QED BY <1>1, <1>6, <2>1, <2>2
<1>7. ASSUME a2 >= a, NEW d \in O, NEW s, O2 \subseteq O \ {d}, F2 \subseteq F \cup {s}, t2 = t
      PROVE  t2 + Cardinality(O2) + Cardinality(F2) <= a2
  <2>1. Cardinality(O2) \in Nat /\ Cardinality(O2) <= Cardinality(O) - 1
    BY <1>3, <1>7
  <2>2. Cardinality(F2) \in Nat /\ Cardinality(F2) <= Cardinality(F) + 1
    BY <1>4, <1>7
  <2> QED BY <1>1, <1>7, <2>1, <2>2
<1>8. ASSUME a2 >= a, NEW s \in F, O2 \subseteq O, F2 \subseteq F \ {s}, t2 <= t + 1
      PROVE  t2 + Cardinality(O2) + Cardinality(F2) <= a2
  <2>1. Cardinality(O2) \in Nat /\ Cardinality(O2) <= Cardinality(O)
    BY <1>2, <1>8
  <2>2. Cardinality(F2) \in Nat /\ Cardinality(F2) <= Cardinality(F) - 1
    BY <1>3, <1>8
  <2> QED BY <1>1, <1>8, <2>1, <2>2
<1>9. ASSUME a2 = a + 1, NEW d, O2 \subseteq O \cup {d}, F2 \subseteq F, t2 = t
      PROVE  t2 + Cardinality(O2) + Cardinality(F2) <= a2
  <2>1. Cardinality(O2) \in Nat /\ Cardinality(O2) <= Cardinality(O) + 1
    BY <1>4, <1>9
  <2>2. Cardinality(F2) \in Nat /\ Cardinality(F2) <= Cardinality(F)
    BY <1>2, <1>9
  <2> QED BY <1>1, <1>9, <2>1, <2>2
<1> QED BY <1>5, <1>6, <1>7, <1>8, <1>9 DEF Accounted

(* A batch has one first row.                                              *)
LEMMA OneFirst ==
  ASSUME TypeInv, BatchesDistinct, NEW d \in Dispatchers,
         NEW x \in batch[d], NEW y \in batch[d], First(d, x), x.id = y.id \/ First(d, y)
  PROVE  x = y
<1>1. x.id \in Nat /\ y.id \in Nat
  BY SendingItem DEF Item
<1>2. x.id = y.id
  BY <1>1 DEF First
<1> QED BY <1>2 DEF BatchesDistinct

(* A step of a dispatcher other than Fetch does not give it more to send.  *)
LEMMA OwesLess ==
  ASSUME TypeInv, BatchesDistinct, NEW d \in Dispatchers, NEW i,
         \/ FetchNothing(d) \/ NextItem(d) \/ Send(d)
         \/ Mark(d) \/ MarkFails(d) \/ Crash(d) \/ Restart(d),
         Owes(d, i)'
  PROVE  Owes(d, i)
<1>1. PICK x \in batch'[d] : x.id = i
  BY DEF Owes
<1>2. CASE pc[d] # "mark" /\ x \in batch[d]
  BY <1>1, <1>2 DEF Owes
<1>3. CASE batch'[d] = {}
  BY <1>1, <1>3
<1>4. CASE FetchNothing(d) \/ NextItem(d) \/ Restart(d)
  BY <1>1, <1>2, <1>4 DEF FetchNothing, NextItem, Restart, dispatch
<1>5. CASE SendAccepted(d) \/ SendRefused(d) \/ SendTimesOut(d)
  <2>1. pc[d] = "send"
    BY <1>5 DEF SendAccepted, SendRefused, SendTimesOut, Sending
  <2> QED BY <1>1, <1>2, <1>5, <2>1, SendType
<1>6. CASE SendPanics(d) \/ Crash(d)
  BY <1>3, <1>6, DieType, DispatchTypes DEF Die
<1>7. CASE MarkFails(d)
  BY <1>3, <1>7, DispatchTypes DEF MarkFails, Abandon
<1>8. CASE Mark(d)
  <2>1. PICK y \in batch[d] :
          /\ First(d, y)
          /\ batch' = [batch EXCEPT ![d] = {}] \/ batch' = [batch EXCEPT ![d] = @ \ {y}]
    BY <1>8, MarkRows
  <2>2. batch'[d] = {} \/ batch'[d] = batch[d] \ {y}
    BY <2>1, DispatchTypes
  <2>3. CASE batch'[d] = batch[d] \ {y}
    <3>1. x \in batch[d] /\ x # y
      BY <1>1, <2>3
    <3>2. ~First(d, x)
      BY <2>1, <3>1, OneFirst
    <3> QED BY <1>1, <3>1, <3>2 DEF Owes
  <2> QED BY <1>3, <2>2, <2>3
<1> QED BY <1>4, <1>5, <1>6, <1>7, <1>8 DEF Send

(* The row that was sent is not owed any more.                             *)
LEMMA SentNotOwed ==
  ASSUME TypeInv, BatchesDistinct, NEW d \in Dispatchers, NEW x \in batch[d],
         pc[d] = "send", First(d, x),
         batch'[d] = {} \/ (pc'[d] = "mark" /\ batch'[d] = batch[d])
  PROVE  Owes(d, x.id) /\ ~Owes(d, x.id)'
<1>1. Owes(d, x.id)
  BY DEF Owes
<1>2. CASE batch'[d] = {}
  BY <1>1, <1>2 DEF Owes
<1>3. CASE pc'[d] = "mark" /\ batch'[d] = batch[d]
  <2>1. ASSUME NEW y \in batch[d], y.id = x.id PROVE First(d, y)'
    <3>1. y = x
      BY <2>1, OneFirst
    <3> QED BY <1>3, <3>1 DEF First
  <2> QED BY <1>1, <1>3, <2>1 DEF Owes
<1> QED BY <1>2, <1>3

(* A step of one dispatcher does not change what another one owes.         *)
LEMMA OwesKept ==
  ASSUME TypeInv, NEW e \in Dispatchers, NEW d \in Dispatchers, e # d, NEW i,
         Step(e) \/ MarkFails(e) \/ Crash(e), Owes(d, i)'
  PROVE  Owes(d, i)
<1>1. pc'[d] = pc[d] /\ batch'[d] = batch[d]
  BY OthersKept
<1> QED BY <1>1 DEF Owes, First

(* The sets ClaimsCover counts.                                            *)
LEMMA CountedSets ==
  ASSUME TypeInv, IsFiniteSet(inflight), NEW i
  PROVE  /\ IsFiniteSet(Owing(i)) /\ IsFiniteSet(Flying(i))
         /\ Owing(i) = {d \in Dispatchers : Owes(d, i)}
         /\ Owing(i)' = {d \in Dispatchers : Owes(d, i)'}
<1>1. IsFiniteSet(Dispatchers)
  BY OutboxAssumption
<1>2. Owing(i) \subseteq Dispatchers /\ Flying(i) \subseteq inflight
  BY DEF Owing, Flying
<1> QED BY <1>1, <1>2, FS_Subset DEF Owing, Owes

(* A step of a dispatcher keeps the acceptances of a row, past and to      *)
(* come, within its claims.                                                *)
LEMMA StepCovered ==
  ASSUME TypeInv, BatchesDistinct, ClaimsCover, NEW i \in DOMAIN outbox,
         NEW e \in Dispatchers, Step(e) \/ MarkFails(e) \/ Crash(e)
  PROVE  told'[i] + Cardinality(Owing(i)') + Cardinality(Flying(i)') <= outbox'[i].attempts
<1>1. /\ told[i] \in Nat /\ told'[i] \in Nat
      /\ outbox[i].attempts \in Nat /\ outbox'[i].attempts \in Nat
      /\ outbox'[i].attempts >= outbox[i].attempts
  BY ToldGrows, RowKept DEF Next
<1>2. /\ IsFiniteSet(Owing(i)) /\ IsFiniteSet(Flying(i))
      /\ told[i] + Cardinality(Owing(i)) + Cardinality(Flying(i)) <= outbox[i].attempts
  BY CountedSets DEF ClaimsCover
<1>3. \A d \in Owing(i)' : d \in Owing(i) \/ (d = e /\ Owes(e, i)')
  BY CountedSets, OwesKept DEF ClaimsCover
<1>4. e \in Owing(i) <=> Owes(e, i)
  BY CountedSets DEF ClaimsCover
<1> DEFINE O == Owing(i)
           F == Flying(i)
           O2 == Owing(i)'
           F2 == Flying(i)'
<1> SUFFICES
      \/ O2 \subseteq O /\ F2 \subseteq F /\ told'[i] = told[i]
      \/ \E d \in O : O2 \subseteq O \ {d} /\ F2 \subseteq F /\ told'[i] <= told[i] + 1
      \/ \E d \in O : \E s : O2 \subseteq O \ {d} /\ F2 \subseteq F \cup {s} /\ told'[i] = told[i]
      \/ /\ outbox'[i].attempts = outbox[i].attempts + 1
         /\ \E d : O2 \subseteq O \cup {d} /\ F2 \subseteq F /\ told'[i] = told[i]
  <2> HIDE DEF O, F, O2, F2
  <2>1. told[i] + Cardinality(O) + Cardinality(F) <= outbox[i].attempts /\ IsFiniteSet(O) /\ IsFiniteSet(F)
    BY <1>2 DEF O, F
  <2>2. Accounted(O, F, told[i], outbox[i].attempts, O2, F2, told'[i], outbox'[i].attempts)
    BY <1>1 DEF Accounted
  <2>3. told'[i] + Cardinality(O2) + Cardinality(F2) <= outbox'[i].attempts
    BY <1>1, <2>1, <2>2, Counted
  <2> QED BY <2>3 DEF O2, F2
<1>5. inflight' \subseteq inflight => F2 \subseteq F
  BY DEF Flying
<1>6. CASE Fetch(e)
  <2>1. PICK T \in SUBSET DOMAIN outbox :
          /\ i \in T => outbox'[i].attempts = outbox[i].attempts + 1
          /\ \/ batch' = [batch EXCEPT ![e] = {Snapshot(j) : j \in T}]
             \/ UNCHANGED <<pc, batch>>
    BY <1>6, FetchRows
  <2>2. UNCHANGED <<told, inflight>>
    BY <1>6 DEF Fetch, history
  <2>3. F2 \subseteq F
    BY <1>5, <2>2
  <2>4. CASE i \in T
    <3>1. O2 \subseteq O \cup {e}
      BY <1>3
    <3> QED BY <2>1, <2>2, <2>3, <2>4, <3>1
  <2>5. CASE i \notin T
    <3>1. Owes(e, i)' => Owes(e, i)
      <4>1. CASE UNCHANGED <<pc, batch>>
        BY <4>1 DEF Owes, First
      <4>2. CASE batch' = [batch EXCEPT ![e] = {Snapshot(j) : j \in T}]
        BY <2>5, <4>2, DispatchTypes DEF Owes, Snapshot
      <4> QED BY <2>1, <4>1, <4>2
    <3>2. O2 \subseteq O
      BY <1>3, <1>4, <3>1
    <3> QED BY <2>2, <2>3, <3>2
  <2> QED BY <2>4, <2>5
<1>7. CASE ~Fetch(e)
  <2>1. O2 \subseteq O
    BY <1>3, <1>4, <1>7, OwesLess DEF Step
  <2>2. CASE UNCHANGED told /\ inflight' \subseteq inflight
    BY <1>5, <2>1, <2>2
  <2>3. ASSUME NEW x \in batch[e], pc[e] = "send", First(e, x),
               batch'[e] = {} \/ (pc'[e] = "mark" /\ batch'[e] = batch[e])
        PROVE  i = x.id => e \in O /\ O2 \subseteq O \ {e}
    <3>1. Owes(e, x.id) /\ ~Owes(e, x.id)'
      BY <2>3, SentNotOwed
    <3>2. i = x.id => e \notin O2
      BY <3>1, CountedSets DEF ClaimsCover
    <3> QED BY <1>4, <2>1, <3>1, <3>2
  <2>4. ASSUME NEW x \in batch[e], pc[e] = "send", First(e, x),
               batch'[e] = {} \/ (pc'[e] = "mark" /\ batch'[e] = batch[e]),
               told' = [told EXCEPT ![x.id] = @ + 1], inflight' \subseteq inflight
        PROVE  \/ O2 \subseteq O /\ F2 \subseteq F /\ told'[i] = told[i]
               \/ \E d \in O : O2 \subseteq O \ {d} /\ F2 \subseteq F /\ told'[i] <= told[i] + 1
    <3>1. told'[i] = IF i = x.id THEN told[i] + 1 ELSE told[i]
      BY <2>4 DEF TypeInv, TypeOK
    <3> HIDE DEF O, O2, F, F2
    <3> QED BY <1>1, <1>5, <2>1, <2>3, <2>4, <3>1
  <2>5. CASE FetchNothing(e) \/ NextItem(e) \/ Mark(e) \/ MarkFails(e) \/ Restart(e)
    BY <2>2, <2>5 DEF FetchNothing, NextItem, Mark, MarkFails, Restart, history
  <2>6. CASE SendAccepted(e) \/ SendRefused(e)
    <3>1. pc'[e] = "mark" /\ batch'[e] = batch[e]
      BY <2>6, SendType, DispatchTypes DEF Returns
    <3>2. inflight' = inflight
      BY <2>6 DEF SendAccepted, SendRefused
    <3>3. \/ UNCHANGED told
          \/ \E x \in batch[e] : /\ pc[e] = "send" /\ First(e, x)
                                 /\ told' = [told EXCEPT ![x.id] = @ + 1]
      BY <2>6 DEF SendAccepted, SendRefused, Sending, history
    <3> QED BY <2>2, <2>4, <3>1, <3>2, <3>3
  <2>7. CASE SendTimesOut(e)
    <3>1. pc'[e] = "mark" /\ batch'[e] = batch[e] /\ UNCHANGED told
      BY <2>7, SendType, DispatchTypes DEF Returns, SendTimesOut
    <3>2. PICK x \in batch[e] :
            /\ pc[e] = "send" /\ First(e, x)
            /\ inflight' = inflight \cup {[by |-> e, id |-> x.id, attempts |-> x.attempts]}
      BY <2>7 DEF SendTimesOut, Sending
    <3>3. PICK s : s = [by |-> e, id |-> x.id, attempts |-> x.attempts]
      OBVIOUS
    <3>4. s.id = x.id /\ inflight' = inflight \cup {s}
      BY <3>2, <3>3
    <3>5. F2 \subseteq F \cup {s} /\ (i # x.id => F2 \subseteq F)
      BY <3>4 DEF Flying
    <3>6. i = x.id => e \in O /\ O2 \subseteq O \ {e}
      BY <2>3, <3>1, <3>2
    <3> HIDE DEF O, O2, F, F2
    <3> QED BY <2>1, <3>1, <3>5, <3>6
  <2>8. CASE SendPanics(e) \/ Crash(e)
    <3>1. batch'[e] = {} /\ inflight' \subseteq inflight
      BY <2>8, DieType, DispatchTypes DEF Die
    <3>2. \/ UNCHANGED told
          \/ \E x \in batch[e] : /\ pc[e] = "send" /\ First(e, x)
                                 /\ told' = [told EXCEPT ![x.id] = @ + 1]
      BY <2>8 DEF SendPanics, Crash, Sending, history
    <3> QED BY <2>2, <2>4, <3>1, <3>2
  <2> QED BY <1>7, <2>5, <2>6, <2>7, <2>8 DEF Step, Send
<1> QED BY <1>6, <1>7

(* All steps do.                                                           *)
LEMMA CoverStep ==
  ASSUME TypeInv, BatchesDistinct, ClaimsCover, [Next]_vars
  PROVE  ClaimsCover'
<1>1. IsFiniteSet(inflight')
  <2>1. inflight' \subseteq inflight \/ \E s : inflight' = inflight \cup {s}
    <3>1. ASSUME NEW d \in Dispatchers, Step(d) \/ MarkFails(d) \/ Crash(d)
          PROVE  inflight' \subseteq inflight \/ \E s : inflight' = inflight \cup {s}
      <4>1. CASE SendPanics(d) \/ Crash(d)
        BY <4>1, DieType DEF Die
      <4>2. CASE SendAccepted(d) \/ SendRefused(d) \/ SendTimesOut(d)
        BY <4>2 DEF SendAccepted, SendRefused, SendTimesOut
      <4>3. CASE Fetch(d) \/ FetchNothing(d) \/ NextItem(d) \/ Mark(d) \/ MarkFails(d) \/ Restart(d)
        BY <4>3 DEF Fetch, FetchNothing, NextItem, Mark, MarkFails, Restart
      <4> QED BY <3>1, <4>1, <4>2, <4>3 DEF Step, Send
    <3>2. ASSUME NEW b \in Bookings, Book(b) \/ Confirm(b) \/ Cancel(b) PROVE inflight' = inflight
      BY <3>2 DEF Book, Confirm, Cancel, Change
    <3>3. LateSendEnds \/ Tick \/ UNCHANGED vars => inflight' \subseteq inflight
      BY DEF LateSendEnds, Tick, vars
    <3> QED BY <3>1, <3>2, <3>3 DEF Next
  <2> QED BY <2>1, FS_Subset, FS_AddElement DEF ClaimsCover
<1> SUFFICES ASSUME NEW i \in DOMAIN outbox'
             PROVE  told'[i] + Cardinality(Owing(i)') + Cardinality(Flying(i)') <= outbox'[i].attempts
  BY <1>1 DEF ClaimsCover
<1>2. ASSUME i \in DOMAIN outbox,
             UNCHANGED <<pc, batch, inflight>>, told'[i] = told[i], outbox'[i] = outbox[i]
      PROVE  told'[i] + Cardinality(Owing(i)') + Cardinality(Flying(i)') <= outbox'[i].attempts
  <2>1. Owing(i)' = Owing(i) /\ Flying(i)' = Flying(i)
    BY <1>2 DEF Owing, Flying, First
  <2> QED BY <1>2, <2>1 DEF ClaimsCover
<1>3. ASSUME NEW b \in Bookings, Book(b) \/ Confirm(b) \/ Cancel(b)
      PROVE  told'[i] + Cardinality(Owing(i)') + Cardinality(Flying(i)') <= outbox'[i].attempts
  <2>1. UNCHANGED <<pc, batch, inflight>>
    BY <1>3 DEF Book, Confirm, Cancel, Change, dispatch
  <2>2. PICK type \in Types : Enqueue(b, type)
    BY <1>3, ChangeType DEF Book, Confirm, Cancel
  <2>3. CASE i \in DOMAIN outbox
    BY <1>2, <2>1, <2>2, <2>3, Appended DEF TypeInv
  <2>4. CASE i \notin DOMAIN outbox
    <3>1. told'[i] = 0 /\ outbox'[i].attempts = 0
      BY <2>2, <2>4, Appended DEF TypeInv, NewRow
    <3>2. Owing(i)' = {} /\ Flying(i)' = {}
      BY <2>1, <2>4 DEF Owing, Flying, TypeInv, TypeOK, Known
    <3> QED BY <3>1, <3>2, FS_EmptySet
  <2> QED BY <2>3, <2>4
<1>4. CASE LateSendEnds
  <2>1. UNCHANGED <<pc, batch, outbox>>
    BY <1>4 DEF LateSendEnds, dispatch
  <2>2. PICK s \in inflight :
          /\ inflight' = inflight \ {s}
          /\ told' = [told EXCEPT ![s.id] = @ + 1] \/ UNCHANGED told
    BY <1>4 DEF LateSendEnds
  <2>3. Owing(i)' = Owing(i)
    BY <2>1 DEF Owing, First
  <2>4. /\ told[i] \in Nat /\ told'[i] \in Nat /\ outbox[i].attempts \in Nat
        /\ IsFiniteSet(Owing(i)) /\ IsFiniteSet(Flying(i))
        /\ told[i] + Cardinality(Owing(i)) + Cardinality(Flying(i)) <= outbox[i].attempts
    BY <1>4, <2>1, ToldGrows, RowKept, CountedSets DEF ClaimsCover, Next
  <2>5. \/ Flying(i)' \subseteq Flying(i) /\ told'[i] = told[i]
        \/ \E r \in Flying(i) : Flying(i)' \subseteq Flying(i) \ {r} /\ told'[i] <= told[i] + 1
    <3>1. CASE s.id = i
      <4>1. s \in Flying(i) /\ Flying(i)' = Flying(i) \ {s}
        BY <2>2, <3>1 DEF Flying
      <4>2. told'[i] <= told[i] + 1
        BY <2>1, <2>2, <2>4, <3>1 DEF TypeInv, TypeOK
      <4> QED BY <4>1, <4>2
    <3>2. CASE s.id # i
      <4>1. Flying(i)' \subseteq Flying(i)
        BY <2>2 DEF Flying
      <4>2. told'[i] = told[i]
        BY <2>1, <2>2, <3>2 DEF TypeInv, TypeOK
      <4> QED BY <4>1, <4>2
    <3> QED BY <3>1, <3>2
  <2>6. Accounted(Owing(i), Flying(i), told[i], outbox[i].attempts,
                  Owing(i)', Flying(i)', told'[i], outbox'[i].attempts)
    BY <2>1, <2>3, <2>4, <2>5 DEF Accounted
  <2> QED BY <2>1, <2>4, <2>6, Counted
<1>5. CASE Tick \/ UNCHANGED vars
  <2>1. UNCHANGED <<pc, batch, inflight, told, outbox>>
    BY <1>5 DEF Tick, vars, dispatch, history
  <2> QED BY <1>2, <2>1
<1>6. ASSUME NEW d \in Dispatchers, Step(d) \/ MarkFails(d) \/ Crash(d)
      PROVE  told'[i] + Cardinality(Owing(i)') + Cardinality(Flying(i)') <= outbox'[i].attempts
  <2>1. DOMAIN outbox' = DOMAIN outbox
    BY <1>6, FetchType, MarkType, SendType, DieType, RestType DEF Step, Send
  <2> QED BY <1>6, <2>1, StepCovered
<1> QED BY <1>3, <1>4, <1>5, <1>6 DEF Next

-----------------------------------------------------------------------------
(* A send that goes on after its timer is of an unsure row.                *)
LEMMA FlyingUnsure ==
  ASSUME \A s \in inflight : s.id \in unsure, [Next]_vars
  PROVE  (\A s \in inflight' : s.id \in unsure') /\ unsure \subseteq unsure'
<1>1. CASE inflight' \subseteq inflight /\ unsure \subseteq unsure'
  BY <1>1
<1>2. ASSUME NEW d \in Dispatchers, Step(d) \/ MarkFails(d) \/ Crash(d)
      PROVE  (\A s \in inflight' : s.id \in unsure') /\ unsure \subseteq unsure'
  <2>1. CASE SendTimesOut(d)
    <3>1. PICK x \in batch[d] :
            /\ inflight' = inflight \cup {[by |-> d, id |-> x.id, attempts |-> x.attempts]}
            /\ unsure' = unsure \cup {x.id}
      BY <2>1 DEF SendTimesOut
    <3> QED BY <3>1
  <2>2. CASE SendAccepted(d) \/ SendRefused(d)
    BY <1>1, <2>2 DEF SendAccepted, SendRefused, history
  <2>3. CASE SendPanics(d) \/ Crash(d)
    BY <1>1, <2>3 DEF SendPanics, Crash, Die, history
  <2>4. CASE Fetch(d) \/ FetchNothing(d) \/ NextItem(d) \/ Mark(d) \/ MarkFails(d) \/ Restart(d)
    BY <1>1, <2>4 DEF Fetch, FetchNothing, NextItem, Mark, MarkFails, Restart, history
  <2> QED BY <1>2, <2>1, <2>2, <2>3, <2>4 DEF Step, Send
<1>3. ASSUME NEW b \in Bookings, Book(b) \/ Confirm(b) \/ Cancel(b)
      PROVE  inflight' \subseteq inflight /\ unsure \subseteq unsure'
  BY <1>3 DEF Book, Confirm, Cancel, Change
<1>4. LateSendEnds \/ Tick \/ UNCHANGED vars =>
        inflight' \subseteq inflight /\ unsure \subseteq unsure'
  BY DEF LateSendEnds, Tick, vars, history
<1> QED BY <1>1, <1>2, <1>3, <1>4 DEF Next

(* A row whose sends all ended clearly is told only by a send that returns *)
(* in time.                                                                *)
LEMMA ToldBy ==
  ASSUME TypeInv, \A s \in inflight : s.id \in unsure, [Next]_vars, ~Fault,
         NEW i \in DOMAIN outbox, i \notin unsure'
  PROVE  \/ told'[i] = told[i]
         \/ \E d \in Dispatchers :
              /\ SendAccepted(d)
              /\ told'[i] = told[i] + 1
              /\ \E x \in batch[d] : Sending(d, x, "ok") /\ x.id = i
<1>1. i \notin unsure /\ told \in [DOMAIN outbox -> Nat]
  BY FlyingUnsure DEF TypeInv, TypeOK
<1>2. ASSUME NEW d \in Dispatchers, SendAccepted(d)
      PROVE  \/ told'[i] = told[i]
             \/ /\ told'[i] = told[i] + 1
                /\ \E x \in batch[d] : Sending(d, x, "ok") /\ x.id = i
  <2>1. PICK x \in batch[d] : Sending(d, x, "ok") /\ told' = [told EXCEPT ![x.id] = @ + 1]
    BY <1>2 DEF SendAccepted
  <2> QED BY <1>1, <2>1
<1>3. ASSUME NEW d \in Dispatchers, SendRefused(d)
      PROVE  told'[i] = told[i]
  <2>1. \/ UNCHANGED told
        \/ \E x \in batch[d] : /\ told' = [told EXCEPT ![x.id] = @ + 1]
                               /\ unsure' = unsure \cup {x.id}
    BY <1>3 DEF SendRefused, history
  <2> QED BY <1>1, <2>1
<1>4. ASSUME NEW d \in Dispatchers,
             \/ SendTimesOut(d) \/ SendPanics(d) \/ Fetch(d) \/ FetchNothing(d)
             \/ NextItem(d) \/ Mark(d) \/ Restart(d)
      PROVE  told' = told
  BY <1>4 DEF SendTimesOut, SendPanics, Fetch, FetchNothing, NextItem, Mark, Restart, history
<1>5. ASSUME NEW d \in Dispatchers
      PROVE  ~MarkFails(d) /\ ~Crash(d)
  BY DEF MarkFails, Crash
<1>6. LateSendEnds => told'[i] = told[i]
  <2>1. LateSendEnds => \/ UNCHANGED told
                        \/ \E s \in inflight : told' = [told EXCEPT ![s.id] = @ + 1]
    BY DEF LateSendEnds
  <2> QED BY <1>1, <2>1
<1>7. ASSUME NEW b \in Bookings, Book(b) \/ Confirm(b) \/ Cancel(b)
      PROVE  told'[i] = told[i]
  BY <1>7, ChangeRows
<1>8. Tick \/ UNCHANGED vars => told' = told
  BY DEF Tick, vars, history
<1> QED BY <1>2, <1>3, <1>4, <1>5, <1>6, <1>7, <1>8 DEF Next, Step, Send

(* A dispatcher about to mark a row sent stays so until the row is sent.   *)
LEMMA AboutStep ==
  ASSUME TypeInv, BatchesDistinct, LeaseHeld, faults = 0, ~Fault, [Next]_vars,
         NEW i \in DOMAIN outbox, AboutToBeSent(i)
  PROVE  outbox'[i].state = "sent" \/ AboutToBeSent(i)'
<1>1. PICK d \in Dispatchers : /\ pc[d] = "mark" /\ result[d] = "ok"
                               /\ \E x \in batch[d] : First(d, x) /\ x.id = i
  BY DEF AboutToBeSent
<1>2. PICK x \in batch[d] : First(d, x) /\ x.id = i
  BY <1>1
<1>3. CASE pc'[d] = pc[d] /\ batch'[d] = batch[d] /\ result'[d] = result[d]
  BY <1>1, <1>3 DEF AboutToBeSent, First
<1>4. CASE Mark(d)
  <2>1. PICK y \in batch[d] :
          /\ First(d, y)
          /\ \/ /\ MarkHolds(outbox[y.id])
                /\ \E row \in Marked(d, y, outbox[y.id]) : outbox' = [outbox EXCEPT ![y.id] = row]
             \/ ~MarkHolds(outbox[y.id])
    BY <1>4 DEF Mark
  <2>2. y = x
    BY <1>2, <2>1, OneFirst
  <2>3. MarkHolds(outbox[i])
    BY <1>2 DEF LeaseHeld, Held, MarkHolds
  <2>4. PICK row \in Marked(d, x, outbox[i]) : outbox' = [outbox EXCEPT ![i] = row]
    BY <1>2, <2>1, <2>2, <2>3
  <2>5. outbox[i] \in Row /\ row = [[outbox[i] EXCEPT !.lockedUntil = 0] EXCEPT !.state = "sent"]
    BY <1>1, <2>4, Ids DEF Marked, TypeInv
  <2>6. row.state = "sent"
    BY <2>5 DEF Row
  <2> QED BY <2>4, <2>6
<1>5. ~MarkFails(d) /\ ~Crash(d)
  BY DEF MarkFails, Crash
<1>6. ~Fetch(d) /\ ~FetchNothing(d) /\ ~NextItem(d) /\ ~Send(d) /\ ~Restart(d)
  BY <1>1 DEF Fetch, FetchNothing, NextItem, Send, SendAccepted, SendRefused, SendTimesOut,
              SendPanics, Sending, Restart
<1>7. ASSUME NEW e \in Dispatchers, e # d, Step(e) \/ MarkFails(e) \/ Crash(e)
      PROVE  pc'[d] = pc[d] /\ batch'[d] = batch[d] /\ result'[d] = result[d]
  BY <1>7, OthersKept
<1>8. ASSUME NEW b \in Bookings, Book(b) \/ Confirm(b) \/ Cancel(b)
      PROVE  UNCHANGED <<pc, batch, result>>
  BY <1>8, ChangeRows
<1>9. LateSendEnds \/ Tick \/ UNCHANGED vars => UNCHANGED <<pc, batch, result>>
  BY DEF LateSendEnds, Tick, vars, dispatch
<1> QED BY <1>3, <1>4, <1>5, <1>6, <1>7, <1>8, <1>9 DEF Next, Step

(* No row is claimed again after it was told.                              *)
LEMMA OnceStep ==
  ASSUME TypeInv, BatchesDistinct, LeaseHeld, OneSender, ToldOnce, [Next]_vars
  PROVE  ToldOnce'
<1>1. \A s \in inflight : s.id \in unsure
  BY DEF ToldOnce
<1>2. (\A s \in inflight' : s.id \in unsure') /\ unsure \subseteq unsure'
  BY <1>1, FlyingUnsure
<1> SUFFICES ASSUME faults' = 0, NEW i \in DOMAIN outbox', i \notin unsure'
             PROVE  \/ told'[i] = 0
                    \/ told'[i] = 1 /\ (outbox'[i].state = "sent" \/ AboutToBeSent(i)')
  BY <1>2 DEF ToldOnce
<1>3. faults = 0 /\ ~Fault
  BY FaultFree
<1>4. CASE i \notin DOMAIN outbox
  <2>1. \E b \in Bookings, type \in Types : Enqueue(b, type)
    <3>1. DOMAIN outbox' # DOMAIN outbox
      BY <1>4
    <3>2. ~LateSendEnds /\ ~Tick /\ ~UNCHANGED vars
      BY <3>1, LateType, TickType DEF vars
    <3>3. ASSUME NEW d \in Dispatchers
          PROVE  ~(Step(d) \/ MarkFails(d) \/ Crash(d))
      BY <3>1, FetchType, MarkType, SendType, DieType, RestType DEF Step, Send
    <3> QED BY <3>2, <3>3, ChangeType DEF Next, Book, Confirm, Cancel
  <2> QED BY <1>4, <2>1, Appended DEF TypeInv
<1>5. CASE i \in DOMAIN outbox
  <2>1. \/ told[i] = 0
        \/ told[i] = 1 /\ (outbox[i].state = "sent" \/ AboutToBeSent(i))
    BY <1>2, <1>3, <1>5 DEF ToldOnce
  <2>2. CASE told'[i] = told[i]
    <3>1. outbox[i].state = "sent" => outbox'[i] = outbox[i]
      BY <1>5, SettledKept DEF Settled
    <3>2. AboutToBeSent(i) => outbox'[i].state = "sent" \/ AboutToBeSent(i)'
      BY <1>3, <1>5, AboutStep
    <3> QED BY <2>1, <2>2, <3>1, <3>2
  <2>3. ASSUME NEW d \in Dispatchers, SendAccepted(d), told'[i] = told[i] + 1,
               NEW x \in batch[d], Sending(d, x, "ok"), x.id = i
        PROVE  told'[i] = 1 /\ AboutToBeSent(i)'
    <3>1. outbox[i].state # "sent"
      BY <1>3, <2>3 DEF LeaseHeld, Held
    <3>2. ~AboutToBeSent(i)
      <4> SUFFICES ASSUME NEW e \in Dispatchers, pc[e] = "mark", NEW y \in batch[e], y.id = i
                   PROVE  FALSE
        BY DEF AboutToBeSent
      <4>1. e # d
        BY <2>3 DEF Sending
      <4> QED BY <1>3, <2>3, <4>1 DEF OneSender
    <3>3. told'[i] = 1
      BY <2>1, <2>3, <3>1, <3>2
    <3>4. pc'[d] = "mark" /\ result'[d] = "ok" /\ batch'[d] = batch[d]
      BY <2>3, DispatchTypes DEF SendAccepted, Returns
    <3>5. First(d, x)'
      BY <2>3, <3>4 DEF Sending, First
    <3> QED BY <2>3, <3>3, <3>4, <3>5 DEF AboutToBeSent
  <2> QED BY <1>1, <1>3, <1>5, <2>2, <2>3, ToldBy
<1> QED BY <1>4, <1>5

(* Attempts are counted by a Fetch, and new rows have none.                *)
LEMMA AttemptsBy ==
  ASSUME TypeInv, [Next]_vars, NEW j \in DOMAIN outbox'
  PROVE  \/ j \notin DOMAIN outbox /\ outbox'[j].attempts = 0
         \/ j \in DOMAIN outbox /\ outbox'[j].attempts = outbox[j].attempts
         \/ j \in DOMAIN outbox /\ \E d \in Dispatchers : Fetch(d)
<1>1. ASSUME NEW b \in Bookings, Book(b) \/ Confirm(b) \/ Cancel(b)
      PROVE  \/ j \notin DOMAIN outbox /\ outbox'[j].attempts = 0
             \/ j \in DOMAIN outbox /\ outbox'[j].attempts = outbox[j].attempts
  <2>1. PICK type \in Types : Enqueue(b, type)
    BY <1>1, ChangeType DEF Book, Confirm, Cancel
  <2> QED BY <2>1, Appended DEF TypeInv, NewRow
<1>2. ASSUME NEW d \in Dispatchers, Fetch(d)
      PROVE  j \in DOMAIN outbox
  BY <1>2, FetchType
<1>3. ASSUME NEW d \in Dispatchers, Mark(d)
      PROVE  j \in DOMAIN outbox /\ outbox'[j].attempts = outbox[j].attempts
  BY <1>3, MarkType, MarkRows
<1> QED BY <1>1, <1>2, <1>3, Writers

-----------------------------------------------------------------------------
(* Dispatchers that nobody gets in the way of were so before a step, and   *)
(* a fault is one of the only dispatcher.                                  *)
Alone == \A d, e \in Dispatchers : d = e

(* A calm was one before the step, and one with faults has a single        *)
(* dispatcher.                                                             *)
LEMMA CalmStep ==
  ASSUME TypeInv, [Next]_vars, Calm'
  PROVE  Calm /\ (faults' # 0 => Alone)
<1>1. CASE Cardinality(Dispatchers) = 1
  <2>1. Alone
    BY <1>1, FS_Singleton, OutboxAssumption DEF Alone
  <2> QED BY <1>1, <2>1 DEF Calm
<1>2. CASE faults' = 0
  BY <1>2, FaultFree DEF Calm
<1> QED BY <1>1, <1>2 DEF Calm

(* In a calm a row is in the hands of one dispatcher, and cannot be        *)
(* claimed meanwhile.                                                      *)
LEMMA CalmRows ==
  ASSUME TypeInv, BatchesDistinct, LeaseHeld, OneSender, Calm,
         NEW d \in Dispatchers, NEW e \in Dispatchers, NEW x \in batch[d]
  PROVE  /\ d # e => \A y \in batch[e] : x.id # y.id
         /\ pc[e] = "idle" => d # e /\ x.id \notin DueIds
<1>1. pc[e] = "idle" => d # e
  BY DEF BatchesDistinct
<1>2. CASE faults = 0
  <2>1. x.id \notin DueIds
    BY <1>2, HeldNotDue DEF LeaseHeld
  <2> QED BY <1>1, <1>2, <2>1 DEF OneSender
<1>3. CASE Cardinality(Dispatchers) = 1
  <2>1. d = e
    BY <1>3, FS_Singleton, OutboxAssumption
  <2> QED BY <1>1, <2>1
<1> QED BY <1>2, <1>3 DEF Calm

(* How NewTelegram ended is settled by a start.                            *)
LEMMA StartsBy ==
  ASSUME TypeInv, [Next]_vars
  PROVE  \/ UNCHANGED telegram
         \/ \E d \in Dispatchers : Restart(d)
<1>1. ASSUME NEW b \in Bookings, Book(b) \/ Confirm(b) \/ Cancel(b)
      PROVE  UNCHANGED telegram
  BY <1>1 DEF Book, Confirm, Cancel, Change
<1>2. ASSUME NEW d \in Dispatchers, Fetch(d) \/ FetchNothing(d) \/ NextItem(d) \/ Mark(d) \/ MarkFails(d)
      PROVE  UNCHANGED telegram
  BY <1>2 DEF Fetch, FetchNothing, NextItem, Mark, MarkFails
<1>3. ASSUME NEW d \in Dispatchers, Send(d) \/ Crash(d)
      PROVE  UNCHANGED telegram
  BY <1>3, SendType, DieType DEF Send
<1>4. LateSendEnds \/ Tick \/ UNCHANGED vars => UNCHANGED telegram
  BY DEF LateSendEnds, Tick, vars
<1> QED BY <1>1, <1>2, <1>3, <1>4 DEF Next, Step

(* A process comes up by a start only.                                     *)
LEMMA LiveBy ==
  ASSUME TypeInv, [Next]_vars, NEW d \in Dispatchers, Live(d)', ~Restart(d)
  PROVE  Live(d)
<1>1. CASE \/ Fetch(d) \/ FetchNothing(d) \/ NextItem(d) \/ Send(d) \/ Mark(d)
           \/ MarkFails(d) \/ Crash(d)
  BY <1>1 DEF Fetch, FetchNothing, NextItem, Send, SendAccepted, SendRefused, SendTimesOut,
              SendPanics, Sending, Mark, MarkFails, Crash, Live
<1>2. CASE pc'[d] = pc[d]
  BY <1>2 DEF Live
<1>3. ASSUME NEW e \in Dispatchers, e # d, Step(e) \/ MarkFails(e) \/ Crash(e)
      PROVE  pc'[d] = pc[d]
  BY <1>3, OthersKept
<1>4. ASSUME NEW b \in Bookings, Book(b) \/ Confirm(b) \/ Cancel(b)
      PROVE  pc'[d] = pc[d]
  BY <1>4, ChangeRows
<1>5. LateSendEnds \/ Tick \/ UNCHANGED vars => pc'[d] = pc[d]
  BY DEF LateSendEnds, Tick, vars
<1> QED BY <1>1, <1>2, <1>3, <1>4, <1>5 DEF Next, Step

(* A start that failed was counted as a fault.                             *)
LEMMA FailedStep ==
  ASSUME TypeInv, FailedStarts, [Next]_vars
  PROVE  FailedStarts'
<1>1. faults # 0 => faults' # 0
  BY FaultFree
<1>2. CASE UNCHANGED telegram
  BY <1>1, <1>2 DEF FailedStarts
<1>3. ASSUME NEW e \in Dispatchers, Restart(e), NEW d \in Dispatchers, telegram'[d] = "failed"
      PROVE  faults' # 0
  <2>1. telegram[d] = "failed" \/ Fault
    BY <1>3, DispatchTypes DEF Restart
  <2> QED BY <1>1, <2>1, Faults DEF FailedStarts, TypeInv
<1> QED BY <1>2, <1>3, StartsBy DEF FailedStarts

(* A step that can cost a row an attempt: a fault, or the end of a process *)
(* whose failed start was one.                                             *)
CanPay == Spent' > Spent
SpentGrows == \E s, t \in Nat : s = Spent /\ t = Spent' /\ t >= s /\ (CanPay => t > s)

(* The faults that have cost something never become fewer, and grow with   *)
(* each fault that is not a failed start and with each panic.              *)
LEMMA SpentStep ==
  ASSUME TypeInv, FailedStarts, FailedStarts', Calm', [Next]_vars
  PROVE  /\ SpentGrows
         /\ Fault /\ (\A d \in Dispatchers : ~Restart(d)) => CanPay
         /\ (\E d \in Dispatchers : SendPanics(d)) => CanPay
<1> DEFINE Bad == \E d \in Dispatchers : Live(d) /\ telegram[d] = "failed"
<1>1. PICK f \in Nat : f = faults
  BY DEF TypeInv, TypeOK
<1>2. faults' = f \/ faults' = f + 1
  BY <1>1, FaultsBy DEF Fault
<1>3. PICK g \in Nat : g = faults'
  BY <1>2
<1>4. g = f \/ g = f + 1
  BY <1>3, <1>2
<1>5. Fault => g = f + 1
  BY <1>1, <1>3 DEF Fault
<1>6. PICK m \in {0, 1} : m = IF Bad THEN 1 ELSE 0
  OBVIOUS
<1>7. PICK n \in {0, 1} : n = IF Bad' THEN 1 ELSE 0
  OBVIOUS
<1>8. (g = f \/ g = f + 1) /\ m <= f /\ n <= g
  <2>1. (Bad => f # 0) /\ (Bad' => g # 0)
    BY <1>1, <1>3 DEF FailedStarts
  <2>2. (m = 1 => f # 0) /\ (n = 1 => g # 0)
    BY <1>6, <1>7, <2>1
  <2>3. m <= f /\ n <= g
    BY <2>2
  <2> QED BY <1>4, <2>3
<1>9. PICK s \in Nat : s = f - m
  BY <1>8
<1>10. PICK t \in Nat : t = g - n
  BY <1>8
<1>11. Spent = s
  <2>1. CASE Bad
    <3>1. s = f - 1
      BY <1>6, <1>9, <2>1
    <3> QED BY <1>1, <2>1, <3>1 DEF Spent
  <2>2. CASE ~Bad
    <3>1. m = 0
      BY <1>6, <2>2
    <3>2. s = f
      BY <1>9, <3>1
    <3> QED BY <1>1, <2>2, <3>2 DEF Spent
  <2> QED BY <2>1, <2>2
<1>12. Spent' = t
  <2>1. CASE Bad'
    <3>1. t = g - 1
      BY <1>7, <1>10, <2>1
    <3> QED BY <1>3, <2>1, <3>1 DEF Spent
  <2>2. CASE ~Bad'
    <3>1. n = 0
      BY <1>7, <2>2
    <3>2. t = g
      BY <1>10, <3>1
    <3> QED BY <1>3, <2>2, <3>2 DEF Spent
  <2> QED BY <2>1, <2>2
<1>13. CanPay <=> t > s
  BY <1>11, <1>12 DEF CanPay
<1>14. CASE \A d \in Dispatchers : ~Restart(d)
  <2>1. n <= m
    <3>1. Bad' => Bad
      BY <1>14, LiveBy, StartsBy
    <3>2. n = 1 => m = 1
      BY <1>6, <1>7, <3>1
    <3> QED BY <3>2
  <2>2. t >= s
    BY <1>8, <1>9, <1>10, <2>1
  <2>3. Fault => t > s
    <3>1. g = f + 1 => t > s
      BY <1>9, <1>10, <2>1
    <3> QED BY <1>5, <3>1
  <2>4. ASSUME NEW d \in Dispatchers, SendPanics(d) PROVE t > s
    <3>1. pc[d] = "send" /\ telegram[d] = "failed" /\ UNCHANGED faults
      BY <2>4 DEF SendPanics, Sending, Outcomes
    <3>2. Bad
      BY <3>1 DEF Live
    <3>3. faults' # 0
      BY <3>1 DEF FailedStarts
    <3>4. Alone
      BY <3>3, CalmStep
    <3>5. ~Live(d)'
      BY <2>4, DispatchTypes DEF SendPanics, Die, Live
    <3>6. ~Bad'
      BY <3>4, <3>5 DEF Alone
    <3>7. m = 1 /\ n = 0
      BY <1>6, <1>7, <3>2, <3>6
    <3>8. g = f
      BY <1>1, <1>3, <3>1
    <3> QED BY <1>9, <1>10, <3>7, <3>8
  <2> QED BY <1>11, <1>12, <1>13, <2>2, <2>3, <2>4 DEF SpentGrows
<1>15. ASSUME NEW d \in Dispatchers, Restart(d)
       PROVE  t >= s /\ \A e \in Dispatchers : ~SendPanics(e)
  <2>1. CASE faults' = 0
    <3>1. g = 0
      BY <1>3, <2>1
    <3>2. t >= s /\ f = 0
      BY <1>8, <1>9, <1>10, <3>1
    <3>3. \A e \in Dispatchers : telegram[e] # "failed"
      BY <1>1, <3>2 DEF FailedStarts
    <3>4. \A e \in Dispatchers : ~SendPanics(e)
      BY <3>3 DEF SendPanics, Sending, Outcomes
    <3> QED BY <3>2, <3>4
  <2>2. CASE faults' # 0
    <3>1. Alone /\ ~Live(d)
      BY <1>15, <2>2, CalmStep DEF Restart, Live
    <3>2. ~Bad /\ \A e \in Dispatchers : ~SendPanics(e)
      BY <3>1 DEF Alone, SendPanics, Sending, Live
    <3>3. m = 0
      BY <1>6, <3>2
    <3>4. n = 0 \/ g = f + 1
      <4>1. CASE telegram'[d] = "failed"
        <5>1. Fault
          BY <1>15, <4>1, DispatchTypes DEF Restart
        <5> QED BY <1>5, <5>1
      <4>2. CASE telegram'[d] # "failed"
        <5>1. ~Bad'
          BY <3>1, <4>2 DEF Alone
        <5> QED BY <1>7, <5>1
      <4> QED BY <4>1, <4>2
    <3>5. t >= s
      BY <1>8, <1>9, <1>10, <3>3, <3>4
    <3> QED BY <3>2, <3>5
  <2> QED BY <2>1, <2>2
<1> QED BY <1>11, <1>12, <1>13, <1>14, <1>15 DEF SpentGrows

(* A mark in a calm finds its row as it was claimed.                       *)
LEMMA MarkExact ==
  ASSUME TypeInv, BatchesExact, Calm, NEW d \in Dispatchers, Mark(d)
  PROVE  \E x \in batch[d] :
           /\ First(d, x)
           /\ \A i \in DOMAIN outbox : i # x.id => outbox'[i] = outbox[i]
           /\ outbox'[x.id].attempts = outbox[x.id].attempts
           /\ Settled(outbox'[x.id]) \/ outbox[x.id].attempts < MaxAttempts
           /\ batch' = [batch EXCEPT ![d] = @ \ {x}] \/ Fault
<1>1. PICK x \in batch[d] :
        /\ First(d, x)
        /\ \/ /\ MarkHolds(outbox[x.id])
              /\ \E row \in Marked(d, x, outbox[x.id]) : outbox' = [outbox EXCEPT ![x.id] = row]
              /\ batch' = [batch EXCEPT ![d] = @ \ {x}] \/ Fault
           \/ ~MarkHolds(outbox[x.id])
  BY DEF Mark
<1>2. x.id \in DOMAIN outbox /\ outbox[x.id] \in Row /\ outbox[x.id].attempts \in Nat
  <2>1. x.id \in DOMAIN outbox
    BY SendingItem
  <2> QED BY <2>1, Ids DEF TypeInv, Row
<1>3. outbox[x.id].state = "processing" /\ outbox[x.id].attempts = x.attempts
  BY DEF BatchesExact
<1>4. PICK row \in Marked(d, x, outbox[x.id]) : outbox' = [outbox EXCEPT ![x.id] = row]
  BY <1>1, <1>3 DEF MarkHolds
<1>5. /\ row.attempts = outbox[x.id].attempts
      /\ Settled(row) \/ ~Exhausted(x)
  BY <1>2, <1>4 DEF Marked, Settled, Row
<1>6. ~Exhausted(x) => outbox[x.id].attempts < MaxAttempts
  BY <1>2, <1>3, OutboxAssumption DEF Exhausted
<1>7. outbox'[x.id] = row /\ \A i \in DOMAIN outbox : i # x.id => outbox'[i] = outbox[i]
  BY <1>2, <1>4
<1>8. batch' = [batch EXCEPT ![d] = @ \ {x}] \/ Fault
  BY <1>1, <1>3 DEF MarkHolds
<1> QED BY <1>1, <1>5, <1>6, <1>7, <1>8

(* In a calm a row stays as it was claimed until it leaves its batch.      *)
LEMMA ExactStep ==
  ASSUME TypeInv, BatchesDistinct, LeaseHeld, OneSender, BatchesExact, [Next]_vars
  PROVE  BatchesExact'
<1> SUFFICES ASSUME Calm', NEW d \in Dispatchers, NEW x \in batch'[d]
             PROVE  outbox'[x.id].state = "processing" /\ outbox'[x.id].attempts = x.attempts
  BY DEF BatchesExact
<1>1. Calm
  BY CalmStep
<1>2. CASE x \in batch[d]
  <2>1. x.id \in DOMAIN outbox
    BY <1>2, SendingItem
  <2>2. outbox'[x.id] = outbox[x.id]
    <3>1. ASSUME NEW b \in Bookings, Book(b) \/ Confirm(b) \/ Cancel(b)
          PROVE  outbox'[x.id] = outbox[x.id]
      BY <2>1, <3>1, ChangeRows
    <3>2. ASSUME NEW e \in Dispatchers, Fetch(e)
          PROVE  outbox'[x.id] = outbox[x.id]
      <4>1. x.id \notin DueIds
        BY <1>1, <1>2, <3>2, CalmRows DEF Fetch
      <4> QED BY <2>1, <3>2, <4>1 DEF Fetch, Picked
    <3>3. ASSUME NEW e \in Dispatchers, Mark(e)
          PROVE  outbox'[x.id] = outbox[x.id]
      <4>1. PICK y \in batch[e] :
              /\ \A i \in DOMAIN outbox : i # y.id => outbox'[i] = outbox[i]
              /\ batch' = [batch EXCEPT ![e] = {}] \/ batch' = [batch EXCEPT ![e] = @ \ {y}]
        BY <3>3, MarkRows
      <4>2. CASE e # d
        BY <1>1, <1>2, <2>1, <4>1, <4>2, CalmRows
      <4>3. CASE e = d
        <5>1. x # y
          BY <4>1, <4>3, DispatchTypes
        <5> QED BY <1>2, <2>1, <4>1, <4>3, <5>1 DEF BatchesDistinct
      <4> QED BY <4>2, <4>3
    <3> QED BY <3>1, <3>2, <3>3, Writers
  <2> QED BY <1>1, <1>2, <2>2 DEF BatchesExact
<1>3. CASE x \notin batch[d]
  <2>1. Fetch(d)
    BY <1>3, BatchStep
  <2>2. PICK T \in SUBSET DOMAIN outbox :
          /\ \A i \in T : outbox'[i].attempts = outbox[i].attempts + 1 /\ outbox'[i].state = "processing"
          /\ batch' = [batch EXCEPT ![d] = {Snapshot(i) : i \in T}] \/ UNCHANGED batch
    BY <2>1, FetchRows
  <2>3. batch'[d] = {Snapshot(i) : i \in T}
    BY <1>3, <2>2, DispatchTypes
  <2> QED BY <2>2, <2>3 DEF Snapshot
<1> QED BY <1>2, <1>3

(* What a step may do to a row in a calm: leave it, mark it after an       *)
(* attempt that was not the last, settle it, or claim it.                  *)
RowLeft(i) ==
  /\ outbox'[i].attempts = outbox[i].attempts
  /\ Settled(outbox'[i]) = Settled(outbox[i])
  /\ InHand(i) => InHand(i)' \/ CanPay
RowMarked(i) ==
  /\ InHand(i)
  /\ outbox'[i].attempts = outbox[i].attempts
  /\ Settled(outbox'[i]) \/ outbox[i].attempts < MaxAttempts
RowClaimed(i) ==
  /\ ~Settled(outbox[i]) /\ ~InHand(i)
  /\ outbox'[i].attempts = outbox[i].attempts + 1
  /\ InHand(i)' \/ CanPay

(* A claim finds a row that nobody has in hand.                            *)
LEMMA FetchCalm ==
  ASSUME TypeInv, BatchesDistinct, LeaseHeld, OneSender, Calm,
         NEW e \in Dispatchers, Fetch(e), Fault => CanPay, NEW i \in DOMAIN outbox
  PROVE  RowLeft(i) \/ RowClaimed(i)
<1>1. PICK T \in SUBSET DueIds :
        /\ outbox' = [j \in DOMAIN outbox |-> IF j \in T THEN Claimed(outbox[j]) ELSE outbox[j]]
        /\ \/ batch' = [batch EXCEPT ![e] = {Snapshot(j) : j \in T}]
           \/ Fault /\ UNCHANGED batch
  BY DEF Fetch, Picked
<1>2. \A d \in Dispatchers : \A x \in batch[d] : d # e /\ x.id \notin DueIds
  BY CalmRows DEF Fetch
<1>3. CASE i \in T
  <2>1. outbox[i] \in Row
    BY Ids DEF TypeInv
  <2>2. outbox'[i].attempts = outbox[i].attempts + 1 /\ ~Settled(outbox[i])
    BY <1>1, <1>3, <2>1 DEF Claimed, Row, DueIds, Due, Settled
  <2>3. ~InHand(i)
    BY <1>2, <1>3 DEF InHand
  <2>4. InHand(i)' \/ CanPay
    <3>1. CASE Fault
      BY <3>1
    <3>2. CASE batch' = [batch EXCEPT ![e] = {Snapshot(j) : j \in T}]
      <4>1. Snapshot(i) \in batch'[e] /\ Snapshot(i).id = i
        BY <1>3, <3>2, DispatchTypes DEF Snapshot
      <4> QED BY <4>1 DEF InHand
    <3> QED BY <1>1, <3>1, <3>2
  <2> QED BY <2>2, <2>3, <2>4 DEF RowClaimed
<1>4. CASE i \notin T
  <2>1. outbox'[i] = outbox[i]
    BY <1>1, <1>4
  <2>2. \A d \in Dispatchers : d # e => batch'[d] = batch[d]
    BY <1>1, DispatchTypes
  <2>3. InHand(i) => InHand(i)'
    BY <1>2, <2>2 DEF InHand
  <2> QED BY <2>1, <2>3 DEF RowLeft
<1> QED BY <1>3, <1>4

(* A mark rewrites the row it is of.                                       *)
LEMMA MarkCalm ==
  ASSUME TypeInv, BatchesExact, Calm,
         NEW e \in Dispatchers, Mark(e), Fault => CanPay, NEW i \in DOMAIN outbox
  PROVE  RowLeft(i) \/ RowMarked(i)
<1>1. PICK x \in batch[e] :
        /\ \A j \in DOMAIN outbox : j # x.id => outbox'[j] = outbox[j]
        /\ outbox'[x.id].attempts = outbox[x.id].attempts
        /\ Settled(outbox'[x.id]) \/ outbox[x.id].attempts < MaxAttempts
        /\ batch' = [batch EXCEPT ![e] = @ \ {x}] \/ Fault
  BY MarkExact
<1>2. CASE i = x.id
  BY <1>1, <1>2 DEF RowMarked, InHand
<1>3. CASE i # x.id
  <2>1. ASSUME NEW d \in Dispatchers, NEW y \in batch[d], y.id = i, ~Fault
        PROVE  y \in batch'[d]
    BY <1>1, <1>3, <2>1, DispatchTypes
  <2>2. InHand(i) => InHand(i)' \/ CanPay
    BY <2>1 DEF InHand
  <2>3. outbox'[i] = outbox[i]
    BY <1>1, <1>3
  <2> QED BY <2>2, <2>3 DEF RowLeft
<1> QED BY <1>2, <1>3

(* A row leaves a batch by its mark, or it costs a fault.                  *)
LEMMA RowsCalm ==
  ASSUME TypeInv, BatchesDistinct, LeaseHeld, OneSender, BatchesExact, FailedStarts, FailedStarts',
         Calm', [Next]_vars, NEW i \in DOMAIN outbox
  PROVE  RowLeft(i) \/ RowMarked(i) \/ RowClaimed(i)
<1>1. Calm
  BY CalmStep
<1>2. ASSUME NEW e \in Dispatchers, Fetch(e) \/ Mark(e) \/ MarkFails(e) \/ Crash(e), Fault
      PROVE  CanPay
  <2>1. ASSUME NEW d \in Dispatchers, Restart(d)
        PROVE  FALSE
    <3>1. Alone
      BY <1>2, CalmStep, Faults DEF TypeInv
    <3> QED BY <1>2, <2>1, <3>1 DEF Alone, Fetch, Mark, MarkFails, Crash, Restart
  <2> QED BY <1>2, <2>1, SpentStep
<1>3. ASSUME NEW e \in Dispatchers, Fetch(e)
      PROVE  RowLeft(i) \/ RowClaimed(i)
  BY <1>1, <1>2, <1>3, FetchCalm
<1>4. ASSUME NEW e \in Dispatchers, Mark(e)
      PROVE  RowLeft(i) \/ RowMarked(i)
  BY <1>1, <1>2, <1>4, MarkCalm
<1>5. ASSUME NEW e \in Dispatchers, MarkFails(e) \/ Crash(e) \/ SendPanics(e)
      PROVE  RowLeft(i)
  <2>1. UNCHANGED outbox
    BY <1>5, DieType, RestType
  <2>2. CanPay
    <3>1. CASE SendPanics(e)
      BY <3>1, SpentStep
    <3>2. CASE MarkFails(e) \/ Crash(e)
      BY <1>2, <3>2 DEF MarkFails, Crash
    <3> QED BY <1>5, <3>1, <3>2
  <2> QED BY <2>1, <2>2 DEF RowLeft
<1>6. ASSUME UNCHANGED batch, outbox'[i] = outbox[i]
      PROVE  RowLeft(i)
  BY <1>6 DEF RowLeft, InHand
<1>7. ASSUME NEW b \in Bookings, Book(b) \/ Confirm(b) \/ Cancel(b)
      PROVE  UNCHANGED batch /\ outbox'[i] = outbox[i]
  BY <1>7, ChangeRows
<1>8. ASSUME NEW e \in Dispatchers, FetchNothing(e) \/ NextItem(e) \/ Restart(e)
      PROVE  UNCHANGED batch /\ UNCHANGED outbox
  BY <1>8 DEF FetchNothing, NextItem, Restart, dispatch
<1>9. ASSUME NEW e \in Dispatchers, SendAccepted(e) \/ SendRefused(e) \/ SendTimesOut(e)
      PROVE  UNCHANGED batch /\ UNCHANGED outbox
  BY <1>9, SendType
<1>10. LateSendEnds \/ Tick \/ UNCHANGED vars => UNCHANGED batch /\ UNCHANGED outbox
  BY DEF LateSendEnds, Tick, vars, dispatch
<1> QED BY <1>3, <1>4, <1>5, <1>6, <1>7, <1>8, <1>9, <1>10 DEF Next, Step, Send

(* What a row's attempts, its claim to another one and the faults come to. *)
LEMMA Budget ==
  ASSUME NEW M \in Nat, NEW a \in Nat, NEW b \in Nat, NEW s \in Nat, NEW t \in Nat, t >= s,
         NEW open \in {0, 1}, NEW then \in {0, 1}, a + open <= M + s,
         \/ b = a /\ (then <= open \/ t > s)
         \/ b = a /\ (then = 0 \/ a < M)
         \/ b = a + 1 /\ open = 1 /\ (then = 0 \/ t > s)
  PROVE  b + then <= M + t
OBVIOUS

(* A row that may be claimed again has an attempt left.                    *)
LEMMA LeftStep ==
  ASSUME TypeInv, TypeInv', BatchesDistinct, LeaseHeld, OneSender, BatchesExact, FailedStarts,
         FailedStarts', AttemptsLeft, [Next]_vars
  PROVE  AttemptsLeft'
<1> SUFFICES ASSUME Calm', NEW i \in DOMAIN outbox'
             PROVE  outbox'[i].attempts + (IF Settled(outbox'[i]) \/ InHand(i)' THEN 0 ELSE 1)
                      <= MaxAttempts + Spent'
  BY DEF AttemptsLeft
<1> DEFINE Open == IF Settled(outbox[i]) \/ InHand(i) THEN 0 ELSE 1
           Then == IF Settled(outbox'[i]) \/ InHand(i)' THEN 0 ELSE 1
<1>1. SpentGrows
  BY SpentStep
<1>2. PICK s, t \in Nat : s = Spent /\ t = Spent' /\ t >= s /\ (CanPay => t > s)
  BY <1>1 DEF SpentGrows
<1>3. MaxAttempts \in Nat /\ MaxAttempts > 0
  BY OutboxAssumption
<1>4. PICK b \in Nat : b = outbox'[i].attempts
  <2>1. outbox' \in Seq(Row)
    BY DEF TypeInv, TypeOK
  <2>2. outbox'[i] \in Row
    BY <2>1, ElementOfSeq, LenProperties
  <2> QED BY <2>2 DEF Row
<1>5. PICK then \in {0, 1} : then = Then
  OBVIOUS
<1>6. CASE i \notin DOMAIN outbox
  <2>1. b = 0
    <3>1. \A d \in Dispatchers : ~Fetch(d) \/ DOMAIN outbox' = DOMAIN outbox
      BY FetchType
    <3> QED BY <1>4, <1>6, <3>1, AttemptsBy
  <2>2. b + then <= MaxAttempts + t
    BY <1>3, <2>1
  <2> QED BY <1>2, <1>4, <1>5, <2>2
<1>7. CASE i \in DOMAIN outbox
  <2>1. PICK a \in Nat : a = outbox[i].attempts
    BY <1>7, Ids DEF TypeInv, Row
  <2>2. PICK open \in {0, 1} : open = Open
    OBVIOUS
  <2>3. a + open <= MaxAttempts + s
    BY <1>2, <1>7, <2>1, <2>2, CalmStep DEF AttemptsLeft
  <2>4. RowLeft(i) => b = a /\ (then <= open \/ t > s)
    BY <1>2, <1>4, <1>5, <2>1, <2>2 DEF RowLeft
  <2>5. RowMarked(i) => b = a /\ (then = 0 \/ a < MaxAttempts)
    BY <1>4, <1>5, <2>1 DEF RowMarked
  <2>6. RowClaimed(i) => b = a + 1 /\ open = 1 /\ (then = 0 \/ t > s)
    BY <1>2, <1>4, <1>5, <2>1, <2>2 DEF RowClaimed
  <2>7. RowLeft(i) \/ RowMarked(i) \/ RowClaimed(i)
    BY <1>7, RowsCalm
  <2>8. \/ b = a /\ (then <= open \/ t > s)
        \/ b = a /\ (then = 0 \/ a < MaxAttempts)
        \/ b = a + 1 /\ open = 1 /\ (then = 0 \/ t > s)
    BY <2>4, <2>5, <2>6, <2>7
  <2>9. t >= s
    BY <1>2
  <2>10. b + then <= MaxAttempts + t
    BY <1>3, <2>3, <2>8, <2>9, Budget
  <2> QED BY <1>2, <1>4, <1>5, <2>10
<1> QED BY <1>6, <1>7

-----------------------------------------------------------------------------
(* No two dispatchers hold the same claim: a claim counts one attempt more *)
(* than each one before it.                                                *)
LEMMA ClaimsStep ==
  ASSUME TypeInv, BatchesKnown, ClaimsDistinct, [Next]_vars
  PROVE  ClaimsDistinct'
<1> SUFFICES ASSUME NEW d \in Dispatchers, NEW e \in Dispatchers,
                    NEW x \in batch'[d], NEW y \in batch'[e],
                    x.id = y.id, x.attempts = y.attempts
             PROVE  d = e
  BY DEF ClaimsDistinct
<1>1. ASSUME NEW p \in Dispatchers, NEW q \in Dispatchers, p # q,
             NEW v \in batch'[p], NEW w \in batch'[q], v.id = w.id, v \notin batch[p]
      PROVE  v.attempts # w.attempts
  <2>1. Fetch(p) /\ \E i \in DOMAIN outbox : v = Snapshot(i)
    BY <1>1, BatchStep
  <2>2. PICK i \in DOMAIN outbox : v = Snapshot(i)
    BY <2>1
  <2>3. w \in batch[q]
    BY <1>1, <2>1, OthersKept DEF Step
  <2>4. v.id = i /\ v.attempts = outbox[i].attempts + 1
    BY <2>2 DEF Snapshot
  <2>5. w.attempts \in Nat /\ w.attempts <= outbox[i].attempts
    BY <1>1, <2>3, <2>4, SendingItem DEF BatchesKnown, Item
  <2>6. outbox[i].attempts \in Nat
    BY Ids DEF TypeInv, Row
  <2> QED BY <2>4, <2>5, <2>6
<1>2. CASE x \in batch[d] /\ y \in batch[e]
  BY <1>2 DEF ClaimsDistinct
<1>3. CASE x \notin batch[d] \/ y \notin batch[e]
  BY <1>1, <1>3
<1> QED BY <1>2, <1>3

(* A row is sent once at least before it is given up.                      *)
LEMMA MaxPositive == MaxAttempts \in Nat /\ MaxAttempts > 0 /\ MaxAttempts - 1 \in Nat
<1>1. MaxAttempts \in Nat \ {0}
  BY OutboxAssumption
<1> QED BY <1>1

(* Fewer claims that may be retried.                                       *)
LEMMA FewerRetries ==
  ASSUME NEW S \in SUBSET (1..(MaxAttempts - 1)), NEW T \in SUBSET S
  PROVE  /\ Cardinality(S) \in Nat /\ Cardinality(T) \in Nat
         /\ Cardinality(T) <= Cardinality(S)
         /\ T # S => Cardinality(T) < Cardinality(S)
<1>1. IsFiniteSet(1..(MaxAttempts - 1))
  <2>1. 1 \in Int /\ MaxAttempts - 1 \in Int
    BY MaxPositive
  <2> QED BY <2>1, FS_Interval
<1>2. IsFiniteSet(S)
  BY <1>1, FS_Subset
<1>3. IsFiniteSet(T) /\ Cardinality(T) <= Cardinality(S) /\ (Cardinality(S) = Cardinality(T) => S = T)
  BY <1>2, FS_Subset
<1>4. Cardinality(S) \in Nat /\ Cardinality(T) \in Nat
  BY <1>2, <1>3, FS_CardinalityType
<1> QED BY <1>3, <1>4

(* The attempts of a row are counted up, by Fetch.                         *)
LEMMA AttemptsGrow ==
  ASSUME TypeInv, [Next]_vars, NEW i \in DOMAIN outbox
  PROVE  /\ i \in DOMAIN outbox'
         /\ outbox[i].attempts \in Nat /\ outbox'[i].attempts \in Nat
         /\ outbox'[i].attempts >= outbox[i].attempts
<1>1. i \in DOMAIN outbox'
  <2>1. ASSUME NEW b \in Bookings, Book(b) \/ Confirm(b) \/ Cancel(b)
        PROVE  DOMAIN outbox \subseteq DOMAIN outbox'
    <3>1. PICK type \in Types : Enqueue(b, type)
      BY <2>1, ChangeType DEF Book, Confirm, Cancel
    <3> QED BY <3>1, Appended DEF TypeInv
  <2> QED BY <2>1, FetchType, MarkType, Writers
<1>2. outbox[i].attempts \in Nat
  BY Ids DEF TypeInv, Row
<1>3. ASSUME NEW d \in Dispatchers, Fetch(d)
      PROVE  outbox'[i].attempts \in {outbox[i].attempts, outbox[i].attempts + 1}
  BY <1>3, FetchRows
<1>4. outbox'[i].attempts \in {outbox[i].attempts, outbox[i].attempts + 1}
  BY <1>1, <1>3, AttemptsBy
<1> QED BY <1>1, <1>2, <1>4

(* No step adds to the claims of a row that may be retried.                *)
LEMMA RetriesShrink ==
  ASSUME TypeInv, [Next]_vars, NEW i \in DOMAIN outbox
  PROVE  Retries(i)' \subseteq Retries(i)
<1> SUFFICES ASSUME NEW n \in Retries(i)'
             PROVE  n \in Retries(i)
  OBVIOUS
<1>1. /\ n \in 1..(MaxAttempts - 1)
      /\ \/ n > outbox'[i].attempts
         \/ \E d \in Dispatchers : \E x \in batch'[d] : x.id = i /\ x.attempts = n
  BY DEF Retries
<1>2. n \in Nat
  BY <1>1, OutboxAssumption
<1>3. CASE n > outbox'[i].attempts
  <2>1. n > outbox[i].attempts
    BY <1>2, <1>3, AttemptsGrow
  <2> QED BY <1>1, <2>1 DEF Retries
<1>4. ASSUME NEW d \in Dispatchers, NEW x \in batch'[d], x.id = i, x.attempts = n
      PROVE  n \in Retries(i)
  <2>1. CASE x \in batch[d]
    BY <1>1, <1>4, <2>1 DEF Retries
  <2>2. CASE x \notin batch[d]
    <3>1. PICK j \in DOMAIN outbox : x = Snapshot(j)
      BY <2>2, BatchStep
    <3>2. j = i /\ n = outbox[i].attempts + 1
      BY <1>4, <3>1 DEF Snapshot
    <3>3. n > outbox[i].attempts
      BY <1>2, <3>2, AttemptsGrow
    <3> QED BY <1>1, <3>3 DEF Retries
  <2> QED BY <2>1, <2>2
<1> QED BY <1>1, <1>3, <1>4

(* What a step makes of a row that was there: nothing that a claim of it   *)
(* counts, one claim more of a row that waits or whose lease had ended, or *)
(* the row is given back for a claim that cannot give it back again.       *)
RowStays(i) ==
  /\ outbox'[i].attempts = outbox[i].attempts /\ lapsed'[i] = lapsed[i]
  /\ outbox'[i].state = "pending" => outbox[i].state = "pending"
RowTaken(i) ==
  /\ outbox'[i].attempts = outbox[i].attempts + 1 /\ outbox'[i].state = "processing"
  /\ \/ outbox[i].state = "pending" /\ lapsed'[i] = lapsed[i]
     \/ outbox[i].state = "processing" /\ lapsed'[i] = lapsed[i] + 1
RowGivenBack(i) ==
  /\ outbox'[i].attempts = outbox[i].attempts /\ lapsed'[i] = lapsed[i]
  /\ outbox[i].state = "processing"
  /\ Retries(i)' # Retries(i)

(* A claim of a row in a lease is one of a lease that has ended.           *)
LEMMA FetchTakes ==
  ASSUME TypeInv, NEW d \in Dispatchers, Fetch(d), NEW i \in DOMAIN outbox
  PROVE  RowStays(i) \/ RowTaken(i)
<1>1. PICK T \in SUBSET DueIds :
        /\ outbox' = [j \in DOMAIN outbox |-> IF j \in T THEN Claimed(outbox[j]) ELSE outbox[j]]
        /\ lapsed' = [j \in DOMAIN outbox |->
             IF j \in T /\ outbox[j].state = "processing" THEN lapsed[j] + 1 ELSE lapsed[j]]
  BY DEF Fetch, Picked
<1>2. CASE i \in T
  <2>1. outbox[i] \in Row
    BY Ids DEF TypeInv
  <2>2. outbox'[i] = Claimed(outbox[i]) /\ Due(outbox[i])
    BY <1>1, <1>2 DEF DueIds
  <2>3. outbox'[i].attempts = outbox[i].attempts + 1 /\ outbox'[i].state = "processing"
    BY <2>1, <2>2 DEF Claimed, Row
  <2>4. lapsed'[i] = IF outbox[i].state = "processing" THEN lapsed[i] + 1 ELSE lapsed[i]
    BY <1>1, <1>2
  <2>5. outbox[i].state \in {"pending", "processing"}
    BY <2>2 DEF Due
  <2> QED BY <2>3, <2>4, <2>5 DEF RowTaken
<1>3. CASE i \notin T
  BY <1>1, <1>3 DEF RowStays
<1> QED BY <1>2, <1>3

(* The claim that a mark gives the row back for was below the maximum, and *)
(* nobody else holds it.                                                   *)
LEMMA MarkGivesBack ==
  ASSUME TypeInv, BatchesKnown, BatchesDistinct, ClaimsDistinct,
         NEW d \in Dispatchers, Mark(d), NEW i \in DOMAIN outbox
  PROVE  RowStays(i) \/ RowGivenBack(i)
<1>1. PICK x \in batch[d] :
        /\ First(d, x)
        /\ \/ /\ MarkHolds(outbox[x.id])
              /\ \E row \in Marked(d, x, outbox[x.id]) : outbox' = [outbox EXCEPT ![x.id] = row]
              /\ batch' = [batch EXCEPT ![d] = @ \ {x}] \/ batch' = [batch EXCEPT ![d] = {}]
           \/ UNCHANGED outbox
  BY DEF Mark, Abandon
<1>2. UNCHANGED lapsed
  BY DEF Mark, history
<1>3. CASE UNCHANGED outbox \/ i # x.id
  BY <1>1, <1>2, <1>3 DEF RowStays
<1>4. CASE ~UNCHANGED outbox /\ i = x.id
  <2>1. PICK row \in Marked(d, x, outbox[i]) : outbox' = [outbox EXCEPT ![i] = row]
    BY <1>1, <1>4
  <2>2. /\ outbox[i].state = "processing"
        /\ batch' = [batch EXCEPT ![d] = @ \ {x}] \/ batch' = [batch EXCEPT ![d] = {}]
    BY <1>1, <1>4 DEF MarkHolds
  <2>3. x \in Item /\ outbox[i] \in Row
    BY SendingItem, Ids DEF TypeInv
  <2>4. outbox'[i] = row /\ row.attempts = outbox[i].attempts
    BY <2>1, <2>3, MarkedType DEF TypeInv
  <2>5. CASE row.state # "pending"
    BY <1>2, <2>4, <2>5 DEF RowStays
  <2>6. CASE row.state = "pending"
    <3>1. ~Exhausted(x)
      <4> SUFFICES ASSUME Exhausted(x)
                   PROVE  FALSE
        OBVIOUS
      <4> DEFINE free == [outbox[i] EXCEPT !.lockedUntil = 0]
      <4>1. row = [free EXCEPT !.state = "sent"] \/ row = [free EXCEPT !.state = "failed"]
        BY <2>1 DEF Marked
      <4>2. free \in Row
        BY <2>3 DEF Row
      <4> HIDE DEF free
      <4> QED BY <2>6, <4>1, <4>2 DEF Row
    <3>2. x.attempts \in 1..(MaxAttempts - 1)
      BY <2>3, <3>1, MaxPositive DEF Exhausted, Item
    <3>3. x.attempts \in Retries(i)
      BY <1>4, <3>2 DEF Retries
    <3>4. x.attempts <= outbox'[i].attempts /\ x.attempts \in Nat /\ outbox'[i].attempts \in Nat
      BY <1>4, <2>3, <2>4 DEF BatchesKnown, Item, Row
    <3>5. ASSUME NEW e \in Dispatchers, NEW y \in batch'[e], y.id = i, y.attempts = x.attempts
          PROVE  FALSE
      <4>1. y \in batch[e]
        BY <2>2, DispatchTypes
      <4>2. e = d
        BY <1>4, <3>5, <4>1 DEF ClaimsDistinct
      <4>3. y = x
        BY <1>4, <3>5, <4>1, <4>2 DEF BatchesDistinct
      <4> QED BY <2>2, <4>2, <4>3, DispatchTypes
    <3>6. x.attempts \notin Retries(i)'
      BY <3>4, <3>5 DEF Retries
    <3> QED BY <1>2, <2>2, <2>4, <3>3, <3>6 DEF RowGivenBack
  <2> QED BY <2>5, <2>6
<1> QED BY <1>3, <1>4

(* Each step is one of the three for each row.                             *)
LEMMA RowsRetried ==
  ASSUME TypeInv, BatchesKnown, BatchesDistinct, ClaimsDistinct, [Next]_vars,
         NEW i \in DOMAIN outbox
  PROVE  RowStays(i) \/ RowTaken(i) \/ RowGivenBack(i)
<1>1. outbox'[i] = outbox[i] /\ lapsed'[i] = lapsed[i] => RowStays(i)
  BY DEF RowStays
<1>2. ASSUME NEW b \in Bookings, Book(b) \/ Confirm(b) \/ Cancel(b)
      PROVE  outbox'[i] = outbox[i] /\ lapsed'[i] = lapsed[i]
  <2>1. PICK type \in Types : Enqueue(b, type)
    BY <1>2, ChangeType DEF Book, Confirm, Cancel
  <2> QED BY <2>1, Appended DEF TypeInv
<1>3. ASSUME NEW d \in Dispatchers, SendAccepted(d) \/ SendRefused(d) \/ SendTimesOut(d)
      PROVE  UNCHANGED <<outbox, lapsed>>
  BY <1>3, SendType
<1>4. ASSUME NEW d \in Dispatchers, SendPanics(d) \/ Crash(d)
      PROVE  UNCHANGED <<outbox, lapsed>>
  BY <1>4, DieType
<1>5. ASSUME NEW d \in Dispatchers, FetchNothing(d) \/ NextItem(d) \/ MarkFails(d) \/ Restart(d)
      PROVE  UNCHANGED <<outbox, lapsed>>
  BY <1>5 DEF FetchNothing, NextItem, MarkFails, Restart, history
<1>6. LateSendEnds \/ Tick \/ UNCHANGED vars => UNCHANGED <<outbox, lapsed>>
  BY DEF LateSendEnds, Tick, vars, history
<1> QED BY <1>1, <1>2, <1>3, <1>4, <1>5, <1>6, FetchTakes, MarkGivesBack DEF Next, Step, Send

(* A row that a booking's change appends has all its attempts to come.     *)
LEMMA NewRetries ==
  ASSUME TypeInv, TypeInv', [Next]_vars, NEW i \in DOMAIN outbox' \ DOMAIN outbox
  PROVE  outbox'[i].attempts = 0 /\ lapsed'[i] = 0 /\ Cardinality(Retries(i)') <= MaxAttempts - 1
<1>1. PICK b \in Bookings : Book(b) \/ Confirm(b) \/ Cancel(b)
  BY FetchType, MarkType, Writers
<1>2. PICK type \in Types : Enqueue(b, type)
  BY <1>1, ChangeType DEF Book, Confirm, Cancel
<1>3. outbox'[i].attempts = 0 /\ lapsed'[i] = 0
  BY <1>2, Appended DEF TypeInv, NewRow
<1>4. Cardinality(1..(MaxAttempts - 1)) = MaxAttempts - 1
  <2>1. PICK n \in Nat : n = MaxAttempts - 1
    BY MaxPositive
  <2>2. 1 \in Int /\ n \in Int
    BY <2>1
  <2>3. Cardinality(1..n) = IF 1 > n THEN 0 ELSE n - 1 + 1
    BY <2>2, FS_Interval
  <2> QED BY <2>1, <2>3
<1>5. Retries(i)' \in SUBSET (1..(MaxAttempts - 1))
  BY DEF Retries
<1>6. Cardinality(Retries(i)') <= MaxAttempts - 1
  BY <1>4, <1>5, FewerRetries
<1> QED BY <1>3, <1>6

(* What a row's attempts, its next claim and its retries come to.          *)
LEMMA RetryBudget ==
  ASSUME NEW M \in Nat, NEW a \in Nat, NEW b \in Nat, NEW l \in Nat, NEW m \in Nat,
         NEW r \in Nat, NEW s \in Nat, NEW open \in {0, 1}, NEW then \in {0, 1},
         a + open + r <= M + l, s <= r,
         \/ b = a /\ m = l /\ then <= open
         \/ b = a + 1 /\ then = 0 /\ ((open = 1 /\ m = l) \/ (open = 0 /\ m = l + 1))
         \/ b = a /\ m = l /\ s < r
  PROVE  b + then + s <= M + m
OBVIOUS

(* A row's claims beyond its maximum are of leases that had ended.         *)
LEMMA RetriesStep ==
  ASSUME TypeInv, TypeInv', BatchesKnown, BatchesDistinct, ClaimsDistinct, RetriesCover,
         [Next]_vars
  PROVE  RetriesCover'
<1> SUFFICES ASSUME NEW i \in DOMAIN outbox'
             PROVE  outbox'[i].attempts + (IF outbox'[i].state = "pending" THEN 1 ELSE 0)
                      + Cardinality(Retries(i)') <= MaxAttempts + lapsed'[i]
  BY DEF RetriesCover
<1> DEFINE Open == IF outbox[i].state = "pending" THEN 1 ELSE 0
           Then == IF outbox'[i].state = "pending" THEN 1 ELSE 0
<1>1. MaxAttempts \in Nat /\ MaxAttempts > 0
  BY MaxPositive
<1>2. /\ Retries(i) \in SUBSET (1..(MaxAttempts - 1))
      /\ Retries(i)' \in SUBSET (1..(MaxAttempts - 1))
  BY DEF Retries
<1>3. PICK s \in Nat : s = Cardinality(Retries(i)')
  BY <1>2, FewerRetries
<1>4. PICK then \in {0, 1} : then = Then
  OBVIOUS
<1>5. CASE i \notin DOMAIN outbox
  <2>1. outbox'[i].attempts = 0 /\ lapsed'[i] = 0 /\ s <= MaxAttempts - 1
    BY <1>3, <1>5, NewRetries
  <2> QED BY <1>1, <1>3, <1>4, <2>1
<1>6. CASE i \in DOMAIN outbox
  <2>1. PICK a, b \in Nat : a = outbox[i].attempts /\ b = outbox'[i].attempts
    BY <1>6, AttemptsGrow
  <2>2. PICK l, m \in Nat : l = lapsed[i] /\ m = lapsed'[i]
    BY <1>6 DEF TypeInv, TypeOK
  <2>3. PICK open \in {0, 1} : open = Open
    OBVIOUS
  <2>4. PICK r \in Nat : r = Cardinality(Retries(i))
    BY <1>2, FewerRetries
  <2>5. a + open + r <= MaxAttempts + l
    BY <1>6, <2>1, <2>2, <2>3, <2>4 DEF RetriesCover
  <2>6. s <= r /\ (Retries(i)' # Retries(i) => s < r)
    <3>1. Retries(i)' \in SUBSET Retries(i)
      BY <1>6, RetriesShrink
    <3> QED BY <1>2, <1>3, <2>4, <3>1, FewerRetries
  <2>7. RowStays(i) => b = a /\ m = l /\ then <= open
    BY <1>4, <2>1, <2>2, <2>3 DEF RowStays
  <2>8. RowTaken(i) => b = a + 1 /\ then = 0 /\ ((open = 1 /\ m = l) \/ (open = 0 /\ m = l + 1))
    BY <1>4, <2>1, <2>2, <2>3 DEF RowTaken
  <2>9. RowGivenBack(i) => b = a /\ m = l /\ s < r
    BY <2>1, <2>2, <2>6 DEF RowGivenBack
  <2>10. \/ b = a /\ m = l /\ then <= open
         \/ b = a + 1 /\ then = 0 /\ ((open = 1 /\ m = l) \/ (open = 0 /\ m = l + 1))
         \/ b = a /\ m = l /\ s < r
    BY <1>6, <2>7, <2>8, <2>9, RowsRetried
  <2>11. b + then + s <= MaxAttempts + m
    BY <1>1, <2>5, <2>6, <2>10, RetryBudget
  <2> QED BY <1>3, <1>4, <2>1, <2>2, <2>11
<1> QED BY <1>5, <1>6

(* Every reachable state satisfies IInv, which adds to the lease what the  *)
(* acceptances of a row owe to its claims, and its claims to the faults.   *)
THEOREM OutboxInvariance == Spec => []IInv
<1> DEFINE Claims == ClaimsDistinct /\ RetriesCover
<1>1. Init => ClaimsCover /\ ToldOnce /\ AttemptsInv /\ Claims
  <2>1. Init => inflight = {} /\ DOMAIN outbox = {}
    BY EmptySeq DEF Init
  <2>2. Init => AttemptsInv
    BY <2>1 DEF Init, AttemptsInv, FailedStarts, BatchesExact, AttemptsLeft
  <2>3. Init => Claims
    BY <2>1 DEF Init, ClaimsDistinct, RetriesCover
  <2> QED BY <2>1, <2>2, <2>3, FS_EmptySet DEF ClaimsCover, ToldOnce
<1>2. LeaseInv /\ LeaseInv' /\ ClaimsCover /\ ToldOnce /\ AttemptsInv /\ Claims /\ [Next]_vars
        => (ClaimsCover /\ ToldOnce /\ AttemptsInv /\ Claims)'
  <2>1. LeaseInv => TypeInv /\ BatchesKnown /\ BatchesDistinct /\ LeaseHeld /\ OneSender
    BY DEF LeaseInv, TruthInv, TypeInv, Known, BatchesKnown
  <2>2. LeaseInv' => TypeInv'
    BY DEF LeaseInv, TruthInv, TypeInv, Known, BatchesKnown
  <2>3. LeaseInv /\ LeaseInv' /\ Claims /\ [Next]_vars => Claims'
    BY <2>1, <2>2, ClaimsStep, RetriesStep
  <2> QED BY <2>1, <2>2, <2>3, CoverStep, OnceStep, FailedStep, ExactStep, LeftStep DEF AttemptsInv
<1>3. LeaseInv /\ ClaimsCover /\ ToldOnce /\ AttemptsInv /\ Claims => IInv
  BY DEF IInv
<1> QED BY <1>1, <1>2, <1>3, LeaseInvariance, PTL DEF Spec

(* The claims of a row bound its acceptances.                              *)
LEMMA CoveredRows == IInv => RepeatedOnlyAfterTrouble
<1> SUFFICES ASSUME IInv, NEW i \in DOMAIN outbox
             PROVE  /\ told[i] <= outbox[i].attempts
                    /\ told[i] > 1 => faults > 0 \/ i \in unsure
  BY DEF RepeatedOnlyAfterTrouble
<1>1. /\ told[i] \in Nat /\ outbox[i].attempts \in Nat /\ faults \in Nat
      /\ TypeInv /\ IsFiniteSet(inflight)
  <2>1. TypeInv /\ IsFiniteSet(inflight)
    BY DEF IInv, LeaseInv, TruthInv, TypeInv, Known, BatchesKnown, ClaimsCover
  <2> QED BY <2>1, Ids DEF TypeInv, TypeOK, Row
<1>2. Cardinality(Owing(i)) \in Nat /\ Cardinality(Flying(i)) \in Nat
  BY <1>1, CountedSets, FS_CardinalityType
<1>3. told[i] <= outbox[i].attempts
  BY <1>1, <1>2 DEF IInv, ClaimsCover
<1>4. faults = 0 /\ i \notin unsure => told[i] <= 1
  BY DEF IInv, ToldOnce
<1> QED BY <1>1, <1>3, <1>4

(* A notice is accepted at most once per claim of its row, and twice only  *)
(* after a fault or a send without a clear end.                            *)
THEOREM RepeatsExplained == Spec => []RepeatedOnlyAfterTrouble
BY CoveredRows, OutboxInvariance, PTL

(* The attempts of a row exceed their maximum only by claims of leases     *)
(* that had ended, whatever the dispatchers do to each other; in a calm,   *)
(* by no more than the faults.                                             *)
THEOREM AttemptsAreBounded == Spec => []AttemptsBounded
<1>1. IInv => AttemptsBounded
  <2> SUFFICES ASSUME IInv, NEW i \in DOMAIN outbox
               PROVE  /\ outbox[i].attempts <= MaxAttempts + lapsed[i]
                      /\ Calm => outbox[i].attempts <= MaxAttempts + faults
    BY DEF AttemptsBounded
  <2>1. TypeInv /\ FailedStarts /\ AttemptsLeft /\ RetriesCover
    BY DEF IInv, LeaseInv, TruthInv, TypeInv, Known, BatchesKnown, AttemptsInv
  <2>2. faults \in Nat /\ outbox[i].attempts \in Nat /\ MaxAttempts \in Nat /\ lapsed[i] \in Nat
    BY <2>1, Ids, OutboxAssumption DEF TypeInv, TypeOK, Row
  <2>3. outbox[i].attempts <= MaxAttempts + lapsed[i]
    <3>1. Retries(i) \in SUBSET (1..(MaxAttempts - 1))
      BY DEF Retries
    <3>2. PICK r \in Nat : r = Cardinality(Retries(i))
      BY <3>1, FewerRetries
    <3>3. PICK open \in {0, 1} : open = IF outbox[i].state = "pending" THEN 1 ELSE 0
      OBVIOUS
    <3>4. outbox[i].attempts + open + r <= MaxAttempts + lapsed[i]
      BY <2>1, <3>2, <3>3 DEF RetriesCover
    <3> QED BY <2>2, <3>4
  <2>4. ASSUME Calm
        PROVE  outbox[i].attempts <= MaxAttempts + faults
    <3>1. Spent \in {faults, faults - 1}
      BY DEF Spent
    <3>2. \/ outbox[i].attempts + 0 <= MaxAttempts + Spent
          \/ outbox[i].attempts + 1 <= MaxAttempts + Spent
      BY <2>1, <2>4 DEF AttemptsLeft
    <3> QED BY <2>2, <3>1, <3>2
  <2> QED BY <2>3, <2>4
<1> QED BY <1>1, OutboxInvariance, PTL

-----------------------------------------------------------------------------
(* Only a notice that was not stale when it was claimed is sent.           *)
SendsFresh ==
  \A d \in Dispatchers : pc[d] = "send" =>
    \A x \in batch[d] : First(d, x) => ~x.stale

(* As long as the only dispatcher may send that a booking was created, no  *)
(* row of its later statuses was claimed.                                  *)
CreationFirst ==
  Cardinality(Dispatchers) = 1 => \A d \in Dispatchers : \A x \in batch[d] :
    ~x.stale /\ outbox[x.id].type = "booking_created" =>
      \A j \in DOMAIN outbox :
        /\ outbox[j].booking = outbox[x.id].booking
        /\ outbox[j].type # "booking_created"
        => outbox[j].attempts = 0

OrderInv == SendsFresh /\ CreationFirst

(* A dispatcher gets to send only by NextItem.                             *)
LEMMA FreshStep ==
  ASSUME TypeInv, BatchesDistinct, SendsFresh, [Next]_vars
  PROVE  SendsFresh'
<1> SUFFICES ASSUME NEW d \in Dispatchers, pc'[d] = "send", NEW x \in batch'[d], First(d, x)'
             PROVE  ~x.stale
  BY DEF SendsFresh
<1>1. CASE pc'[d] = pc[d] /\ batch'[d] = batch[d]
  BY <1>1 DEF SendsFresh, First
<1>2. CASE Fetch(d)
  <2>1. (\E B : pc' = [pc EXCEPT ![d] = "next"] /\ batch' = [batch EXCEPT ![d] = B])
        \/ UNCHANGED <<pc, batch>>
    BY <1>2, FetchRows
  <2> QED BY <1>1, <2>1, DispatchTypes
<1>3. CASE NextItem(d)
  <2>1. PICK y \in batch[d] :
          First(d, y) /\ pc' = [pc EXCEPT ![d] = IF y.stale THEN "mark" ELSE "send"]
    BY <1>3 DEF NextItem
  <2>2. batch' = batch /\ ~y.stale
    BY <1>3, <2>1, DispatchTypes DEF NextItem
  <2>3. First(d, x) /\ x \in batch[d]
    BY <2>2 DEF First
  <2>4. x = y
    BY <2>1, <2>3, OneFirst
  <2> QED BY <2>2, <2>4
<1>4. ~SendAccepted(d) /\ ~SendRefused(d) /\ ~SendTimesOut(d)
  BY SendType, DispatchTypes DEF Returns
<1>5. ~SendPanics(d) /\ ~Crash(d)
  BY DieType, DispatchTypes DEF Die
<1>6. ~Mark(d) /\ ~MarkFails(d) /\ ~Restart(d)
  BY MarkRows, DispatchTypes DEF MarkFails, Abandon, Restart
<1>7. FetchNothing(d) => UNCHANGED <<pc, batch>>
  BY DEF FetchNothing
<1>8. ASSUME NEW e \in Dispatchers, e # d, Step(e) \/ MarkFails(e) \/ Crash(e)
      PROVE  pc'[d] = pc[d] /\ batch'[d] = batch[d]
  BY <1>8, OthersKept
<1>9. ASSUME NEW b \in Bookings, Book(b) \/ Confirm(b) \/ Cancel(b)
      PROVE  UNCHANGED <<pc, batch>>
  BY <1>9, ChangeRows
<1>10. LateSendEnds \/ Tick \/ UNCHANGED vars => UNCHANGED <<pc, batch>>
  BY DEF LateSendEnds, Tick, vars, dispatch
<1> QED BY <1>1, <1>2, <1>3, <1>4, <1>5, <1>6, <1>7, <1>8, <1>9, <1>10 DEF Next, Step, Send

(* The only dispatcher fetches when its last batch is done, and a booking  *)
(* whose creation is not stale then has no other rows.                     *)
LEMMA CreationStep ==
  ASSUME TypeInv, TypeInv', BatchesDistinct, NoticesFollow, CreationFirst, [Next]_vars
  PROVE  CreationFirst'
<1> SUFFICES ASSUME Cardinality(Dispatchers) = 1, NEW d \in Dispatchers, NEW x \in batch'[d],
                    ~x.stale, outbox'[x.id].type = "booking_created",
                    NEW j \in DOMAIN outbox',
                    outbox'[j].booking = outbox'[x.id].booking,
                    outbox'[j].type # "booking_created"
             PROVE  outbox'[j].attempts = 0
  BY DEF CreationFirst
<1>1. \A e \in Dispatchers : e = d
  BY FS_Singleton, OutboxAssumption
<1>2. CASE x \in batch[d]
  <2>1. x.id \in DOMAIN outbox /\ ~Fetch(d)
    BY <1>2, SendingItem DEF Fetch, BatchesDistinct
  <2>2. outbox'[x.id].type = outbox[x.id].type /\ outbox'[x.id].booking = outbox[x.id].booking
    BY <2>1, RowKept
  <2>3. CASE j \in DOMAIN outbox
    <3>1. outbox'[j].type = outbox[j].type /\ outbox'[j].booking = outbox[j].booking
      BY <2>3, RowKept
    <3>2. outbox[j].attempts = 0
      BY <1>2, <2>2, <2>3, <3>1 DEF CreationFirst
    <3> QED BY <1>1, <2>1, <2>3, <3>2, AttemptsBy
  <2>4. CASE j \notin DOMAIN outbox
    BY <2>4, AttemptsBy
  <2> QED BY <2>3, <2>4
<1>3. CASE x \notin batch[d]
  <2>1. PICK i \in DOMAIN outbox : x = Snapshot(i) /\ Fetch(d)
    BY <1>3, BatchStep
  <2>2. x.id = i /\ ~Stale(outbox[i])
    BY <2>1 DEF Snapshot
  <2>3. j \in DOMAIN outbox
    BY <2>1, FetchType
  <2>4. /\ outbox[i].type = "booking_created" /\ outbox[j].type # "booking_created"
        /\ outbox[j].booking = outbox[i].booking
    BY <2>1, <2>2, <2>3, RowKept
  <2>5. status[outbox[i].booking] = "pending"
    <3>1. outbox[i].booking \in Bookings
      BY Ids DEF TypeInv, Row
    <3>2. status[outbox[i].booking] \in {"pending", "confirmed", "cancelled"}
      BY <3>1 DEF NoticesFollow, TypeInv, TypeOK
    <3>3. NoticeOf[status[outbox[i].booking]] = "booking_created"
      BY <2>2, <2>4 DEF Stale
    <3> QED BY <3>2, <3>3 DEF NoticeOf
  <2> QED BY <2>3, <2>4, <2>5 DEF NoticesFollow
<1> QED BY <1>2, <1>3

(* Who tells a row.                                                        *)
LEMMA TellsRow ==
  ASSUME TypeInv, [Next]_vars, NEW i \in DOMAIN outbox, told'[i] # told[i]
  PROVE  \/ inflight # {}
         \/ \E d \in Dispatchers : \E x \in batch[d] : pc[d] = "send" /\ First(d, x) /\ x.id = i
<1>1. told \in [DOMAIN outbox -> Nat]
  BY DEF TypeInv, TypeOK
<1>2. ASSUME NEW d \in Dispatchers, SendAccepted(d) \/ SendRefused(d) \/ Crash(d)
      PROVE  \E x \in batch[d] : pc[d] = "send" /\ First(d, x) /\ x.id = i
  <2>1. PICK x \in batch[d] : /\ pc[d] = "send" /\ First(d, x)
                              /\ told' = [told EXCEPT ![x.id] = @ + 1]
    BY <1>2 DEF SendAccepted, SendRefused, Crash, Sending, history
  <2> QED BY <1>1, <2>1
<1>3. ASSUME NEW d \in Dispatchers,
             \/ SendTimesOut(d) \/ SendPanics(d) \/ Fetch(d) \/ FetchNothing(d)
             \/ NextItem(d) \/ Mark(d) \/ MarkFails(d) \/ Restart(d)
      PROVE  FALSE
  BY <1>3 DEF SendTimesOut, SendPanics, Fetch, FetchNothing, NextItem, Mark, MarkFails, Restart, history
<1>4. ASSUME NEW b \in Bookings, Book(b) \/ Confirm(b) \/ Cancel(b)
      PROVE  FALSE
  BY <1>4, ChangeRows
<1>5. LateSendEnds => inflight # {}
  BY DEF LateSendEnds
<1>6. ~Tick /\ ~UNCHANGED vars
  BY DEF Tick, vars, history
<1> QED BY <1>2, <1>3, <1>4, <1>5, <1>6 DEF Next, Step, Send

(* One process alone never tells a user of a booking's creation after its  *)
(* end, as long as no send was cut off by its timer.                       *)
THEOREM OrderIsKept == Spec => OrderKept
<1>1. Init => OrderInv
  BY DEF Init, OrderInv, SendsFresh, CreationFirst
<1>2. IInv /\ IInv' /\ OrderInv /\ [Next]_vars => OrderInv'
  <2>1. IInv => TypeInv /\ BatchesDistinct /\ NoticesFollow
    BY DEF IInv, LeaseInv, TruthInv, TypeInv, Known, BatchesKnown
  <2>2. IInv' => TypeInv'
    BY DEF IInv, LeaseInv, TruthInv, TypeInv, Known, BatchesKnown
  <2> QED BY <2>1, <2>2, FreshStep, CreationStep DEF OrderInv
<1>3. IInv /\ OrderInv /\ [Next]_vars =>
        [\A i, j \in DOMAIN outbox :
           /\ Cardinality(Dispatchers) = 1 /\ faults = 0 /\ unsure = {}
           /\ outbox[i].booking = outbox[j].booking
           /\ outbox[i].type = "booking_created" /\ outbox[j].type # "booking_created"
           /\ told[j] > 0
           => told'[i] = told[i]]_vars
  <2> SUFFICES ASSUME IInv, OrderInv, [Next]_vars, NEW i \in DOMAIN outbox, NEW j \in DOMAIN outbox,
                      Cardinality(Dispatchers) = 1, unsure = {},
                      outbox[i].booking = outbox[j].booking,
                      outbox[i].type = "booking_created", outbox[j].type # "booking_created",
                      told'[i] # told[i]
               PROVE  ~(told[j] > 0)
    OBVIOUS
  <2>1. TypeInv /\ inflight = {}
    BY DEF IInv, LeaseInv, TruthInv, TypeInv, Known, BatchesKnown, ToldOnce
  <2>2. PICK d \in Dispatchers : \E x \in batch[d] : pc[d] = "send" /\ First(d, x) /\ x.id = i
    BY <2>1, TellsRow
  <2>3. outbox[j].attempts = 0
    BY <2>2 DEF OrderInv, SendsFresh, CreationFirst
  <2>4. told[j] \in Nat /\ told[j] <= outbox[j].attempts
    <3>1. RepeatedOnlyAfterTrouble
      BY CoveredRows
    <3> QED BY <2>1, <3>1 DEF RepeatedOnlyAfterTrouble, TypeInv, TypeOK
  <2> QED BY <2>3, <2>4
<1> QED BY <1>1, <1>2, <1>3, OutboxInvariance, PTL DEF Spec, OrderKept

-----------------------------------------------------------------------------
(* The table keeps the promises of NoticeDelivery.                         *)

(* A step that touches no row, no status and no acceptance is not seen.    *)
LEMMA NothingSeen ==
  ASSUME UNCHANGED <<status, outbox, told>>
  PROVE  UNCHANGED Delivery!deliveryVars
BY DEF Delivery!deliveryVars, Notices

(* One acceptance more of a row that had a claim left is a Tell.           *)
LEMMA ToldSeen ==
  ASSUME TypeInv, NEW i \in DOMAIN outbox, UNCHANGED <<status, outbox>>,
         told' = [told EXCEPT ![i] = @ + 1], told'[i] <= outbox[i].attempts
  PROVE  Delivery!Next
<1>1. told \in [DOMAIN outbox -> Nat] /\ outbox[i].attempts \in Nat
  BY Ids DEF TypeInv, TypeOK, Row
<1>2. told[i] < outbox[i].attempts
  BY <1>1
<1>3. Notices[i].told < Notices[i].tries
  BY <1>2 DEF Notices, Notice
<1>4. Notices' = [Notices EXCEPT ![i].told = @ + 1]
  <2>1. Notices' = [j \in DOMAIN outbox |-> Notice(outbox[j], told'[j])]
    BY DEF Notices, Notice, Standing, Settled
  <2>2. \A j \in DOMAIN outbox : told'[j] = IF j = i THEN told[i] + 1 ELSE told[j]
    BY <1>1
  <2>3. \A j \in DOMAIN outbox :
          Notice(outbox[j], told'[j]) =
            IF j = i THEN [Notice(outbox[i], told[i]) EXCEPT !.told = @ + 1]
            ELSE Notice(outbox[j], told[j])
    BY <2>2 DEF Notice
  <2> QED BY <2>1, <2>3 DEF Notices
<1>5. DOMAIN Notices = DOMAIN outbox
  BY DEF Notices
<1>6. Delivery!Tell(i)
  BY <1>3, <1>4 DEF Delivery!Tell
<1> QED BY <1>5, <1>6 DEF Delivery!Next

(* The rows of a fetch are tries of notices that wait.                     *)
LEMMA FetchSeen ==
  ASSUME TypeInv, NEW d \in Dispatchers, Fetch(d)
  PROVE  Delivery!Next
<1>1. PICK T \in SUBSET DueIds :
        outbox' = [i \in DOMAIN outbox |-> IF i \in T THEN Claimed(outbox[i]) ELSE outbox[i]]
  BY DEF Fetch, Picked
<1>2. UNCHANGED <<status, told>>
  BY DEF Fetch, history
<1>3. T \subseteq DOMAIN outbox /\ \A i \in T : ~Settled(outbox[i])
  BY <1>1 DEF DueIds, Due, Settled
<1>4. DOMAIN Notices = DOMAIN outbox
  BY DEF Notices
<1>5. T \subseteq Delivery!Waiting
  BY <1>3, <1>4 DEF Delivery!Waiting, Notices, Notice, Standing
<1>6. \A row \in Row, n \in Nat :
        ~Settled(row) => Notice(Claimed(row), n) = [Notice(row, n) EXCEPT !.tries = @ + 1]
  BY DEF Notice, Claimed, Standing, Settled, Row
<1>7. \A i \in DOMAIN outbox : outbox[i] \in Row /\ told[i] \in Nat
  BY Ids DEF TypeInv, TypeOK
<1>8. Notices' = [i \in DOMAIN Notices |->
         IF i \in T THEN [Notices[i] EXCEPT !.tries = @ + 1] ELSE Notices[i]]
  <2>1. DOMAIN outbox' = DOMAIN outbox
    BY <1>1
  <2>2. Notices' = [i \in DOMAIN outbox |-> Notice(outbox'[i], told[i])]
    BY <1>2, <2>1 DEF Notices, Notice, Standing, Settled
  <2>3. ASSUME NEW i \in DOMAIN outbox
        PROVE  Notice(outbox'[i], told[i]) =
                 IF i \in T THEN [Notice(outbox[i], told[i]) EXCEPT !.tries = @ + 1]
                 ELSE Notice(outbox[i], told[i])
    BY <1>1, <1>3, <1>6, <1>7
  <2> QED BY <1>4, <2>2, <2>3 DEF Notices
<1>9. Delivery!Try(T)
  BY <1>2, <1>8 DEF Delivery!Try
<1> QED BY <1>5, <1>9 DEF Delivery!Next

(* A mark settles a notice that waits, or is not seen.                     *)
LEMMA MarkSeen ==
  ASSUME TypeInv, SettledTruly', NEW d \in Dispatchers, Mark(d)
  PROVE  Delivery!Next \/ UNCHANGED Delivery!deliveryVars
<1>1. UNCHANGED <<status, told>>
  BY DEF Mark, history
<1>2. CASE UNCHANGED outbox
  BY <1>1, <1>2, NothingSeen
<1>3. ASSUME NEW x \in batch[d], MarkHolds(outbox[x.id]),
             NEW row \in Marked(d, x, outbox[x.id]), outbox' = [outbox EXCEPT ![x.id] = row]
      PROVE  Delivery!Next \/ UNCHANGED Delivery!deliveryVars
  <2> DEFINE i   == x.id
             old == Notice(outbox[i], told[i])
  <2>1. x \in Item /\ i \in DOMAIN outbox /\ outbox[i] \in Row /\ told[i] \in Nat
    BY SendingItem, Ids DEF TypeInv, TypeOK
  <2>2. /\ row \in Row
        /\ row.booking = outbox[i].booking /\ row.type = outbox[i].type
        /\ row.channel = outbox[i].channel /\ row.attempts = outbox[i].attempts
    BY <2>1, MarkedType DEF TypeInv
  <2>3. /\ DOMAIN outbox' = DOMAIN outbox /\ outbox'[i] = row
        /\ \A j \in DOMAIN outbox : j # i => outbox'[j] = outbox[j]
    BY <1>3, <2>1
  <2>4. ~Settled(outbox[i])
    BY <1>3 DEF MarkHolds, Settled
  <2>5. Notice(row, told[i]) = [old EXCEPT !.standing = Standing(row)]
    BY <2>2 DEF Notice
  <2>6. Notices' = [Notices EXCEPT ![i].standing = Standing(row)]
    <3>1. Notices' = [j \in DOMAIN outbox |-> Notice(outbox'[j], told[j])]
      BY <1>1, <2>3 DEF Notices, Notice, Standing, Settled
    <3>2. \A j \in DOMAIN outbox :
            Notice(outbox'[j], told[j]) =
              IF j = i THEN [old EXCEPT !.standing = Standing(row)]
              ELSE Notice(outbox[j], told[j])
      BY <2>3, <2>5
    <3> QED BY <2>1, <3>1, <3>2 DEF Notices
  <2>7. DOMAIN Notices = DOMAIN outbox /\ Notices[i] = old
    BY <2>1 DEF Notices
  <2>8. i \in Delivery!Waiting
    BY <2>1, <2>4, <2>7 DEF Delivery!Waiting, Notice, Standing
  <2>9. /\ row.state = "sent" => told[i] > 0 \/ Stale(row)
        /\ row.state = "failed" => row.attempts >= MaxAttempts
    BY <1>1, <2>1, <2>3 DEF SettledTruly, Stale, NoticeOf
  <2>10. CASE row.state = "sent"
    <3>1. Stale(row) => Delivery!OutOfDate(Notices[i])
      BY <2>2, <2>7 DEF Stale, NoticeOf, Delivery!OutOfDate, Delivery!NoticeOf, Notice
    <3>2. Notices[i].told > 0 \/ Delivery!OutOfDate(Notices[i])
      BY <2>7, <2>9, <2>10, <3>1 DEF Notice
    <3>3. Notices' = [Notices EXCEPT ![i].standing = "sent"]
      BY <2>6, <2>10 DEF Standing, Settled
    <3>4. Delivery!Settle(i)
      BY <1>1, <3>2, <3>3 DEF Delivery!Settle
    <3> QED BY <2>8, <3>4 DEF Delivery!Next
  <2>11. CASE row.state = "failed"
    <3>1. Notices[i].tries >= MaxAttempts
      BY <2>2, <2>7, <2>9, <2>11 DEF Notice
    <3>2. Notices' = [Notices EXCEPT ![i].standing = "failed"]
      BY <2>6, <2>11 DEF Standing, Settled
    <3>3. Delivery!Settle(i)
      BY <1>1, <3>1, <3>2 DEF Delivery!Settle
    <3> QED BY <2>8, <3>3 DEF Delivery!Next
  <2>12. CASE row.state \notin {"sent", "failed"}
    <3>1. Standing(row) = Notices[i].standing
      BY <2>4, <2>7, <2>12 DEF Standing, Settled, Notice
    <3>2. [old EXCEPT !.standing = Standing(row)] = old
      BY <2>7, <3>1 DEF Notice
    <3> HIDE DEF old
    <3>3. Notices' = Notices
      <4>1. Notices' = [Notices EXCEPT ![i] = [old EXCEPT !.standing = Standing(row)]]
        BY <2>6, <2>7
      <4>2. Notices = [j \in DOMAIN outbox |-> Notice(outbox[j], told[j])]
        BY DEF Notices
      <4> QED BY <2>7, <3>2, <4>1, <4>2
    <3> QED BY <1>1, <3>3 DEF Delivery!deliveryVars
  <2> QED BY <2>10, <2>11, <2>12
<1> QED BY <1>2, <1>3 DEF Mark

(* A change of a booking owes the notices that its rows are.               *)
LEMMA ChangeSeen ==
  ASSUME TypeInv, NEW b \in Bookings, NEW from \in {"none", "pending"},
         NEW to \in {"pending", "confirmed", "cancelled"}, Change(b, from, to)
  PROVE  Delivery!Change(b, from, to)
<1> DEFINE type  == NoticeOf[to]
           rows  == [c \in DOMAIN Channels |-> NewRow(b, type, Channels[c])]
           zeros == [c \in DOMAIN Channels |-> 0]
           owed  == [c \in DOMAIN Channels |-> Delivery!Owed(b, type, Channels[c])]
           Counts == Nat
           Any == {Notice(outbox[i], told[i]) : i \in DOMAIN outbox}
                    \cup {owed[c] : c \in DOMAIN Channels}
<1>1. /\ status[b] = from /\ status' = [status EXCEPT ![b] = to]
      /\ outbox' = outbox \o rows /\ told' = told \o zeros
  BY DEF Change, Enqueue
<1>2. /\ Len(Channels) \in Nat /\ DOMAIN Channels = 1..Len(Channels)
      /\ \A c \in 1..Len(Channels) : Channels[c] \in {"log", "email", "telegram"}
  BY OutboxAssumption, LenProperties, ElementOfSeq
<1>3. type \in Types
  BY ChangeType
<1>4. \A c \in 1..Len(Channels) : NewRow(b, type, Channels[c]) \in Row
  BY <1>2, <1>3 DEF NewRow, Row, TypeInv, TypeOK
<1>5. rows \in Seq(Row) /\ Len(rows) = Len(Channels)
  BY <1>2, <1>4
<1>6. zeros \in Seq(Counts) /\ Len(zeros) = Len(Channels)
  BY <1>2
<1>7. outbox \in Seq(Row) /\ DOMAIN outbox = 1..Len(outbox) /\ Len(outbox) \in Nat
  BY Ids DEF TypeInv, TypeOK
<1>8. told \in Seq(Counts) /\ Len(told) = Len(outbox)
  <2>1. told \in [1..Len(outbox) -> Counts]
    BY <1>7 DEF TypeInv, TypeOK
  <2> HIDE DEF Counts
  <2>2. told \in Seq(Counts)
    BY <2>1, <1>7, SeqDef
  <2> QED BY <2>1, <2>2, <1>7, LenProperties
<1>9. Notices \in Seq(Any) /\ Len(Notices) = Len(outbox)
  <2>1. \A i \in DOMAIN outbox : Notice(outbox[i], told[i]) \in Any
    OBVIOUS
  <2> HIDE DEF Any
  <2>2. Notices \in [1..Len(outbox) -> Any]
    BY <2>1, <1>7 DEF Notices
  <2>3. Notices \in Seq(Any)
    BY <2>2, <1>7, SeqDef
  <2> QED BY <2>2, <2>3, <1>7, LenProperties
<1>10. owed \in Seq(Any) /\ Len(owed) = Len(Channels)
  <2>1. owed \in [1..Len(Channels) -> Any]
    <3>1. \A c \in DOMAIN Channels : owed[c] \in Any
      OBVIOUS
    <3>2. owed = [c \in 1..Len(Channels) |-> owed[c]]
      BY <1>2
    <3> HIDE DEF owed, Any
    <3> QED BY <1>2, <3>1, <3>2
  <2> HIDE DEF owed, Any
  <2>2. owed \in Seq(Any)
    BY <2>1, <1>2, SeqDef
  <2> QED BY <2>1, <2>2, <1>2, LenProperties
<1>11. \A c \in 1..Len(Channels) : owed[c] = Notice(rows[c], zeros[c])
  BY <1>2 DEF Notice, NewRow, Standing, Settled, Delivery!Owed
<1> HIDE DEF rows, zeros, owed, Any, Counts
<1>12. /\ DOMAIN outbox' = 1..Len(outbox) + Len(Channels)
       /\ \A i \in 1..Len(outbox) + Len(Channels) : outbox'[i] =
            IF i <= Len(outbox) THEN outbox[i] ELSE rows[i - Len(outbox)]
  <2>1. outbox \in Seq(Row) /\ rows \in Seq(Row)
    BY <1>5, <1>7
  <2>2. /\ outbox \o rows \in Seq(Row)
        /\ Len(outbox \o rows) = Len(outbox) + Len(rows)
        /\ \A i \in 1..Len(outbox) + Len(rows) : (outbox \o rows)[i] =
             IF i <= Len(outbox) THEN outbox[i] ELSE rows[i - Len(outbox)]
    BY <2>1, ConcatProperties, Zenon
  <2>3. DOMAIN (outbox \o rows) = 1..Len(outbox) + Len(rows)
    BY <2>2, LenProperties
  <2> QED BY <1>1, <1>5, <2>2, <2>3
<1>13. \A i \in 1..Len(outbox) + Len(Channels) : told'[i] =
         IF i <= Len(outbox) THEN told[i] ELSE zeros[i - Len(outbox)]
  BY <1>1, <1>2, <1>6, <1>8, ConcatProperties
<1>14. /\ Notices \o owed \in Seq(Any)
       /\ Len(Notices \o owed) = Len(outbox) + Len(Channels)
       /\ \A i \in 1..Len(outbox) + Len(Channels) : (Notices \o owed)[i] =
            IF i <= Len(outbox) THEN Notices[i] ELSE owed[i - Len(outbox)]
  <2>1. Notices \in Seq(Any) /\ owed \in Seq(Any)
    BY <1>9, <1>10
  <2>2. /\ Notices \o owed \in Seq(Any)
        /\ Len(Notices \o owed) = Len(Notices) + Len(owed)
        /\ \A i \in 1..Len(Notices) + Len(owed) : (Notices \o owed)[i] =
             IF i <= Len(Notices) THEN Notices[i] ELSE owed[i - Len(Notices)]
    BY <2>1, ConcatProperties, Zenon
  <2> QED BY <2>2, <1>9, <1>10
<1>15. ASSUME NEW i \in 1..Len(outbox) + Len(Channels)
       PROVE  Notice(outbox'[i], told'[i]) = (Notices \o owed)[i]
  <2>1. CASE i <= Len(outbox)
    <3>1. i \in DOMAIN outbox
      BY <1>2, <1>7, <2>1
    <3>2. Notices[i] = Notice(outbox[i], told[i])
      BY <3>1 DEF Notices
    <3> QED BY <1>12, <1>13, <1>14, <2>1, <3>2
  <2>2. CASE ~(i <= Len(outbox))
    <3>1. i - Len(outbox) \in 1..Len(Channels)
      BY <1>2, <1>7, <2>2
    <3> QED BY <1>11, <1>12, <1>13, <1>14, <2>2, <3>1
  <2> QED BY <2>1, <2>2
<1>16. Notices' = Notices \o owed
  <2>1. Notices' = [i \in DOMAIN outbox' |-> Notice(outbox'[i], told'[i])]
    BY DEF Notices, Notice, Standing, Settled
  <2>2. Notices \o owed = [i \in 1..Len(outbox) + Len(Channels) |-> (Notices \o owed)[i]]
    BY <1>14, LenProperties
  <2> QED BY <1>12, <1>15, <2>1, <2>2
<1>17. type = Delivery!NoticeOf[to]
  BY DEF NoticeOf, Delivery!NoticeOf
<1> QED BY <1>1, <1>16, <1>17 DEF Delivery!Change, owed

(* A step that touches neither rows nor statuses accepts one notice at     *)
(* most, and one that had a claim left.                                    *)
LEMMA AcceptedSeen ==
  ASSUME TypeInv, RepeatedOnlyAfterTrouble', UNCHANGED <<status, outbox>>,
         UNCHANGED told \/ \E i \in DOMAIN outbox : told' = [told EXCEPT ![i] = @ + 1]
  PROVE  Delivery!Next \/ UNCHANGED Delivery!deliveryVars
<1>1. CASE UNCHANGED told
  BY <1>1, NothingSeen
<1>2. ASSUME NEW i \in DOMAIN outbox, told' = [told EXCEPT ![i] = @ + 1]
      PROVE  Delivery!Next
  <2>1. told'[i] <= outbox[i].attempts
    BY DEF RepeatedOnlyAfterTrouble
  <2> QED BY <1>2, <2>1, ToldSeen
<1> QED BY <1>1, <1>2

(* Every step of the outbox is a step of NoticeDelivery, or is not seen.   *)
LEMMA DeliveryStep ==
  ASSUME TypeInv, SettledTruly', RepeatedOnlyAfterTrouble', [Next]_vars
  PROVE  [Delivery!Next]_(Delivery!deliveryVars)
<1>1. ASSUME NEW b \in Bookings, Book(b) \/ Confirm(b) \/ Cancel(b)
      PROVE  Delivery!Next
  <2>1. \/ Delivery!Change(b, "none", "pending")
        \/ Delivery!Change(b, "pending", "confirmed")
        \/ Delivery!Change(b, "pending", "cancelled")
    BY <1>1, ChangeSeen DEF Book, Confirm, Cancel
  <2> QED BY <2>1 DEF Delivery!Next
<1>2. ASSUME NEW d \in Dispatchers, Fetch(d)
      PROVE  Delivery!Next
  BY <1>2, FetchSeen
<1>3. ASSUME NEW d \in Dispatchers, Mark(d)
      PROVE  Delivery!Next \/ UNCHANGED Delivery!deliveryVars
  BY <1>3, MarkSeen
<1>4. ASSUME NEW d \in Dispatchers, Send(d) \/ Crash(d)
      PROVE  Delivery!Next \/ UNCHANGED Delivery!deliveryVars
  <2>1. UNCHANGED <<status, outbox>>
    BY <1>4, SendType, DieType DEF Send
  <2>2. UNCHANGED told \/ \E x \in batch[d] : told' = [told EXCEPT ![x.id] = @ + 1]
    BY <1>4 DEF Send, SendAccepted, SendRefused, SendTimesOut, SendPanics, Crash, history
  <2>3. \A x \in batch[d] : x.id \in DOMAIN outbox
    BY DEF TypeInv, Known
  <2> QED BY <2>1, <2>2, <2>3, AcceptedSeen
<1>5. ASSUME NEW d \in Dispatchers, FetchNothing(d) \/ NextItem(d) \/ MarkFails(d) \/ Restart(d)
      PROVE  UNCHANGED Delivery!deliveryVars
  <2>1. UNCHANGED <<status, outbox, told>>
    BY <1>5 DEF FetchNothing, NextItem, MarkFails, Restart, history
  <2> QED BY <2>1, NothingSeen
<1>6. CASE LateSendEnds
  <2>1. UNCHANGED <<status, outbox>>
    BY <1>6 DEF LateSendEnds
  <2>2. UNCHANGED told \/ \E i \in DOMAIN outbox : told' = [told EXCEPT ![i] = @ + 1]
    BY <1>6 DEF LateSendEnds, TypeInv, TypeOK
  <2> QED BY <2>1, <2>2, AcceptedSeen
<1>7. CASE Tick \/ UNCHANGED vars
  <2>1. UNCHANGED <<status, outbox, told>>
    BY <1>7 DEF Tick, vars, history
  <2> QED BY <2>1, NothingSeen
<1> QED BY <1>1, <1>2, <1>3, <1>4, <1>5, <1>6, <1>7 DEF Next, Step

(* With any number of processes that crash, stall and lose their leases,   *)
(* the table promises what NoticeDelivery promises: a notice is claimed    *)
(* only while it waits, told at most once for each claim, settled once,    *)
(* and settled as it deserves.                                             *)
THEOREM OutboxDelivers == Spec => ImplementsDelivery
<1>1. Init => Delivery!Init
  <2> SUFFICES ASSUME Init PROVE Delivery!Init
    OBVIOUS
  <2>1. DOMAIN outbox = {}
    BY DEF Init
  <2>2. Notices = <<>>
    BY <2>1 DEF Notices
  <2> QED BY <2>2 DEF Init, Delivery!Init
<1>2. IInv /\ IInv' /\ [Next]_vars => [Delivery!Next]_(Delivery!deliveryVars)
  <2>1. IInv => TypeInv /\ SettledTruly
    BY DEF IInv, LeaseInv, TruthInv, TypeInv, Known, BatchesKnown
  <2>2. IInv' => SettledTruly' /\ RepeatedOnlyAfterTrouble'
    <3>1. IInv' => SettledTruly'
      BY DEF IInv, LeaseInv, TruthInv
    <3>2. IInv' => RepeatedOnlyAfterTrouble'
      BY CoveredRows, PTL
    <3> QED BY <3>1, <3>2
  <2> QED BY <2>1, <2>2, DeliveryStep
<1> QED BY <1>1, <1>2, OutboxInvariance, PTL DEF Spec, ImplementsDelivery, Delivery!Spec
=============================================================================
