---------------------- MODULE NotificationOutboxProofs ----------------------
(***************************************************************************)
(* A settled notice stays settled and was settled truly, and a lease       *)
(* outlasts the batch it was taken for, for every number of processes,     *)
(* bookings, channels, attempts and faults.                                *)
(***************************************************************************)
EXTENDS NotificationOutbox, SequenceTheorems, FunctionTheorems, FiniteSetTheorems, TLAPS

(* The rows are numbered from one.                                         *)
LEMMA Ids ==
  ASSUME TypeOK
  PROVE  /\ Len(outbox) \in Nat
         /\ DOMAIN outbox = 1..Len(outbox)
         /\ \A i \in DOMAIN outbox : i \in Nat \ {0} /\ outbox[i] \in Row
<1>1. outbox \in Seq(Row)
  BY DEF TypeOK
<1> QED BY <1>1, LenProperties, ElementOfSeq

(* The delay before the next attempt is a natural number.                  *)
LEMMA BackoffNat ==
  ASSUME NEW a \in Nat \ {0}
  PROVE  Backoff(a) \in Nat
<1>1. BaseBackoff \in Nat /\ MaxBackoff \in Nat
  BY OutboxAssumption
<1>2. Smaller(a - 1, 5) + 1 \in 1..6
  BY DEF Smaller
<1>3. \A n \in 1..6 : Doublings[n] \in Nat
  BY DEF Doublings
<1>4. PICK n \in Nat : n = Doublings[Smaller(a - 1, 5) + 1]
  BY <1>2, <1>3
<1>5. BaseBackoff * n \in Nat
  BY <1>1
<1> QED BY <1>1, <1>4, <1>5 DEF Backoff, Smaller

(* Enqueue appends new rows and leaves the others alone.                   *)
LEMMA Appended ==
  ASSUME TypeOK, NEW b \in Bookings, NEW type \in Types, Enqueue(b, type)
  PROVE  /\ outbox' \in Seq(Row)
         /\ told' \in [DOMAIN outbox' -> Nat] /\ lapsed' \in [DOMAIN outbox' -> Nat]
         /\ DOMAIN outbox \subseteq DOMAIN outbox'
         /\ \A i \in DOMAIN outbox :
              outbox'[i] = outbox[i] /\ told'[i] = told[i] /\ lapsed'[i] = lapsed[i]
         /\ \A i \in DOMAIN outbox' \ DOMAIN outbox :
              /\ \E c \in {"log", "email", "telegram"} : outbox'[i] = NewRow(b, type, c)
              /\ told'[i] = 0 /\ lapsed'[i] = 0
<1> DEFINE rows  == [c \in DOMAIN Channels |-> NewRow(b, type, Channels[c])]
           zeros == [c \in DOMAIN Channels |-> 0]
           Counts == Nat
<1>1. /\ Channels \in Seq({"log", "email", "telegram"})
      /\ Len(Channels) \in Nat
      /\ DOMAIN Channels = 1..Len(Channels)
      /\ \A c \in 1..Len(Channels) : Channels[c] \in {"log", "email", "telegram"}
  BY OutboxAssumption, LenProperties, ElementOfSeq
<1>2. \A c \in 1..Len(Channels) : NewRow(b, type, Channels[c]) \in Row
  BY <1>1 DEF NewRow, Row, TypeOK
<1>3. rows \in Seq(Row) /\ Len(rows) = Len(Channels)
  BY <1>1, <1>2
<1>4. zeros \in Seq(Nat) /\ Len(zeros) = Len(Channels)
  BY <1>1
<1>5. outbox \in Seq(Row) /\ DOMAIN outbox = 1..Len(outbox) /\ Len(outbox) \in Nat
  BY Ids DEF TypeOK
<1>6. outbox' = outbox \o rows /\ told' = told \o zeros /\ lapsed' = lapsed \o zeros
  BY DEF Enqueue
<1> HIDE DEF rows, zeros
<1>7. /\ outbox' \in Seq(Row)
      /\ Len(outbox') = Len(outbox) + Len(Channels)
      /\ \A i \in 1..Len(outbox) + Len(Channels) : outbox'[i] =
           IF i <= Len(outbox) THEN outbox[i] ELSE rows[i - Len(outbox)]
  <2>1. outbox \in Seq(Row) /\ rows \in Seq(Row)
    BY <1>3, <1>5
  <2>2. /\ outbox \o rows \in Seq(Row)
        /\ Len(outbox \o rows) = Len(outbox) + Len(rows)
        /\ \A i \in 1..Len(outbox) + Len(rows) : (outbox \o rows)[i] =
             IF i <= Len(outbox) THEN outbox[i] ELSE rows[i - Len(outbox)]
    BY <2>1, ConcatProperties, Zenon
  <2> QED BY <1>3, <1>6, <2>2
<1>8. DOMAIN outbox' = 1..Len(outbox) + Len(Channels)
  BY <1>7, LenProperties
<1>9. ASSUME NEW counts \in [DOMAIN outbox -> Nat]
      PROVE  /\ counts \o zeros \in [DOMAIN outbox' -> Nat]
             /\ \A i \in 1..Len(outbox) + Len(Channels) : (counts \o zeros)[i] =
                  IF i <= Len(outbox) THEN counts[i] ELSE zeros[i - Len(outbox)]
  <2>1. counts \in Seq(Counts) /\ Len(counts) = Len(outbox)
    <3>1. counts \in [1..Len(outbox) -> Counts]
      BY <1>5
    <3> HIDE DEF Counts
    <3>2. counts \in Seq(Counts)
      BY <3>1, <1>5, SeqDef
    <3> QED BY <3>1, <3>2, <1>5, LenProperties
  <2>2. zeros \in Seq(Counts)
    BY <1>4
  <2> HIDE DEF Counts
  <2>3. /\ counts \o zeros \in Seq(Counts)
        /\ Len(counts \o zeros) = Len(counts) + Len(zeros)
        /\ \A i \in 1..Len(counts) + Len(zeros) : (counts \o zeros)[i] =
             IF i <= Len(counts) THEN counts[i] ELSE zeros[i - Len(counts)]
    BY <2>1, <2>2, ConcatProperties
  <2>4. counts \o zeros \in [1..Len(outbox) + Len(Channels) -> Counts]
    BY <2>1, <2>3, <1>4, LenProperties
  <2> QED BY <2>1, <2>3, <2>4, <1>4, <1>8 DEF Counts
<1>10. /\ told' \in [DOMAIN outbox' -> Nat]
       /\ \A i \in 1..Len(outbox) + Len(Channels) : told'[i] =
            IF i <= Len(outbox) THEN told[i] ELSE zeros[i - Len(outbox)]
  BY <1>6, <1>9 DEF TypeOK
<1>11. /\ lapsed' \in [DOMAIN outbox' -> Nat]
       /\ \A i \in 1..Len(outbox) + Len(Channels) : lapsed'[i] =
            IF i <= Len(outbox) THEN lapsed[i] ELSE zeros[i - Len(outbox)]
  BY <1>6, <1>9 DEF TypeOK
<1>12. ASSUME NEW i \in DOMAIN outbox' \ DOMAIN outbox
       PROVE  \E c \in {"log", "email", "telegram"} : outbox'[i] = NewRow(b, type, c)
  <2>1. i - Len(outbox) \in 1..Len(Channels) /\ outbox'[i] = rows[i - Len(outbox)]
    BY <1>1, <1>5, <1>7, <1>8, <1>12
  <2>2. rows[i - Len(outbox)] = NewRow(b, type, Channels[i - Len(outbox)])
    BY <2>1, <1>1 DEF rows
  <2> QED BY <2>1, <2>2, <1>1
<1>13. ASSUME NEW i \in DOMAIN outbox' \ DOMAIN outbox
       PROVE  told'[i] = 0 /\ lapsed'[i] = 0
  <2>1. /\ i - Len(outbox) \in 1..Len(Channels)
        /\ told'[i] = zeros[i - Len(outbox)] /\ lapsed'[i] = zeros[i - Len(outbox)]
    BY <1>1, <1>5, <1>8, <1>10, <1>11, <1>13
  <2> QED BY <2>1, <1>1 DEF zeros
<1> QED BY <1>1, <1>5, <1>7, <1>8, <1>10, <1>11, <1>12, <1>13

(* Rewriting rows in place keeps the ids.                                  *)
LEMMA Rewritten ==
  ASSUME TypeOK, outbox' \in [DOMAIN outbox -> Row]
  PROVE  outbox' \in Seq(Row) /\ DOMAIN outbox' = DOMAIN outbox
BY Ids, SeqDef

(* A fault is counted once.                                                *)
LEMMA Faults ==
  ASSUME TypeOK, Fault
  PROVE  faults' \in Nat /\ faults' # 0
BY DEF TypeOK, Fault

-----------------------------------------------------------------------------
(* Types.  A dispatcher's batch is of rows that exist.                     *)
Known   == \A d \in Dispatchers : \A x \in batch[d] : x.id \in DOMAIN outbox
TypeInv == TypeOK /\ Known

(* A claimed row is a row.                                                 *)
LEMMA ClaimedType ==
  ASSUME TypeOK, NEW row \in Row
  PROVE  Claimed(row) \in Row
<1>1. LockTTL \in Nat
  BY OutboxAssumption
<1>2. PICK t \in Nat : t = clock + LockTTL
  BY <1>1 DEF TypeOK
<1>3. PICK n \in Nat : n = row.attempts + 1
  BY DEF Row
<1>4. Claimed(row) = [row EXCEPT !.state = "processing", !.attempts = n, !.lockedUntil = t]
  BY <1>2, <1>3 DEF Claimed
<1> QED BY <1>4 DEF Row

(* A snapshot of a row is an item.                                         *)
LEMMA SnapshotType ==
  ASSUME TypeOK, NEW i \in DOMAIN outbox
  PROVE  Snapshot(i) \in Item /\ Snapshot(i).id = i
<1>1. i \in Nat \ {0} /\ outbox[i] \in Row
  BY Ids
<1>2. outbox[i].attempts + 1 \in Nat \ {0}
  BY <1>1 DEF Row
<1>3. Stale(outbox[i]) \in BOOLEAN
  BY DEF Stale
<1> QED BY <1>1, <1>2, <1>3 DEF Snapshot, Item

(* A marked row is a row.                                                  *)
LEMMA MarkedType ==
  ASSUME TypeOK, NEW d \in Dispatchers, NEW x \in Item, NEW old \in Row,
         NEW row \in Marked(d, x, old)
  PROVE  /\ row \in Row
         /\ row.booking = old.booking /\ row.type = old.type /\ row.channel = old.channel
         /\ row.attempts = old.attempts
         /\ row.state = "sent" => result[d] = "ok"
         /\ row.state = "failed" => Exhausted(x)
<1>1. Backoff(x.attempts) \in Nat
  BY BackoffNat DEF Item
<1>2. ASSUME NEW jitter \in 0..(BaseBackoff \div 2)
      PROVE  clock + Backoff(x.attempts) + jitter \in Nat
  <2>1. jitter \in Nat
    OBVIOUS
  <2>2. PICK n \in Nat : n = Backoff(x.attempts)
    BY <1>1
  <2> QED BY <2>1, <2>2 DEF TypeOK
<1> DEFINE free == [old EXCEPT !.lockedUntil = 0]
<1>3. /\ free \in Row /\ free.booking = old.booking /\ free.type = old.type
      /\ free.channel = old.channel /\ free.attempts = old.attempts
  BY DEF Row
<1>4. CASE result[d] = "ok"
  <2>1. row = [free EXCEPT !.state = "sent"]
    BY <1>4 DEF Marked
  <2> HIDE DEF free
  <2> QED BY <2>1, <1>3, <1>4 DEF Row
<1>5. CASE result[d] # "ok" /\ Exhausted(x)
  <2>1. row = [free EXCEPT !.state = "failed"]
    BY <1>5 DEF Marked
  <2> HIDE DEF free
  <2> QED BY <2>1, <1>3, <1>5 DEF Row
<1>6. CASE result[d] # "ok" /\ ~Exhausted(x)
  <2>1. PICK jitter \in 0..(BaseBackoff \div 2) :
          row = [free EXCEPT !.state = "pending",
                             !.nextAttemptAt = clock + Backoff(x.attempts) + jitter]
    BY <1>6 DEF Marked
  <2>2. PICK t \in Nat : t = clock + Backoff(x.attempts) + jitter
    BY <1>2
  <2> HIDE DEF free
  <2> QED BY <2>1, <2>2, <1>3, <1>6 DEF Row
<1> QED BY <1>4, <1>5, <1>6

(* What Fetch does to the outbox.                                          *)
LEMMA FetchType ==
  ASSUME TypeInv, NEW d \in Dispatchers, Fetch(d)
  PROVE  TypeInv' /\ DOMAIN outbox' = DOMAIN outbox
<1>1. PICK T \in SUBSET DueIds :
        /\ outbox' = [i \in DOMAIN outbox |-> IF i \in T THEN Claimed(outbox[i]) ELSE outbox[i]]
        /\ \/ /\ pc' = [pc EXCEPT ![d] = "next"]
              /\ batch' = [batch EXCEPT ![d] = {Snapshot(i) : i \in T}]
              /\ UNCHANGED faults
           \/ Fault /\ UNCHANGED <<pc, batch>>
        /\ lapsed' = [i \in DOMAIN outbox |->
             IF i \in T /\ outbox[i].state = "processing" THEN lapsed[i] + 1 ELSE lapsed[i]]
  BY DEF Fetch, Picked
<1>2. T \subseteq DOMAIN outbox
  BY <1>1 DEF DueIds
<1>3. outbox' \in [DOMAIN outbox -> Row]
  BY <1>1, <1>2, Ids, ClaimedType DEF TypeInv
<1>4. outbox' \in Seq(Row) /\ DOMAIN outbox' = DOMAIN outbox
  BY <1>3, Rewritten DEF TypeInv
<1>5. \A i \in T : Snapshot(i) \in Item /\ Snapshot(i).id \in DOMAIN outbox
  BY <1>2, SnapshotType DEF TypeInv
<1>6. batch' \in [Dispatchers -> SUBSET Item] /\ Known'
  <2>1. batch \in [Dispatchers -> SUBSET Item] /\ Known
    BY DEF TypeInv, TypeOK
  <2>2. \A x \in {Snapshot(i) : i \in T} : x \in Item /\ x.id \in DOMAIN outbox
    BY <1>5
  <2>3. batch' = batch \/ batch' = [batch EXCEPT ![d] = {Snapshot(i) : i \in T}]
    BY <1>1
  <2> QED BY <1>4, <2>1, <2>2, <2>3 DEF Known
<1>7. faults' \in Nat /\ pc' \in [Dispatchers -> {"idle", "next", "send", "mark", "down", "panicked"}]
  BY <1>1, Faults DEF TypeInv, TypeOK
<1>8. waited' \in [Dispatchers -> Nat]
  BY DEF Fetch, TypeInv, TypeOK
<1>9. UNCHANGED <<clock, status, telegram, result, sendBy, inflight, told, unsure>>
  BY DEF Fetch
<1>10. lapsed' \in [DOMAIN outbox' -> Nat]
  BY <1>1, <1>4 DEF TypeInv, TypeOK
<1> QED BY <1>4, <1>6, <1>7, <1>8, <1>9, <1>10 DEF TypeInv, TypeOK

(* What Mark does to the outbox.                                           *)
LEMMA MarkType ==
  ASSUME TypeInv, NEW d \in Dispatchers, Mark(d)
  PROVE  TypeInv' /\ DOMAIN outbox' = DOMAIN outbox
<1>1. PICK x \in batch[d] :
        /\ First(d, x)
        /\ \/ /\ \E row \in Marked(d, x, outbox[x.id]) : outbox' = [outbox EXCEPT ![x.id] = row]
              /\ \/ /\ batch' = [batch EXCEPT ![d] = @ \ {x}]
                    /\ pc' = [pc EXCEPT ![d] = IF batch[d] = {x} THEN "idle" ELSE "next"]
                    /\ UNCHANGED faults
                 \/ Abandon(d) /\ Fault
           \/ Abandon(d) /\ UNCHANGED <<outbox, faults>>
  BY DEF Mark
<1>2. x \in Item /\ x.id \in DOMAIN outbox /\ outbox[x.id] \in Row
  BY <1>1, Ids DEF TypeInv, TypeOK, Known
<1>3. outbox' \in [DOMAIN outbox -> Row]
  <2>1. outbox \in [DOMAIN outbox -> Row]
    BY Ids DEF TypeInv, TypeOK
  <2>2. \A row \in Marked(d, x, outbox[x.id]) : row \in Row
    BY <1>2, MarkedType DEF TypeInv
  <2> QED BY <1>1, <1>2, <2>1, <2>2
<1>4. outbox' \in Seq(Row) /\ DOMAIN outbox' = DOMAIN outbox
  BY <1>3, Rewritten DEF TypeInv
<1>5. batch' \in [Dispatchers -> SUBSET Item] /\ Known'
  <2>1. batch \in [Dispatchers -> SUBSET Item] /\ Known
    BY DEF TypeInv, TypeOK
  <2>2. batch' = [batch EXCEPT ![d] = {}] \/ batch' = [batch EXCEPT ![d] = batch[d] \ {x}]
    BY <1>1 DEF Abandon
  <2> QED BY <1>4, <2>1, <2>2 DEF Known
<1>6. faults' \in Nat /\ pc' \in [Dispatchers -> {"idle", "next", "send", "mark", "down", "panicked"}]
  BY <1>1, Faults DEF TypeInv, TypeOK, Abandon
<1>7. result' \in [Dispatchers -> {"ok", "error"}]
  BY DEF Mark, TypeInv, TypeOK
<1>8. UNCHANGED <<clock, status, telegram, sendBy, waited, inflight, told, unsure, lapsed>>
  BY DEF Mark, history
<1> QED BY <1>4, <1>5, <1>6, <1>7, <1>8 DEF TypeInv, TypeOK

(* What a change of a booking does to the outbox.                          *)
LEMMA ChangeType ==
  ASSUME TypeInv, NEW b \in Bookings, NEW from \in {"none", "pending"},
         NEW to \in {"pending", "confirmed", "cancelled"}, Change(b, from, to)
  PROVE  TypeInv' /\ NoticeOf[to] \in Types /\ Enqueue(b, NoticeOf[to])
<1>1. NoticeOf[to] \in Types /\ Enqueue(b, NoticeOf[to])
  BY DEF Change, NoticeOf, Types
<1>2. /\ outbox' \in Seq(Row)
      /\ told' \in [DOMAIN outbox' -> Nat] /\ lapsed' \in [DOMAIN outbox' -> Nat]
      /\ DOMAIN outbox \subseteq DOMAIN outbox'
  BY <1>1, Appended DEF TypeInv
<1>3. status' \in [Bookings -> {"none", "pending", "confirmed", "cancelled"}]
  BY DEF Change, TypeInv, TypeOK
<1>4. UNCHANGED <<clock, telegram, pc, batch, result, sendBy, waited, inflight, unsure, faults>>
  BY DEF Change, dispatch
<1>5. inflight' \subseteq [by : Dispatchers, id : DOMAIN outbox', attempts : Nat]
  BY <1>2, <1>4 DEF TypeInv, TypeOK
<1>6. unsure' \subseteq DOMAIN outbox' /\ Known'
  BY <1>2, <1>4 DEF TypeInv, TypeOK, Known
<1> QED BY <1>1, <1>2, <1>3, <1>4, <1>5, <1>6 DEF TypeInv, TypeOK

(* An item that is being sent is a claimed row.                            *)
LEMMA SendingItem ==
  ASSUME TypeInv, NEW d \in Dispatchers, NEW x \in batch[d]
  PROVE  x \in Item /\ x.id \in DOMAIN outbox /\ x.id \in DOMAIN told /\ told[x.id] + 1 \in Nat
<1>1. x \in Item /\ x.id \in DOMAIN outbox
  BY DEF TypeInv, TypeOK, Known
<1> QED BY <1>1 DEF TypeInv, TypeOK

(* Counting an acceptance keeps the counts counts.                         *)
LEMMA ToldType ==
  ASSUME TypeInv, NEW i \in DOMAIN outbox
  PROVE  [told EXCEPT ![i] = @ + 1] \in [DOMAIN outbox -> Nat]
BY DEF TypeInv, TypeOK

(* The types of what a dispatcher works with.                              *)
LEMMA DispatchTypes ==
  ASSUME TypeInv
  PROVE  /\ pc \in [Dispatchers -> {"idle", "next", "send", "mark", "down", "panicked"}]
         /\ batch \in [Dispatchers -> SUBSET Item]
         /\ result \in [Dispatchers -> {"ok", "error"}]
         /\ sendBy \in [Dispatchers -> Nat]
         /\ waited \in [Dispatchers -> Nat]
         /\ telegram \in [Dispatchers -> {"ready", "failed"}]
BY DEF TypeInv, TypeOK

(* The steps of a send.                                                    *)
LEMMA SendType ==
  ASSUME TypeInv, NEW d \in Dispatchers,
         SendAccepted(d) \/ SendRefused(d) \/ SendTimesOut(d)
  PROVE  /\ TypeInv'
         /\ Returns(d, "ok") \/ Returns(d, "error")
         /\ UNCHANGED <<clock, status, outbox, telegram, batch, waited, lapsed, faults>>
<1>1. /\ Returns(d, "ok") \/ Returns(d, "error")
      /\ UNCHANGED <<clock, status, outbox, telegram, batch, waited, lapsed, faults>>
  BY DEF SendAccepted, SendRefused, SendTimesOut, history
<1>2. /\ pc' \in [Dispatchers -> {"idle", "next", "send", "mark", "down", "panicked"}]
      /\ result' \in [Dispatchers -> {"ok", "error"}]
      /\ sendBy' \in [Dispatchers -> Nat]
  BY <1>1, DispatchTypes DEF Returns
<1>3. told' \in [DOMAIN outbox -> Nat] /\ unsure' \subseteq DOMAIN outbox
  <2>1. \/ UNCHANGED told
        \/ \E x \in batch[d] : told' = [told EXCEPT ![x.id] = @ + 1]
    BY DEF SendAccepted, SendRefused, SendTimesOut, history
  <2>2. UNCHANGED unsure \/ \E x \in batch[d] : unsure' = unsure \cup {x.id}
    BY DEF SendAccepted, SendRefused, SendTimesOut, history
  <2>3. told \in [DOMAIN outbox -> Nat] /\ unsure \subseteq DOMAIN outbox
    BY DEF TypeInv, TypeOK
  <2> QED BY <2>1, <2>2, <2>3, SendingItem, ToldType
<1>4. inflight' \subseteq [by : Dispatchers, id : DOMAIN outbox, attempts : Nat]
  <2>1. inflight \subseteq [by : Dispatchers, id : DOMAIN outbox, attempts : Nat]
    BY DEF TypeInv, TypeOK
  <2>2. CASE UNCHANGED inflight
    BY <2>1, <2>2
  <2>3. CASE \E x \in batch[d] :
               inflight' = inflight \cup {[by |-> d, id |-> x.id, attempts |-> x.attempts]}
    BY <2>1, <2>3, SendingItem DEF Item
  <2> QED BY <2>2, <2>3 DEF SendAccepted, SendRefused, SendTimesOut
<1> QED BY <1>1, <1>2, <1>3, <1>4 DEF TypeInv, TypeOK, Known

(* The end of a process.                                                   *)
LEMMA DieType ==
  ASSUME TypeInv, NEW d \in Dispatchers, Crash(d) \/ SendPanics(d)
  PROVE  /\ TypeInv'
         /\ Die(d, "down") \/ Die(d, "panicked")
         /\ UNCHANGED <<clock, status, outbox, telegram, waited, lapsed>>
<1>1. /\ Die(d, "down") \/ Die(d, "panicked")
      /\ UNCHANGED <<clock, status, outbox, telegram, waited, unsure, lapsed>>
  BY DEF Crash, SendPanics, history
<1>2. /\ pc' \in [Dispatchers -> {"idle", "next", "send", "mark", "down", "panicked"}]
      /\ result' \in [Dispatchers -> {"ok", "error"}]
      /\ sendBy' \in [Dispatchers -> Nat]
      /\ batch' \in [Dispatchers -> SUBSET Item]
      /\ inflight' \subseteq inflight
  BY <1>1, DispatchTypes DEF Die
<1>3. faults' \in Nat
  BY Faults DEF Crash, SendPanics, TypeInv, TypeOK
<1>4. told' \in [DOMAIN outbox -> Nat]
  <2>1. \/ UNCHANGED told
        \/ \E x \in batch[d] : told' = [told EXCEPT ![x.id] = @ + 1]
    BY DEF Crash, SendPanics, history
  <2>2. told \in [DOMAIN outbox -> Nat]
    BY DEF TypeInv, TypeOK
  <2> QED BY <2>1, <2>2, SendingItem, ToldType
<1>5. Known'
  BY <1>1 DEF Die, TypeInv, TypeOK, Known
<1> QED BY <1>1, <1>2, <1>3, <1>4, <1>5 DEF TypeInv, TypeOK

(* The steps that leave outbox, batches and told as they are or shrink     *)
(* them.                                                                   *)
LEMMA RestType ==
  ASSUME TypeInv, NEW d \in Dispatchers,
         FetchNothing(d) \/ NextItem(d) \/ MarkFails(d) \/ Restart(d)
  PROVE  TypeInv' /\ UNCHANGED outbox
<1>1. UNCHANGED <<clock, status, outbox, inflight, told, unsure, lapsed>>
  BY DEF FetchNothing, NextItem, MarkFails, Restart, history
<1>2. /\ pc' \in [Dispatchers -> {"idle", "next", "send", "mark", "down", "panicked"}]
      /\ result' \in [Dispatchers -> {"ok", "error"}]
      /\ sendBy' \in [Dispatchers -> Nat]
      /\ batch' = batch \/ batch' = [batch EXCEPT ![d] = {}]
      /\ waited' \in [Dispatchers -> Nat]
      /\ telegram' \in [Dispatchers -> {"ready", "failed"}]
  <2>1. CASE FetchNothing(d)
    BY <2>1, DispatchTypes DEF FetchNothing
  <2>2. CASE NextItem(d)
    <3>1. PICK t \in Nat : t = clock + SendTimeout
      <4>1. SendTimeout \in Nat
        BY OutboxAssumption
      <4>2. clock \in Nat
        BY DEF TypeInv, TypeOK
      <4> QED BY <4>1, <4>2
    <3>2. \E y \in {"mark", "send"}, n \in {0, t} :
            pc' = [pc EXCEPT ![d] = y] /\ sendBy' = [sendBy EXCEPT ![d] = n]
      <4>1. PICK x \in batch[d] :
              /\ pc' = [pc EXCEPT ![d] = IF x.stale THEN "mark" ELSE "send"]
              /\ sendBy' = [sendBy EXCEPT ![d] = IF x.stale THEN 0 ELSE t]
        BY <2>2, <3>1 DEF NextItem
      <4> QED BY <4>1
    <3> QED BY <2>2, <3>2, DispatchTypes DEF NextItem
  <2>3. CASE MarkFails(d)
    BY <2>3, DispatchTypes DEF MarkFails, Abandon
  <2>4. CASE Restart(d)
    BY <2>4, DispatchTypes DEF Restart, Start, dispatch
  <2> QED BY <2>1, <2>2, <2>3, <2>4
<1>4. faults' \in Nat
  <2>1. UNCHANGED faults \/ Fault
    BY DEF FetchNothing, NextItem, MarkFails, Restart
  <2> QED BY <2>1, Faults DEF TypeInv, TypeOK
<1>5. batch' \in [Dispatchers -> SUBSET Item] /\ Known'
  BY <1>1, <1>2, DispatchTypes DEF TypeInv, Known
<1> QED BY <1>1, <1>2, <1>4, <1>5 DEF TypeInv, TypeOK

(* The end of a send that had timed out, and the clock.                    *)
LEMMA LateType ==
  ASSUME TypeInv, LateSendEnds
  PROVE  TypeInv' /\ UNCHANGED outbox
<1>1. UNCHANGED <<clock, status, outbox, telegram, pc, batch, result, sendBy, waited, unsure, lapsed, faults>>
  BY DEF LateSendEnds, dispatch
<1>2. inflight' \subseteq inflight
  BY DEF LateSendEnds
<1>3. told' \in [DOMAIN outbox -> Nat]
  <2>1. UNCHANGED told \/ \E s \in inflight : told' = [told EXCEPT ![s.id] = @ + 1]
    BY DEF LateSendEnds
  <2>2. \A s \in inflight : s.id \in DOMAIN outbox
    BY DEF TypeInv, TypeOK
  <2>3. told \in [DOMAIN outbox -> Nat]
    BY DEF TypeInv, TypeOK
  <2> QED BY <2>1, <2>2, <2>3, ToldType
<1> QED BY <1>1, <1>2, <1>3 DEF TypeInv, TypeOK, Known

(* The clock.                                                              *)
LEMMA TickType ==
  ASSUME TypeInv, Tick
  PROVE  TypeInv' /\ UNCHANGED outbox
<1>1. UNCHANGED <<status, outbox, telegram, pc, batch, result, sendBy, inflight, told, unsure, lapsed>>
  BY DEF Tick, history
<1>2. clock' \in Nat /\ faults' \in Nat
  BY Faults DEF Tick, TypeInv, TypeOK
<1>3. waited' \in [Dispatchers -> Nat]
  BY DEF Tick, TypeInv, TypeOK
<1> QED BY <1>1, <1>2, <1>3 DEF TypeInv, TypeOK, Known

(* Every step keeps the types.                                             *)
LEMMA TypeStep ==
  ASSUME TypeInv, [Next]_vars
  PROVE  TypeInv'
<1>1. ASSUME NEW b \in Bookings, Book(b) \/ Confirm(b) \/ Cancel(b) PROVE TypeInv'
  BY <1>1, ChangeType DEF Book, Confirm, Cancel
<1>2. ASSUME NEW d \in Dispatchers, Step(d) \/ MarkFails(d) \/ Crash(d) PROVE TypeInv'
  BY <1>2, FetchType, MarkType, SendType, DieType, RestType DEF Step, Send
<1>3. CASE LateSendEnds
  BY <1>3, LateType
<1>4. CASE Tick
  BY <1>4, TickType
<1>5. CASE UNCHANGED vars
  BY <1>5 DEF vars, dispatch, history, TypeInv, TypeOK, Known
<1> QED BY <1>1, <1>2, <1>3, <1>4, <1>5 DEF Next

(* Every reachable state of the outbox has the right types, whatever the   *)
(* constants are: a dispatcher only works on rows that exist, and the ids  *)
(* it remembers stay valid as the table grows.                             *)
THEOREM OutboxTypeCorrect == Spec => [](TypeOK /\ Known)
<1>1. Init => TypeInv
  BY EmptySeq DEF Init, TypeInv, TypeOK, Known
<1>2. TypeInv /\ [Next]_vars => TypeInv'
  BY TypeStep
<1> QED BY <1>1, <1>2, PTL DEF Spec, TypeInv

-----------------------------------------------------------------------------
(* Only a row that is not settled is claimed or marked.                    *)
LEMMA SettledKept ==
  ASSUME TypeInv, [Next]_vars, NEW i \in DOMAIN outbox, Settled(outbox[i])
  PROVE  outbox'[i] = outbox[i]
<1>1. ASSUME NEW b \in Bookings, Book(b) \/ Confirm(b) \/ Cancel(b)
      PROVE  outbox'[i] = outbox[i]
  <2>1. PICK type \in Types : Enqueue(b, type)
    BY <1>1, ChangeType DEF Book, Confirm, Cancel
  <2> QED BY <2>1, Appended DEF TypeInv
<1>2. ASSUME NEW d \in Dispatchers, Fetch(d)
      PROVE  outbox'[i] = outbox[i]
  <2>1. PICK T \in SUBSET DueIds :
          outbox' = [j \in DOMAIN outbox |-> IF j \in T THEN Claimed(outbox[j]) ELSE outbox[j]]
    BY <1>2 DEF Fetch, Picked
  <2>2. i \notin T
    BY DEF DueIds, Due, Settled
  <2> QED BY <2>1, <2>2
<1>3. ASSUME NEW d \in Dispatchers, Mark(d)
      PROVE  outbox'[i] = outbox[i]
  <2>1. PICK x \in batch[d] :
          \/ /\ MarkHolds(outbox[x.id])
             /\ \E row \in Marked(d, x, outbox[x.id]) : outbox' = [outbox EXCEPT ![x.id] = row]
          \/ UNCHANGED outbox
    BY <1>3 DEF Mark
  <2>2. MarkHolds(outbox[x.id]) => x.id # i
    BY DEF MarkHolds, Settled
  <2> QED BY <2>1, <2>2
<1>4. ASSUME NEW d \in Dispatchers, Send(d) \/ Crash(d) \/ FetchNothing(d) \/ NextItem(d)
                                     \/ MarkFails(d) \/ Restart(d)
      PROVE  UNCHANGED outbox
  BY <1>4, SendType, DieType, RestType DEF Send
<1>5. LateSendEnds \/ Tick \/ UNCHANGED vars => UNCHANGED outbox
  BY LateType, TickType DEF vars
<1> QED BY <1>1, <1>2, <1>3, <1>4, <1>5 DEF Next, Step

(* A sent or failed row is never claimed, marked or retried again, by      *)
(* however many dispatchers and after whatever loss of leases: a mark that *)
(* comes late finds another state and gives up.                            *)
THEOREM SettledIsFinal == Spec => SettledFinal
<1>1. TypeInv /\ [Next]_vars =>
        [\A i \in DOMAIN outbox : Settled(outbox[i]) => outbox'[i] = outbox[i]]_vars
  BY SettledKept
<1> QED BY <1>1, OutboxTypeCorrect, PTL DEF Spec, SettledFinal, TypeInv

-----------------------------------------------------------------------------
(* Who rewrites rows: a change of a booking, Fetch and Mark.               *)
LEMMA Writers ==
  ASSUME TypeInv, [Next]_vars
  PROVE  \/ \E b \in Bookings : Book(b) \/ Confirm(b) \/ Cancel(b)
         \/ \E d \in Dispatchers : Fetch(d)
         \/ \E d \in Dispatchers : Mark(d)
         \/ UNCHANGED <<status, outbox>>
<1>1. ASSUME NEW d \in Dispatchers, Send(d) \/ Crash(d) \/ FetchNothing(d) \/ NextItem(d)
                                     \/ MarkFails(d) \/ Restart(d)
      PROVE  UNCHANGED <<status, outbox>>
  <2>1. CASE Send(d) \/ Crash(d)
    BY <2>1, SendType, DieType DEF Send
  <2>2. CASE FetchNothing(d) \/ NextItem(d) \/ MarkFails(d) \/ Restart(d)
    BY <2>2 DEF FetchNothing, NextItem, MarkFails, Restart
  <2> QED BY <1>1, <2>1, <2>2
<1>2. LateSendEnds \/ Tick \/ UNCHANGED vars => UNCHANGED <<status, outbox>>
  BY DEF LateSendEnds, Tick, vars
<1> QED BY <1>1, <1>2 DEF Next, Step

(* A claimed row is leased and has one attempt more.                       *)
LEMMA FetchRows ==
  ASSUME TypeInv, NEW d \in Dispatchers, Fetch(d)
  PROVE  /\ UNCHANGED <<status, told>>
         /\ \E T \in SUBSET DOMAIN outbox :
              /\ \A i \in DOMAIN outbox :
                   IF i \in T
                   THEN /\ outbox'[i].booking = outbox[i].booking
                        /\ outbox'[i].type = outbox[i].type
                        /\ outbox'[i].attempts = outbox[i].attempts + 1
                        /\ outbox'[i].state = "processing"
                   ELSE outbox'[i] = outbox[i]
              /\ \/ /\ pc' = [pc EXCEPT ![d] = "next"]
                    /\ batch' = [batch EXCEPT ![d] = {Snapshot(i) : i \in T}]
                 \/ UNCHANGED <<pc, batch>>
<1>1. PICK T \in SUBSET DueIds :
        /\ outbox' = [i \in DOMAIN outbox |-> IF i \in T THEN Claimed(outbox[i]) ELSE outbox[i]]
        /\ \/ /\ pc' = [pc EXCEPT ![d] = "next"]
              /\ batch' = [batch EXCEPT ![d] = {Snapshot(i) : i \in T}]
           \/ UNCHANGED <<pc, batch>>
  BY DEF Fetch, Picked
<1>2. T \in SUBSET DOMAIN outbox
  BY DEF DueIds
<1>3. \A row \in Row : /\ Claimed(row).booking = row.booking
                       /\ Claimed(row).type = row.type
                       /\ Claimed(row).attempts = row.attempts + 1
                       /\ Claimed(row).state = "processing"
  BY DEF Claimed, Row
<1>4. UNCHANGED <<status, told>>
  BY DEF Fetch, history
<1>5. \A i \in DOMAIN outbox : outbox[i] \in Row
  BY Ids DEF TypeInv
<1> QED BY <1>1, <1>2, <1>3, <1>4, <1>5

(* A row is marked sent after an ok, failed after its last attempt.        *)
LEMMA MarkRows ==
  ASSUME TypeInv, NEW d \in Dispatchers, Mark(d)
  PROVE  /\ UNCHANGED <<status, told>>
         /\ \E x \in batch[d] :
              /\ First(d, x)
              /\ \A i \in DOMAIN outbox : i # x.id => outbox'[i] = outbox[i]
              /\ \/ outbox'[x.id] = outbox[x.id]
                 \/ /\ outbox'[x.id].booking = outbox[x.id].booking
                    /\ outbox'[x.id].type = outbox[x.id].type
                    /\ outbox'[x.id].attempts = outbox[x.id].attempts
                    /\ outbox'[x.id].state = "sent" => result[d] = "ok"
                    /\ outbox'[x.id].state = "failed" => Exhausted(x)
              /\ batch' = [batch EXCEPT ![d] = {}] \/ batch' = [batch EXCEPT ![d] = @ \ {x}]
         /\ \E next \in {"idle", "next"} : pc' = [pc EXCEPT ![d] = next]
<1>1. PICK x \in batch[d] :
        /\ First(d, x)
        /\ \/ /\ \E row \in Marked(d, x, outbox[x.id]) : outbox' = [outbox EXCEPT ![x.id] = row]
              /\ \/ /\ batch' = [batch EXCEPT ![d] = @ \ {x}]
                    /\ pc' = [pc EXCEPT ![d] = IF batch[d] = {x} THEN "idle" ELSE "next"]
                 \/ Abandon(d)
           \/ Abandon(d) /\ UNCHANGED outbox
  BY DEF Mark
<1>2. x \in Item /\ x.id \in DOMAIN outbox /\ outbox[x.id] \in Row
  BY <1>1, SendingItem, Ids DEF TypeInv
<1>3. \A row \in Marked(d, x, outbox[x.id]) :
        /\ row.booking = outbox[x.id].booking
        /\ row.type = outbox[x.id].type
        /\ row.attempts = outbox[x.id].attempts
        /\ row.state = "sent" => result[d] = "ok"
        /\ row.state = "failed" => Exhausted(x)
  BY <1>2, MarkedType DEF TypeInv
<1>4. \/ UNCHANGED outbox
      \/ \E row \in Marked(d, x, outbox[x.id]) : outbox' = [outbox EXCEPT ![x.id] = row]
  BY <1>1
<1>5. /\ \A i \in DOMAIN outbox : i # x.id => outbox'[i] = outbox[i]
      /\ \/ outbox'[x.id] = outbox[x.id]
         \/ /\ outbox'[x.id].booking = outbox[x.id].booking
            /\ outbox'[x.id].type = outbox[x.id].type
            /\ outbox'[x.id].attempts = outbox[x.id].attempts
            /\ outbox'[x.id].state = "sent" => result[d] = "ok"
            /\ outbox'[x.id].state = "failed" => Exhausted(x)
  <2>1. CASE UNCHANGED outbox
    BY <2>1
  <2>2. ASSUME NEW row \in Marked(d, x, outbox[x.id]), outbox' = [outbox EXCEPT ![x.id] = row]
        PROVE  /\ outbox'[x.id] = row
               /\ \A i \in DOMAIN outbox : i # x.id => outbox'[i] = outbox[i]
    BY <1>2, <2>2
  <2> QED BY <1>3, <1>4, <2>1, <2>2
<1>6. /\ batch' = [batch EXCEPT ![d] = {}] \/ batch' = [batch EXCEPT ![d] = @ \ {x}]
      /\ \E next \in {"idle", "next"} : pc' = [pc EXCEPT ![d] = next]
  BY <1>1 DEF Abandon
<1>7. UNCHANGED <<status, told>>
  BY DEF Mark, history
<1> QED BY <1>1, <1>5, <1>6, <1>7

(* A notice counts as told for ever.                                       *)
LEMMA ToldGrows ==
  ASSUME TypeInv, [Next]_vars, NEW i \in DOMAIN outbox
  PROVE  told'[i] >= told[i] /\ told[i] \in Nat /\ told'[i] \in Nat
<1>1. told \in [DOMAIN outbox -> Nat]
  BY DEF TypeInv, TypeOK
<1>2. CASE UNCHANGED told
  BY <1>1, <1>2
<1>3. CASE \E j \in DOMAIN outbox : told' = [told EXCEPT ![j] = @ + 1]
  BY <1>1, <1>3
<1>4. ASSUME NEW b \in Bookings, Book(b) \/ Confirm(b) \/ Cancel(b)
      PROVE  told'[i] = told[i]
  <2>1. PICK type \in Types : Enqueue(b, type)
    BY <1>4, ChangeType DEF Book, Confirm, Cancel
  <2> QED BY <2>1, Appended DEF TypeInv
<1>5. ASSUME NEW d \in Dispatchers, Step(d) \/ MarkFails(d) \/ Crash(d)
      PROVE  UNCHANGED told \/ \E j \in DOMAIN outbox : told' = [told EXCEPT ![j] = @ + 1]
  <2>1. \A x \in batch[d] : x.id \in DOMAIN outbox
    BY DEF TypeInv, Known
  <2>2. UNCHANGED told \/ \E x \in batch[d] : told' = [told EXCEPT ![x.id] = @ + 1]
    <3>1. CASE Send(d)
      BY <3>1 DEF Send, SendAccepted, SendRefused, SendTimesOut, SendPanics, history
    <3>2. CASE Crash(d)
      BY <3>2 DEF Crash
    <3>3. CASE Fetch(d) \/ FetchNothing(d) \/ NextItem(d) \/ Mark(d) \/ Restart(d) \/ MarkFails(d)
      BY <3>3 DEF Fetch, FetchNothing, NextItem, Mark, Restart, MarkFails, history
    <3> QED BY <1>5, <3>1, <3>2, <3>3 DEF Step
  <2> QED BY <2>1, <2>2
<1>6. LateSendEnds => UNCHANGED told \/ \E j \in DOMAIN outbox : told' = [told EXCEPT ![j] = @ + 1]
  BY DEF LateSendEnds, TypeInv, TypeOK
<1>7. Tick \/ UNCHANGED vars => UNCHANGED told
  BY DEF Tick, vars, history
<1> QED BY <1>1, <1>2, <1>3, <1>4, <1>5, <1>6, <1>7 DEF Next

(* A row keeps its id, its booking and its type, and attempts only grow.   *)
LEMMA RowKept ==
  ASSUME TypeInv, [Next]_vars, NEW i \in DOMAIN outbox
  PROVE  /\ i \in DOMAIN outbox'
         /\ outbox'[i].booking = outbox[i].booking
         /\ outbox'[i].type = outbox[i].type
         /\ outbox'[i].attempts >= outbox[i].attempts
         /\ outbox[i].attempts \in Nat /\ outbox'[i].attempts \in Nat
<1>1. outbox[i].attempts \in Nat
  BY Ids DEF TypeInv, Row
<1>2. ASSUME NEW b \in Bookings, Book(b) \/ Confirm(b) \/ Cancel(b)
      PROVE  i \in DOMAIN outbox' /\ outbox'[i] = outbox[i]
  <2>1. PICK type \in Types : Enqueue(b, type)
    BY <1>2, ChangeType DEF Book, Confirm, Cancel
  <2> QED BY <2>1, Appended DEF TypeInv
<1>3. ASSUME NEW d \in Dispatchers, Fetch(d)
      PROVE  /\ i \in DOMAIN outbox'
             /\ outbox'[i].booking = outbox[i].booking
             /\ outbox'[i].type = outbox[i].type
             /\ outbox'[i].attempts >= outbox[i].attempts
             /\ outbox'[i].attempts \in Nat
  BY <1>1, <1>3, FetchType, FetchRows
<1>4. ASSUME NEW d \in Dispatchers, Mark(d)
      PROVE  /\ i \in DOMAIN outbox'
             /\ outbox'[i].booking = outbox[i].booking
             /\ outbox'[i].type = outbox[i].type
             /\ outbox'[i].attempts = outbox[i].attempts
  BY <1>4, MarkType, MarkRows
<1> QED BY <1>1, <1>2, <1>3, <1>4, Writers

-----------------------------------------------------------------------------
(* What a change of a booking does to the statuses and the rows.           *)
LEMMA ChangeRows ==
  ASSUME TypeInv, NEW b \in Bookings, Book(b) \/ Confirm(b) \/ Cancel(b)
  PROVE  \E to \in {"pending", "confirmed", "cancelled"} :
           /\ status[b] = IF to = "pending" THEN "none" ELSE "pending"
           /\ status'[b] = to
           /\ \A c \in Bookings : c # b => status'[c] = status[c]
           /\ \A i \in DOMAIN outbox : outbox'[i] = outbox[i] /\ told'[i] = told[i]
           /\ \A i \in DOMAIN outbox' \ DOMAIN outbox :
                /\ outbox'[i].booking = b
                /\ outbox'[i].type = NoticeOf[to]
                /\ outbox'[i].state = "pending"
           /\ UNCHANGED <<pc, batch, result>>
<1>1. PICK to \in {"pending", "confirmed", "cancelled"} :
        Change(b, IF to = "pending" THEN "none" ELSE "pending", to)
  BY DEF Book, Confirm, Cancel
<1>2. NoticeOf[to] \in Types /\ Enqueue(b, NoticeOf[to])
  BY <1>1, ChangeType
<1>3. /\ \A i \in DOMAIN outbox : outbox'[i] = outbox[i] /\ told'[i] = told[i]
      /\ \A i \in DOMAIN outbox' \ DOMAIN outbox :
           \E c \in {"log", "email", "telegram"} : outbox'[i] = NewRow(b, NoticeOf[to], c)
  BY <1>2, Appended DEF TypeInv
<1>4. \A i \in DOMAIN outbox' \ DOMAIN outbox :
        /\ outbox'[i].booking = b
        /\ outbox'[i].type = NoticeOf[to]
        /\ outbox'[i].state = "pending"
  BY <1>3 DEF NewRow
<1>5. /\ status[b] = IF to = "pending" THEN "none" ELSE "pending"
      /\ status' = [status EXCEPT ![b] = to]
      /\ UNCHANGED <<pc, batch, result>>
  BY <1>1 DEF Change, dispatch
<1>6. status'[b] = to /\ \A c \in Bookings : c # b => status'[c] = status[c]
  BY <1>5 DEF TypeInv, TypeOK
<1> QED BY <1>3, <1>4, <1>5, <1>6

(* A booking has only rows of statuses it has had.                         *)
LEMMA NoticesStep ==
  ASSUME TypeInv, NoticesFollow, [Next]_vars
  PROVE  NoticesFollow'
<1>1. \A i \in DOMAIN outbox : outbox[i].booking \in Bookings
  BY Ids DEF TypeInv, Row
<1>2. ASSUME NEW b \in Bookings, Book(b) \/ Confirm(b) \/ Cancel(b)
      PROVE  NoticesFollow'
  <2>1. PICK to \in {"pending", "confirmed", "cancelled"} :
           /\ status[b] = IF to = "pending" THEN "none" ELSE "pending"
           /\ status'[b] = to
           /\ \A c \in Bookings : c # b => status'[c] = status[c]
           /\ \A i \in DOMAIN outbox : outbox'[i] = outbox[i]
           /\ \A i \in DOMAIN outbox' \ DOMAIN outbox :
                outbox'[i].booking = b /\ outbox'[i].type = NoticeOf[to]
    BY <1>2, ChangeRows
  <2>2. to = "pending" => NoticeOf[to] = "booking_created"
    BY DEF NoticeOf
  <2>3. ASSUME NEW i \in DOMAIN outbox'
        PROVE  /\ status'[outbox'[i].booking] # "none"
               /\ status'[outbox'[i].booking] = "pending" => outbox'[i].type = "booking_created"
    <3>1. CASE i \in DOMAIN outbox
      BY <1>1, <2>1, <3>1 DEF NoticesFollow
    <3>2. CASE i \notin DOMAIN outbox
      BY <2>1, <2>2, <2>3, <3>2
    <3> QED BY <3>1, <3>2
  <2> QED BY <2>3 DEF NoticesFollow
<1>3. CASE UNCHANGED status /\ DOMAIN outbox' = DOMAIN outbox
  BY <1>3, RowKept DEF NoticesFollow
<1>4. ASSUME NEW d \in Dispatchers, Fetch(d) \/ Mark(d)
      PROVE  UNCHANGED status /\ DOMAIN outbox' = DOMAIN outbox
  BY <1>4, FetchType, FetchRows, MarkType, MarkRows
<1>5. UNCHANGED <<status, outbox>> => UNCHANGED status /\ DOMAIN outbox' = DOMAIN outbox
  OBVIOUS
<1> QED BY <1>2, <1>3, <1>4, <1>5, Writers

(* A stale notice stays stale: statuses never go back.                     *)
LEMMA StaleStays ==
  ASSUME TypeInv, NoticesFollow, [Next]_vars, NEW i \in DOMAIN outbox, Stale(outbox[i])
  PROVE  Stale(outbox[i])'
<1>1. outbox[i].booking \in Bookings
  BY Ids DEF TypeInv, Row
<1>2. outbox'[i].booking = outbox[i].booking /\ outbox'[i].type = outbox[i].type
  BY RowKept
<1>3. UNCHANGED status => Stale(outbox[i])'
  BY <1>2 DEF Stale
<1>4. ASSUME NEW b \in Bookings, Book(b) \/ Confirm(b) \/ Cancel(b)
      PROVE  Stale(outbox[i])'
  <2>1. PICK to \in {"pending", "confirmed", "cancelled"} :
           /\ status[b] = IF to = "pending" THEN "none" ELSE "pending"
           /\ status'[b] = to
           /\ \A c \in Bookings : c # b => status'[c] = status[c]
    BY <1>4, ChangeRows
  <2>2. CASE outbox[i].booking # b
    BY <1>1, <1>2, <2>1, <2>2 DEF Stale
  <2>3. CASE outbox[i].booking = b
    <3>1. to # "pending" /\ outbox[i].type = "booking_created"
      BY <2>1, <2>3 DEF NoticesFollow
    <3> QED BY <1>2, <2>1, <2>3, <3>1 DEF Stale, NoticeOf
  <2> QED BY <2>2, <2>3
<1>5. \A d \in Dispatchers : Fetch(d) \/ Mark(d) => UNCHANGED status
  BY FetchRows, MarkRows
<1> QED BY <1>3, <1>4, <1>5, Writers

(* Which items a step leaves in the batches: old ones, and those of rows   *)
(* it has just claimed.                                                    *)
LEMMA BatchStep ==
  ASSUME TypeInv, [Next]_vars, NEW d \in Dispatchers, NEW x \in batch'[d]
  PROVE  \/ x \in batch[d]
         \/ /\ Fetch(d)
            /\ \E i \in DOMAIN outbox :
                 /\ x = Snapshot(i)
                 /\ outbox'[i].attempts = outbox[i].attempts + 1
<1>1. batch \in [Dispatchers -> SUBSET Item]
  BY DispatchTypes
<1>2. ASSUME NEW e \in Dispatchers, Fetch(e)
      PROVE  \/ x \in batch[d]
             \/ /\ Fetch(d)
                /\ \E i \in DOMAIN outbox :
                     /\ x = Snapshot(i)
                     /\ outbox'[i].attempts = outbox[i].attempts + 1
  <2>1. PICK T \in SUBSET DOMAIN outbox :
          /\ \A i \in T : outbox'[i].attempts = outbox[i].attempts + 1
          /\ \/ batch' = [batch EXCEPT ![e] = {Snapshot(i) : i \in T}]
             \/ UNCHANGED batch
    BY <1>2, FetchRows
  <2>2. CASE d = e
    BY <1>1, <1>2, <2>1, <2>2
  <2>3. CASE d # e
    BY <1>1, <2>1, <2>3
  <2> QED BY <2>2, <2>3
<1>3. ASSUME NEW e \in Dispatchers,
             \/ Mark(e) \/ MarkFails(e) \/ Crash(e) \/ Send(e)
             \/ FetchNothing(e) \/ NextItem(e) \/ Restart(e)
      PROVE  \/ UNCHANGED batch
             \/ batch' = [batch EXCEPT ![e] = {}]
             \/ \E y \in batch[e] : batch' = [batch EXCEPT ![e] = @ \ {y}]
  <2>1. CASE Mark(e)
    BY <2>1, MarkRows
  <2>2. CASE MarkFails(e)
    BY <2>2 DEF MarkFails, Abandon
  <2>3. CASE Crash(e) \/ SendPanics(e)
    BY <2>3, DieType DEF Die
  <2>4. CASE SendAccepted(e) \/ SendRefused(e) \/ SendTimesOut(e)
    BY <2>4, SendType
  <2>5. CASE FetchNothing(e) \/ NextItem(e) \/ Restart(e)
    BY <2>5 DEF FetchNothing, NextItem, Restart, dispatch
  <2> QED BY <1>3, <2>1, <2>2, <2>3, <2>4, <2>5 DEF Send
<1>4. ASSUME NEW e \in Dispatchers,
             \/ UNCHANGED batch
             \/ batch' = [batch EXCEPT ![e] = {}]
             \/ \E y \in batch[e] : batch' = [batch EXCEPT ![e] = @ \ {y}]
      PROVE  x \in batch[d]
  BY <1>1, <1>4
<1>5. ASSUME NEW b \in Bookings, Book(b) \/ Confirm(b) \/ Cancel(b)
      PROVE  x \in batch[d]
  BY <1>5, ChangeRows
<1>6. LateSendEnds \/ Tick \/ UNCHANGED vars => x \in batch[d]
  BY DEF LateSendEnds, Tick, vars, dispatch
<1> QED BY <1>2, <1>3, <1>4, <1>5, <1>6 DEF Next, Step

(* What a dispatcher remembers stays true as far as a mark relies on it.   *)
LEMMA BatchesStep ==
  ASSUME TypeInv, NoticesFollow, BatchesKnown, [Next]_vars
  PROVE  BatchesKnown'
<1> SUFFICES ASSUME NEW d \in Dispatchers, NEW x \in batch'[d]
             PROVE  /\ x.id \in DOMAIN outbox'
                    /\ x.attempts <= outbox'[x.id].attempts
                    /\ x.stale => Stale(outbox[x.id])'
  BY DEF BatchesKnown
<1>1. CASE x \in batch[d]
  <2>1. /\ x.id \in DOMAIN outbox
        /\ x.attempts <= outbox[x.id].attempts
        /\ x.stale => Stale(outbox[x.id])
    BY <1>1 DEF BatchesKnown
  <2>2. x.attempts \in Nat
    BY <1>1, SendingItem DEF Item
  <2> QED BY <2>1, <2>2, RowKept, StaleStays
<1>2. ASSUME NEW i \in DOMAIN outbox, x = Snapshot(i),
             outbox'[i].attempts = outbox[i].attempts + 1
      PROVE  /\ x.id \in DOMAIN outbox'
             /\ x.attempts <= outbox'[x.id].attempts
             /\ x.stale => Stale(outbox[x.id])'
  <2>1. x.id = i /\ x.attempts = outbox[i].attempts + 1 /\ x.stale = Stale(outbox[i])
    BY <1>2 DEF Snapshot
  <2>2. i \in DOMAIN outbox' /\ outbox[i].attempts \in Nat
    BY RowKept
  <2> QED BY <1>2, <2>1, <2>2, StaleStays
<1> QED BY <1>1, <1>2, BatchStep

(* A row that was accepted or is stale remains so.                         *)
LEMMA EarnedStays ==
  ASSUME TypeInv, NoticesFollow, [Next]_vars, NEW i \in DOMAIN outbox,
         told[i] > 0 \/ Stale(outbox[i])
  PROVE  (told[i] > 0 \/ Stale(outbox[i]))'
BY ToldGrows, StaleStays

(* A row becomes sent only in a mark after an ok, and failed only after    *)
(* its last attempt.                                                       *)
LEMMA SettledStep ==
  ASSUME TypeInv, NoticesFollow, BatchesKnown, OkEarned, SettledTruly, [Next]_vars
  PROVE  SettledTruly'
<1>1. ASSUME NEW i \in DOMAIN outbox, outbox'[i].state = outbox[i].state
      PROVE  /\ outbox'[i].state = "sent" => (told[i] > 0 \/ Stale(outbox[i]))'
             /\ outbox'[i].state = "failed" => outbox'[i].attempts >= MaxAttempts
  <2>1. MaxAttempts \in Nat
    BY OutboxAssumption
  <2> QED BY <1>1, <2>1, EarnedStays, RowKept DEF SettledTruly
<1>2. ASSUME NEW b \in Bookings, Book(b) \/ Confirm(b) \/ Cancel(b)
      PROVE  SettledTruly'
  <2>1. /\ \A i \in DOMAIN outbox : outbox'[i] = outbox[i]
        /\ \A i \in DOMAIN outbox' \ DOMAIN outbox : outbox'[i].state = "pending"
    BY <1>2, ChangeRows
  <2> QED BY <1>1, <2>1 DEF SettledTruly
<1>3. ASSUME NEW d \in Dispatchers, Fetch(d)
      PROVE  SettledTruly'
  <2>1. /\ DOMAIN outbox' = DOMAIN outbox
        /\ \A i \in DOMAIN outbox : outbox'[i] = outbox[i] \/ outbox'[i].state = "processing"
    BY <1>3, FetchType, FetchRows
  <2> QED BY <1>1, <2>1 DEF SettledTruly
<1>4. ASSUME NEW d \in Dispatchers, Mark(d)
      PROVE  SettledTruly'
  <2>1. DOMAIN outbox' = DOMAIN outbox
    BY <1>4, MarkType
  <2>2. PICK x \in batch[d] :
          /\ First(d, x)
          /\ \A i \in DOMAIN outbox : i # x.id => outbox'[i] = outbox[i]
          /\ \/ outbox'[x.id] = outbox[x.id]
             \/ /\ outbox'[x.id].attempts = outbox[x.id].attempts
                /\ outbox'[x.id].state = "sent" => result[d] = "ok"
                /\ outbox'[x.id].state = "failed" => Exhausted(x)
    BY <1>4, MarkRows
  <2>3. x.id \in DOMAIN outbox /\ x.attempts \in Nat /\ x.attempts <= outbox[x.id].attempts
    BY SendingItem DEF BatchesKnown, Item
  <2>4. outbox'[x.id].state = "sent" => (told[x.id] > 0 \/ Stale(outbox[x.id]))'
    <3>1. result[d] = "ok" => told[x.id] > 0 \/ Stale(outbox[x.id])
      BY <1>4, <2>2 DEF OkEarned, Mark
    <3> QED BY <1>1, <2>2, <2>3, <3>1, EarnedStays
  <2>5. outbox'[x.id].state = "failed" => outbox'[x.id].attempts >= MaxAttempts
    <3>1. MaxAttempts \in Nat /\ outbox[x.id].attempts \in Nat
      BY <2>3, OutboxAssumption, RowKept
    <3>2. Exhausted(x) => outbox[x.id].attempts >= MaxAttempts
      BY <2>3, <3>1 DEF Exhausted
    <3> QED BY <1>1, <2>2, <2>3, <3>2
  <2>6. ASSUME NEW i \in DOMAIN outbox'
        PROVE  /\ outbox'[i].state = "sent" => (told[i] > 0 \/ Stale(outbox[i]))'
               /\ outbox'[i].state = "failed" => outbox'[i].attempts >= MaxAttempts
    <3>1. CASE i = x.id
      BY <2>4, <2>5, <3>1
    <3>2. CASE i # x.id
      BY <1>1, <2>1, <2>2, <3>2
    <3> QED BY <3>1, <3>2
  <2> QED BY <2>6 DEF SettledTruly
<1>5. CASE UNCHANGED <<status, outbox>>
  <2>1. \A i \in DOMAIN outbox' : i \in DOMAIN outbox /\ outbox'[i].state = outbox[i].state
    BY <1>5
  <2> QED BY <1>1, <2>1 DEF SettledTruly
<1> QED BY <1>2, <1>3, <1>4, <1>5, Writers

(* How a dispatcher comes to be about to mark a row sent: it was so        *)
(* already, the row is stale, or its notifier has just accepted it.        *)
LEMMA ToMark ==
  ASSUME TypeInv, [Next]_vars, NEW d \in Dispatchers,
         pc'[d] = "mark", result'[d] = "ok"
  PROVE  /\ batch'[d] = batch[d]
         /\ \/ pc[d] = "mark" /\ result[d] = "ok"
            \/ NextItem(d) /\ \E x \in batch[d] : First(d, x) /\ x.stale
            \/ SendAccepted(d)
<1>1. ASSUME NEW b \in Bookings, Book(b) \/ Confirm(b) \/ Cancel(b)
      PROVE  UNCHANGED <<pc, batch, result>>
  BY <1>1, ChangeRows
<1>2. LateSendEnds \/ Tick \/ UNCHANGED vars => UNCHANGED <<pc, batch, result>>
  BY DEF LateSendEnds, Tick, vars, dispatch
<1>3. ASSUME NEW e \in Dispatchers, e # d, Step(e) \/ MarkFails(e) \/ Crash(e)
      PROVE  pc'[d] = pc[d] /\ batch'[d] = batch[d] /\ result'[d] = result[d]
  <2>1. CASE Fetch(e) \/ FetchNothing(e)
    BY <1>3, <2>1, DispatchTypes DEF Fetch, FetchNothing
  <2>2. CASE NextItem(e)
    <3>1. \E next \in {"mark", "send"} : pc' = [pc EXCEPT ![e] = next]
      BY <2>2 DEF NextItem
    <3>2. UNCHANGED <<batch, result>>
      BY <2>2 DEF NextItem
    <3> QED BY <1>3, <3>1, <3>2
  <2>3. CASE SendAccepted(e) \/ SendRefused(e) \/ SendTimesOut(e)
    BY <1>3, <2>3, SendType, DispatchTypes DEF Returns
  <2>4. CASE SendPanics(e) \/ Crash(e)
    BY <1>3, <2>4, DieType, DispatchTypes DEF Die
  <2>5. CASE Mark(e)
    <3>1. \E next \in {"idle", "next"} : pc' = [pc EXCEPT ![e] = next]
      BY <2>5, MarkRows
    <3>2. \E B \in SUBSET Item : batch' = [batch EXCEPT ![e] = B]
      BY <2>5, MarkRows, DispatchTypes
    <3>3. result' = [result EXCEPT ![e] = "ok"]
      BY <2>5 DEF Mark
    <3> QED BY <1>3, <3>1, <3>2, <3>3
  <2>6. CASE MarkFails(e)
    BY <1>3, <2>6 DEF MarkFails, Abandon
  <2>7. CASE Restart(e)
    BY <1>3, <2>7 DEF Restart, dispatch
  <2> QED BY <1>3, <2>1, <2>2, <2>3, <2>4, <2>5, <2>6, <2>7 DEF Step, Send
<1>4. CASE Fetch(d)
  <2>1. pc' = [pc EXCEPT ![d] = "next"] \/ UNCHANGED pc
    BY <1>4, FetchRows
  <2>2. pc[d] = "idle"
    BY <1>4 DEF Fetch
  <2> QED BY <2>1, <2>2, DispatchTypes
<1>5. CASE FetchNothing(d)
  BY <1>5 DEF FetchNothing
<1>6. CASE NextItem(d)
  <2>1. PICK x \in batch[d] :
          First(d, x) /\ pc' = [pc EXCEPT ![d] = IF x.stale THEN "mark" ELSE "send"]
    BY <1>6 DEF NextItem
  <2>2. x.stale /\ UNCHANGED batch
    BY <1>6, <2>1 DEF NextItem
  <2> QED BY <1>6, <2>1, <2>2
<1>7. CASE SendAccepted(d)
  BY <1>7, SendType
<1>8. CASE SendRefused(d) \/ SendTimesOut(d)
  <2>1. Returns(d, "error")
    BY <1>8 DEF SendRefused, SendTimesOut
  <2> QED BY <2>1, DispatchTypes DEF Returns
<1>9. CASE SendPanics(d) \/ Crash(d)
  BY <1>9, DieType, DispatchTypes DEF Die
<1>10. CASE Mark(d)
  BY <1>10, MarkRows, DispatchTypes
<1>11. CASE MarkFails(d)
  BY <1>11, DispatchTypes DEF MarkFails, Abandon
<1>12. CASE Restart(d)
  BY <1>12 DEF Restart
<1>13. CASE UNCHANGED <<pc, batch, result>>
  BY <1>13
<1>14. CASE pc'[d] = pc[d] /\ batch'[d] = batch[d] /\ result'[d] = result[d]
  BY <1>14
<1>15. \/ \E b \in Bookings : Book(b) \/ Confirm(b) \/ Cancel(b)
       \/ LateSendEnds \/ Tick \/ UNCHANGED vars
       \/ \E e \in Dispatchers : e # d /\ (Step(e) \/ MarkFails(e) \/ Crash(e))
       \/ Fetch(d) \/ FetchNothing(d) \/ NextItem(d) \/ SendAccepted(d)
       \/ SendRefused(d) \/ SendTimesOut(d) \/ SendPanics(d) \/ Crash(d)
       \/ Mark(d) \/ MarkFails(d) \/ Restart(d)
  BY DEF Next, Step, Send
<1> QED BY <1>1, <1>2, <1>3, <1>4, <1>5, <1>6, <1>7, <1>8, <1>9, <1>10, <1>11, <1>12, <1>13, <1>14, <1>15

(* Only what was accepted, or is stale, is about to be marked sent.        *)
LEMMA OkStep ==
  ASSUME TypeInv, NoticesFollow, BatchesKnown, OkEarned, [Next]_vars
  PROVE  OkEarned'
<1> SUFFICES ASSUME NEW d \in Dispatchers, pc'[d] = "mark", result'[d] = "ok",
                    NEW x \in batch'[d], First(d, x)'
             PROVE  (told[x.id] > 0 \/ Stale(outbox[x.id]))'
  BY DEF OkEarned
<1>1. x \in batch[d] /\ First(d, x)
  BY ToMark DEF First
<1>2. x.id \in DOMAIN outbox /\ x.id \in Nat
  BY <1>1, SendingItem DEF Item
<1>3. \A y \in batch[d] : First(d, y) => y.id = x.id
  <2>1. \A y \in batch[d] : y.id \in Nat
    BY SendingItem DEF Item
  <2> QED BY <1>1, <1>2, <2>1 DEF First
<1>4. CASE pc[d] = "mark" /\ result[d] = "ok"
  BY <1>1, <1>2, <1>4, EarnedStays DEF OkEarned
<1>5. CASE \E y \in batch[d] : First(d, y) /\ y.stale
  BY <1>2, <1>3, <1>5, EarnedStays DEF BatchesKnown
<1>6. CASE SendAccepted(d)
  <2>1. PICK y \in batch[d] : First(d, y) /\ told' = [told EXCEPT ![y.id] = @ + 1]
    BY <1>6 DEF SendAccepted, Sending
  <2>2. told \in [DOMAIN outbox -> Nat]
    BY DEF TypeInv, TypeOK
  <2> QED BY <1>2, <1>3, <2>1, <2>2
<1> QED BY <1>4, <1>5, <1>6, ToMark

(* TruthInv is inductive.                                                  *)
LEMMA TruthStep ==
  ASSUME TruthInv, [Next]_vars
  PROVE  TruthInv'
<1>1. TypeInv
  BY DEF TruthInv, TypeInv, Known, BatchesKnown
<1>2. TypeInv'
  BY <1>1, TypeStep
<1> QED BY <1>1, <1>2, BatchesStep, NoticesStep, OkStep, SettledStep DEF TruthInv, TypeInv

(* What a dispatcher remembers of its batch is still true of the rows.     *)
THEOREM TruthInvariance == Spec => []TruthInv
<1>1. Init => TruthInv
  <2>1. Init => TypeOK
    BY EmptySeq DEF Init, TypeOK
  <2>2. Init => /\ \A d \in Dispatchers : batch[d] = {}
                /\ DOMAIN outbox = {}
    BY EmptySeq DEF Init
  <2> QED BY <2>1, <2>2 DEF TruthInv, BatchesKnown, NoticesFollow, OkEarned, SettledTruly
<1>2. TruthInv /\ [Next]_vars => TruthInv'
  BY TruthStep
<1> QED BY <1>1, <1>2, PTL DEF Spec

(* A row marked sent was accepted by its notifier, or the booking had      *)
(* moved on; a row marked failed has had all its attempts.  The two        *)
(* unfenced facts a mark relies on, that the send succeeded and how many   *)
(* attempts were counted, are still true when it is applied.               *)
THEOREM SettledIsTrue == Spec => []SettledTruly
<1>1. TruthInv => SettledTruly
  BY DEF TruthInv
<1> QED BY <1>1, TruthInvariance, PTL
=============================================================================
