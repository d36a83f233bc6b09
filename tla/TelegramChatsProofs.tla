------------------------- MODULE TelegramChatsProofs -------------------------
(* Proofs about TelegramChats, for any people, names and groups and any    *)
(* number of messages, stops and failing writes.                           *)
EXTENDS TelegramChats, FiniteSetTheorems, SequenceTheorems, TLAPS

(* Two spellings of a name are normalised to one, and again to the same.   *)
LEMMA NormalizeHandle ==
  ASSUME NEW h \in Handles
  PROVE  /\ Normalize(h) \in Handles /\ Normalize(h).name = h.name
         /\ Normalize(Normalize(h)) = Normalize(h)
         /\ \A k \in Handles : k.name = h.name => Normalize(k) = Normalize(h)
  BY DEF Normalize, Handles

(* Taking an element out of a sequence adds none.                          *)
LEMMA WithoutElements ==
  ASSUME NEW S, NEW s \in Seq(S), NEW i \in 1..Len(s)
  PROVE  /\ Without(s, i) \in Seq(S)
         /\ \A j \in 1..Len(Without(s, i)) : \E l \in 1..Len(s) : Without(s, i)[j] = s[l]
<1>1. Len(s) \in Nat /\ Len(s) - 1 \in Nat /\ \A j \in 1..Len(s) : s[j] \in S
  OBVIOUS
<1>2. \A j \in 1..Len(s) - 1 : j \in 1..Len(s) /\ j + 1 \in 1..Len(s)
  BY <1>1
<1>3. \A j \in 1..Len(s) - 1 : (IF j < i THEN s[j] ELSE s[j + 1]) \in S
  BY <1>1, <1>2
<1>4. Without(s, i) \in [1..Len(s) - 1 -> S]
  BY <1>3 DEF Without
<1>5. Without(s, i) \in Seq(S) /\ Len(Without(s, i)) = Len(s) - 1
  BY <1>1, <1>4
<1>6. \A j \in 1..Len(s) - 1 : Without(s, i)[j] = s[j] \/ Without(s, i)[j] = s[j + 1]
  BY DEF Without
<1> QED
  BY <1>2, <1>5, <1>6

(* At the start nothing was written and the table is empty.                *)
LEMMA InitInv == Init => WritersInv
<1>1. SUFFICES ASSUME Init PROVE WritersInv
  OBVIOUS
<1> USE <1>1 DEF Init
<1>2. TypeOK
  BY TelegramAssumption DEF TypeOK
<1>3. WritersKnown
  BY FS_EmptySet DEF WritersKnown
<1> QED
  BY <1>2, <1>3 DEF WritersInv, OnlyToWriters

(* A send under way keeps its chat while the messages only become more.    *)
LEMMA SendKept ==
  ASSUME OnlyToWriters, mail' = mail \/ mail' = None, written \subseteq written'
  PROVE  OnlyToWriters'
  BY DEF OnlyToWriters

-----------------------------------------------------------------------------
LEMMA RenameStep ==
  ASSUME WritersInv, NEW p \in People, Rename(p)
  PROVE  WritersInv'
<1>1. holds' \in [People -> Handles \cup {None}]
  BY DEF WritersInv, TypeOK, Rename
<1>2. UNCHANGED <<written, inbox, given, buffer, listening, chats, mail, crashes, failures>>
  BY DEF Rename, process
<1>3. TypeOK'
  BY <1>1, <1>2 DEF WritersInv, TypeOK
<1>4. WritersKnown'
  BY <1>2 DEF WritersInv, WritersKnown
<1> QED
  BY <1>2, <1>3, <1>4, SendKept DEF WritersInv

(* A message is written under the name that its author holds.              *)
LEMMA WriteStep ==
  ASSUME WritersInv, NEW p \in People, NEW c \in Chats, Write(p, c)
  PROVE  WritersInv'
<1> USE TelegramAssumption
<1> DEFINE u == [from |-> holds[p], chat |-> c, id |-> NextId]
<1>1. NextId \in 1..MaxWrites
  <2>1. Cardinality(written) \in Nat
    BY FS_CardinalityType DEF WritersInv, WritersKnown
  <2> QED
    BY <2>1 DEF Write, NextId
<1>2. u \in Updates
  BY <1>1 DEF WritersInv, TypeOK, Updates
<1>3. /\ inbox' = Append(inbox, u) /\ written' = written \cup {u}
      /\ UNCHANGED <<holds, given, buffer, listening, chats, mail, crashes, failures>>
  BY DEF Write, process
<1> HIDE DEF u
<1>4. /\ inbox' \in Seq(Updates) /\ Len(inbox') = Len(inbox) + 1
      /\ \A i \in 1..Len(inbox') : inbox'[i] = IF i = Len(inbox) + 1 THEN u ELSE inbox[i]
  BY <1>2, <1>3 DEF WritersInv, TypeOK
<1>5. TypeOK'
  <2>1. given' \in 0..Len(inbox')
    BY <1>3, <1>4 DEF WritersInv, TypeOK
  <2> QED
    BY <1>2, <1>3, <1>4, <2>1 DEF WritersInv, TypeOK
<1>6. IsFiniteSet(written')
  BY <1>3, FS_AddElement DEF WritersInv, WritersKnown
<1>7. \A i \in 1..Len(inbox') : inbox'[i] \in written'
  <2>1. Len(inbox) \in Nat /\ \A i \in 1..Len(inbox) : inbox[i] \in written
    BY DEF WritersInv, TypeOK, WritersKnown
  <2> QED
    BY <1>3, <1>4, <2>1
<1>8. WritersKnown'
  BY <1>3, <1>6, <1>7 DEF WritersInv, WritersKnown
<1> QED
  BY <1>3, <1>5, <1>8, SendKept DEF WritersInv

(* A poll hands on messages that were written.                             *)
LEMMA PollStep ==
  ASSUME WritersInv, Poll
  PROVE  WritersInv'
<1> DEFINE rest == SubSeq(inbox, given + 1, Len(inbox))
<1>1. /\ inbox' = rest /\ given' = Len(rest) /\ buffer' = buffer \o rest
      /\ UNCHANGED <<holds, written, listening, chats, mail, crashes, failures>>
  BY DEF Poll, Offset, people
<1>2. inbox \in Seq(Updates) /\ given \in 0..Len(inbox) /\ buffer \in Seq(Updates)
  BY DEF WritersInv, TypeOK
<1>3. /\ rest \in Seq(Updates) /\ Len(rest) = Len(inbox) - given
      /\ \A i \in 1..Len(rest) : rest[i] = inbox[given + i]
  <2>1. given + 1 \in 1..Len(inbox) + 1 /\ Len(inbox) \in Nat
    BY <1>2
  <2> QED
    BY <1>2, <2>1
<1> HIDE DEF rest
<1>4. \A i \in 1..Len(rest) : rest[i] \in written
  <2>1. \A i \in 1..Len(rest) : given + i \in 1..Len(inbox)
    BY <1>2, <1>3
  <2> QED
    BY <1>3, <2>1 DEF WritersInv, WritersKnown
<1>5. /\ buffer' \in Seq(Updates) /\ Len(buffer') = Len(buffer) + Len(rest)
      /\ \A i \in 1..Len(buffer') :
           buffer'[i] = IF i <= Len(buffer) THEN buffer[i] ELSE rest[i - Len(buffer)]
  <2>1. buffer \in Seq(Updates) /\ rest \in Seq(Updates) /\ buffer' = buffer \o rest
    BY <1>1, <1>2, <1>3
  <2> QED
    BY <2>1, ConcatProperties
<1>6. \A i \in 1..Len(buffer') : buffer'[i] \in written
  <2>1. Len(buffer) \in Nat /\ Len(rest) \in Nat /\ \A i \in 1..Len(buffer) : buffer[i] \in written
    BY <1>2, <1>3 DEF WritersInv, WritersKnown
  <2>2. SUFFICES ASSUME NEW i \in 1..Len(buffer') PROVE buffer'[i] \in written
    OBVIOUS
  <2>3. CASE i <= Len(buffer)
    BY <1>5, <2>1, <2>3
  <2>4. CASE i > Len(buffer)
    <3>1. i - Len(buffer) \in 1..Len(rest)
      BY <1>5, <2>1, <2>4
    <3>2. buffer'[i] = rest[i - Len(buffer)]
      BY <1>5, <2>1, <2>4
    <3> QED
      BY <1>4, <3>1, <3>2
  <2> QED
    BY <2>1, <2>3, <2>4
<1>7. TypeOK'
  <2>1. given' \in 0..Len(inbox')
    BY <1>1, <1>3
  <2> QED
    BY <1>1, <1>3, <1>5, <2>1 DEF WritersInv, TypeOK
<1>8. WritersKnown'
  BY <1>1, <1>4, <1>6 DEF WritersInv, WritersKnown
<1> QED
  BY <1>1, <1>7, <1>8, SendKept DEF WritersInv

(* The row that is written is that of a message that was written.          *)
LEMMA RememberChatStep ==
  ASSUME WritersInv, RememberChat
  PROVE  WritersInv'
<1> USE TelegramAssumption
<1>1. PICK i \in Taken :
        /\ buffer' = Without(buffer, i)
        /\ chats' = IF buffer[i].from = None THEN chats ELSE UpsertTelegramChat(buffer[i])
        /\ UNCHANGED <<people, inbox, given, listening, mail, crashes, failures>>
  BY DEF RememberChat
<1>2. buffer \in Seq(Updates) /\ i \in 1..Len(buffer)
  <2>1. buffer \in Seq(Updates)
    BY DEF WritersInv, TypeOK
  <2>2. buffer # << >> /\ i = 1
    BY <1>1 DEF Taken
  <2> QED
    BY <2>1, <2>2
<1>3. buffer' \in Seq(Updates) /\ \A j \in 1..Len(buffer') : \E l \in 1..Len(buffer) : buffer'[j] = buffer[l]
  BY <1>1, <1>2, WithoutElements
<1>4. buffer[i] \in written /\ buffer[i] \in Updates
  BY <1>2 DEF WritersInv, WritersKnown
<1>5. UNCHANGED <<holds, written, inbox, given, listening, mail, crashes, failures>>
  BY <1>1 DEF people
<1>6. \A k \in Handles : \/ chats'[k] = chats[k]
                         \/ /\ chats'[k] = buffer[i] /\ buffer[i].from # None
                            /\ buffer[i].from.name = k.name
                            /\ k = Normalize(k)
  <2>1. CASE buffer[i].from = None
    BY <1>1, <2>1
  <2>2. CASE buffer[i].from # None
    <3>1. buffer[i].from \in Handles
      BY <1>4, <2>2 DEF Updates
    <3>2. chats' = [chats EXCEPT ![Normalize(buffer[i].from)] = buffer[i]]
      BY <1>1, <2>2 DEF UpsertTelegramChat
    <3>3. /\ Normalize(buffer[i].from).name = buffer[i].from.name
          /\ Normalize(Normalize(buffer[i].from)) = Normalize(buffer[i].from)
      BY <3>1, NormalizeHandle
    <3> QED
      BY <2>2, <3>2, <3>3 DEF WritersInv, TypeOK
  <2> QED
    BY <2>1, <2>2
<1>7. chats' \in [Handles -> Updates \cup {None}]
  BY <1>1, <1>4 DEF WritersInv, TypeOK, UpsertTelegramChat
<1>8. TypeOK'
  BY <1>3, <1>5, <1>7 DEF WritersInv, TypeOK
<1>9. WritersKnown'
  <2>1. \A j \in 1..Len(buffer') : buffer'[j] \in written
    BY <1>3 DEF WritersInv, WritersKnown
  <2>2. \A k \in Handles : chats'[k] # None =>
          /\ chats'[k] \in written /\ chats'[k].from # None /\ chats'[k].from.name = k.name
          /\ k = Normalize(k)
    BY <1>4, <1>6 DEF WritersInv, WritersKnown
  <2> QED
    BY <1>5, <2>1, <2>2 DEF WritersInv, WritersKnown
<1> QED
  BY <1>5, <1>8, <1>9, SendKept DEF WritersInv

(* A failed write drops its message and changes no row.                    *)
LEMMA RememberFailsStep ==
  ASSUME WritersInv, RememberFails
  PROVE  WritersInv'
<1>1. /\ buffer \in Seq(Updates) /\ buffer # << >> /\ buffer' = Tail(buffer)
      /\ UNCHANGED <<holds, written, inbox, given, listening, chats, mail, crashes>>
      /\ failures' \in 0..MaxTroubles
  BY TelegramAssumption DEF WritersInv, TypeOK, RememberFails, people
<1>2. /\ buffer' \in Seq(Updates) /\ Len(buffer') = Len(buffer) - 1 /\ Len(buffer) \in Nat
      /\ \A j \in 1..Len(buffer') : buffer'[j] = buffer[j + 1]
  BY <1>1, HeadTailProperties
<1>3. TypeOK'
  BY <1>1, <1>2 DEF WritersInv, TypeOK
<1>4. WritersKnown'
  <2>1. \A j \in 1..Len(buffer') : j + 1 \in 1..Len(buffer)
    BY <1>2
  <2>2. \A j \in 1..Len(buffer') : buffer'[j] \in written
    BY <1>2, <2>1 DEF WritersInv, WritersKnown
  <2> QED
    BY <1>1, <2>2 DEF WritersInv, WritersKnown
<1> QED
  BY <1>1, <1>3, <1>4, SendKept DEF WritersInv

(* A notice by name is addressed with the chat of the table's row.         *)
LEMMA BuildMessageStep ==
  ASSUME WritersInv, NEW to \in Recipients, BuildMessage(to)
  PROVE  WritersInv'
<1> USE TelegramAssumption
<1>1. UNCHANGED <<holds, written, inbox, given, buffer, listening, chats, crashes, failures>>
  BY DEF BuildMessage, people, process
<1>2. PICK x \in Chats \cup Handles : mail' = [to |-> to, chat |-> x] /\
        (to \in Handles =>
           \/ \E u \in written : u.from # None /\ u.from.name = to.name /\ u.chat = x
           \/ to.at /\ x = to)
  <2>1. CASE to \in Chats /\ mail' = [to |-> to, chat |-> to]
    BY <2>1
  <2>2. CASE to \in Handles /\ \E k \in RowsOf(to) : mail' = [to |-> to, chat |-> chats[k].chat]
    <3>1. PICK k \in RowsOf(to) : mail' = [to |-> to, chat |-> chats[k].chat]
      BY <2>2
    <3>2. k \in Handles /\ k.name = to.name /\ chats[k] # None
      BY <2>2, NormalizeHandle DEF RowsOf
    <3>3. chats[k] \in written /\ chats[k].from # None /\ chats[k].from.name = to.name
      BY <3>2 DEF WritersInv, WritersKnown
    <3>4. chats[k].chat \in Chats
      BY <3>3 DEF WritersInv, TypeOK, Updates
    <3> QED
      BY <3>1, <3>3, <3>4
  <2>3. CASE to \in Handles /\ to.at /\ mail' = [to |-> to, chat |-> to]
    BY <2>3
  <2> QED
    BY <2>1, <2>2, <2>3 DEF BuildMessage
<1>3. TypeOK'
  BY <1>1, <1>2 DEF WritersInv, TypeOK
<1>4. WritersKnown'
  BY <1>1 DEF WritersInv, WritersKnown
<1>5. OnlyToWriters'
  <2>1. mail'.to = to /\ mail'.chat = x
    BY <1>2
  <2> QED
    BY <1>1, <1>2, <2>1 DEF OnlyToWriters
<1> QED
  BY <1>3, <1>4, <1>5 DEF WritersInv

(* A send, and a stop and a start of the process, touch no row.            *)
LEMMA ProcessStep ==
  ASSUME WritersInv, Send \/ Crash \/ Restart \/ UNCHANGED vars
  PROVE  WritersInv'
<1> USE TelegramAssumption
<1>1. TypeOK'
  <2>1. CASE Send
    BY <2>1 DEF WritersInv, TypeOK, Send, people, process
  <2>2. CASE Crash
    <3>1. << >> \in Seq(Updates) /\ 0 \in 0..Len(inbox)
      BY DEF WritersInv, TypeOK
    <3>2. crashes' \in 0..MaxTroubles
      BY <2>2 DEF WritersInv, TypeOK, Crash
    <3>3. listening' \in BOOLEAN
      BY <2>2 DEF Crash
    <3>4. /\ given' = 0 /\ buffer' = << >> /\ mail' = None
          /\ UNCHANGED <<holds, written, inbox, chats, failures>>
      BY <2>2 DEF Crash, people
    <3> QED
      BY <3>1, <3>2, <3>3, <3>4 DEF WritersInv, TypeOK
  <2>3. CASE Restart
    BY <2>3 DEF WritersInv, TypeOK, Restart, people
  <2>4. CASE UNCHANGED vars
    BY <2>4 DEF WritersInv, TypeOK, vars, people, process
  <2> QED
    BY <2>1, <2>2, <2>3, <2>4
<1>2. /\ written' = written /\ inbox' = inbox /\ chats' = chats
      /\ buffer' = buffer \/ buffer' = << >>
      /\ mail' = mail \/ mail' = None
  BY DEF Send, Crash, Restart, vars, people, process
<1>3. WritersKnown'
  <2>1. \A j \in 1..Len(buffer') : buffer'[j] \in written
    BY <1>2 DEF WritersInv, WritersKnown
  <2> QED
    BY <1>2, <2>1 DEF WritersInv, WritersKnown
<1> QED
  BY <1>1, <1>2, <1>3, SendKept DEF WritersInv

-----------------------------------------------------------------------------
(* A sequence before what follows the first g elements of another.         *)
LEMMA ConcatElements ==
  ASSUME NEW S, NEW b \in Seq(S), NEW r \in Seq(S)
  PROVE  /\ b \o r \in Seq(S) /\ Len(b \o r) = Len(b) + Len(r)
         /\ \A i \in 1..Len(b \o r) : (b \o r)[i] = IF i <= Len(b) THEN b[i] ELSE r[i - Len(b)]
  BY ConcatProperties

(* A sequence followed by the rest of another one, element by element.     *)
LEMMA ConcatRest ==
  ASSUME NEW S, NEW b \in Seq(S), NEW s \in Seq(S), NEW g \in 0..Len(s)
  PROVE  LET c == b \o SubSeq(s, g + 1, Len(s))
         IN  /\ c \in Seq(S)
             /\ Len(c) = Len(b) + (Len(s) - g)
             /\ \A i \in 1..Len(c) : c[i] = IF i <= Len(b) THEN b[i] ELSE s[g + (i - Len(b))]
<1>1. Len(b) \in Nat /\ Len(s) \in Nat
  OBVIOUS
<1>2. PICK r \in Seq(S) : /\ r = SubSeq(s, g + 1, Len(s)) /\ Len(r) = Len(s) - g
                          /\ \A i \in 1..Len(r) : r[i] = s[g + i]
  <2> DEFINE q == SubSeq(s, g + 1, Len(s))
  <2>1. g + 1 \in 1..Len(s) + 1
    BY <1>1
  <2>2. /\ q \in Seq(S) /\ Len(q) = Len(s) - g
        /\ \A i \in 1..Len(q) : q[i] = s[g + i]
    BY <1>1, <2>1
  <2>3. q = SubSeq(s, g + 1, Len(s))
    OBVIOUS
  <2> HIDE DEF q
  <2> QED
    BY <2>2, <2>3
<1>3. PICK c : c = b \o r
  OBVIOUS
<1>4. /\ c \in Seq(S) /\ Len(c) = Len(b) + Len(r)
      /\ \A i \in 1..Len(c) : c[i] = IF i <= Len(b) THEN b[i] ELSE r[i - Len(b)]
  BY <1>3, ConcatElements
<1>5. \A i \in 1..Len(c) : /\ i > Len(b) => i - Len(b) \in 1..Len(r)
                           /\ i <= Len(b) \/ i > Len(b)
  BY <1>1, <1>2, <1>4
<1>6. \A i \in 1..Len(c) : c[i] = IF i <= Len(b) THEN b[i] ELSE s[g + (i - Len(b))]
  BY <1>2, <1>4, <1>5
<1>7. Len(c) = Len(b) + (Len(s) - g)
  BY <1>2, <1>4
<1> QED
  BY <1>2, <1>3, <1>4, <1>6, <1>7, Zenon

(* What is on its way to the table, message by message, before a step and  *)
(* after it.                                                               *)
LEMMA ComingElements ==
  ASSUME TypeOK
  PROVE  /\ Coming \in Seq(Updates)
         /\ Len(Coming) = Len(buffer) + (Len(inbox) - given)
         /\ \A i \in 1..Len(Coming) :
              Coming[i] = IF i <= Len(buffer) THEN buffer[i] ELSE inbox[given + (i - Len(buffer))]
<1>1. inbox \in Seq(Updates) /\ given \in 0..Len(inbox) /\ buffer \in Seq(Updates)
  BY DEF TypeOK
<1> QED
  BY <1>1, ConcatRest DEF Coming

(* The same of the state after a step.                                     *)
LEMMA ComingElementsNext ==
  ASSUME TypeOK'
  PROVE  /\ Len(Coming') = Len(buffer') + (Len(inbox') - given')
         /\ \A i \in 1..Len(Coming') :
              Coming'[i] = IF i <= Len(buffer') THEN buffer'[i]
                           ELSE inbox'[given' + (i - Len(buffer'))]
<1>1. inbox' \in Seq(Updates) /\ given' \in 0..Len(inbox') /\ buffer' \in Seq(Updates)
  BY DEF TypeOK
<1>2. PICK b \in Seq(Updates), s \in Seq(Updates) : b = buffer' /\ s = inbox'
  BY <1>1
<1>3. PICK g \in 0..Len(s) : g = given'
  BY <1>1, <1>2
<1>4. Coming' = b \o SubSeq(s, g + 1, Len(s))
  BY <1>2, <1>3 DEF Coming
<1>5. /\ Len(Coming') = Len(b) + (Len(s) - g)
      /\ \A i \in 1..Len(Coming') : Coming'[i] = IF i <= Len(b) THEN b[i] ELSE s[g + (i - Len(b))]
  BY <1>4, ConcatRest
<1> QED
  BY <1>2, <1>3, <1>5

(* A poll moves messages from the inbox into the channel and changes       *)
(* nothing of what is coming, nor of its order.                            *)
LEMMA PollKeepsComing ==
  ASSUME WritersInv, Poll
  PROVE  Coming' = Coming
<1> DEFINE rest == SubSeq(inbox, given + 1, Len(inbox))
<1>1. inbox' = rest /\ given' = Len(rest) /\ buffer' = buffer \o rest
  BY DEF Poll, Offset
<1>2. rest \in Seq(Updates) /\ buffer \o rest \in Seq(Updates)
  <2>1. inbox \in Seq(Updates) /\ given \in 0..Len(inbox) /\ buffer \in Seq(Updates)
    BY DEF WritersInv, TypeOK
  <2>2. given + 1 \in 1..Len(inbox) + 1 /\ Len(inbox) \in Nat
    BY <2>1
  <2>3. rest \in Seq(Updates)
    BY <2>1, <2>2
  <2> QED
    BY <2>1, <2>3
<1>3. Coming' = (buffer \o rest) \o SubSeq(rest, Len(rest) + 1, Len(rest))
  BY <1>1 DEF Coming
<1>4. SubSeq(rest, Len(rest) + 1, Len(rest)) = << >>
  BY <1>2
<1>5. (buffer \o rest) \o << >> = buffer \o rest
  BY <1>2
<1> QED
  BY <1>3, <1>4, <1>5 DEF Coming

(* A step that takes the first message out of the channel, and leaves the  *)
(* table alone or puts that message into rows of it.                       *)
LEMMA FirstTaken ==
  ASSUME WritersInv, InOrder, TypeOK',
         buffer # << >>, UNCHANGED <<written, inbox, given, crashes>>,
         Len(buffer') = Len(buffer) - 1,
         \A j \in 1..Len(buffer') : buffer'[j] = buffer[j + 1],
         \A k \in Handles : chats'[k] = chats[k] \/ chats'[k] = buffer[1]
  PROVE  InOrder'
<1>1. /\ Len(buffer) \in Nat \ {0} /\ Len(inbox) \in Nat /\ given \in 0..Len(inbox)
      /\ buffer \in Seq(Updates) /\ inbox \in Seq(Updates)
  BY DEF WritersInv, TypeOK
<1>2. Len(Coming) = Len(buffer) + (Len(inbox) - given) /\ Len(Coming') = Len(Coming) - 1
  BY <1>1, ComingElements, ComingElementsNext DEF WritersInv
<1>3. \A i \in 1..Len(Coming') : i \in 1..Len(Coming) /\ i + 1 \in 1..Len(Coming)
  BY <1>1, <1>2
<1>4. Coming[1] = buffer[1] /\ 1 \in 1..Len(Coming)
  BY <1>1, <1>2, ComingElements DEF WritersInv
<1>5. \A i \in 1..Len(Coming') : Coming'[i] = Coming[i + 1]
  <2>1. SUFFICES ASSUME NEW i \in 1..Len(Coming') PROVE Coming'[i] = Coming[i + 1]
    OBVIOUS
  <2>2. Coming'[i] = IF i <= Len(buffer') THEN buffer'[i] ELSE inbox[given + (i - Len(buffer'))]
    BY ComingElementsNext
  <2>3. Coming[i + 1] = IF i + 1 <= Len(buffer) THEN buffer[i + 1]
                        ELSE inbox[given + (i + 1 - Len(buffer))]
    BY <1>3, ComingElements DEF WritersInv
  <2>4. CASE i <= Len(buffer')
    <3>1. i \in 1..Len(buffer') /\ i + 1 <= Len(buffer)
      BY <1>1, <2>4
    <3> QED
      BY <2>2, <2>3, <2>4, <3>1
  <2>5. CASE ~(i <= Len(buffer'))
    <3>1. ~(i + 1 <= Len(buffer)) /\ i - Len(buffer') = i + 1 - Len(buffer)
      BY <1>1, <1>2, <2>5
    <3> QED
      BY <2>2, <2>3, <2>5, <3>1
  <2> QED
    BY <2>4, <2>5
<1>6. ASSUME crashes' = 0, NEW i \in 1..Len(Coming'), NEW j \in 1..Len(Coming'), i < j
      PROVE  Coming'[i].id < Coming'[j].id
  <2>1. i + 1 < j + 1
    BY <1>6
  <2> QED
    BY <1>3, <1>5, <1>6, <2>1 DEF InOrder
<1>7. ASSUME crashes' = 0, NEW k \in Handles, NEW i \in 1..Len(Coming'), chats'[k] # None
      PROVE  chats'[k].id < Coming'[i].id
  <2>1. Coming'[i] = Coming[i + 1] /\ i + 1 \in 1..Len(Coming) /\ 1 < i + 1
    BY <1>3, <1>5
  <2>2. CASE chats'[k] = chats[k]
    BY <1>7, <2>1, <2>2 DEF InOrder
  <2>3. CASE chats'[k] = buffer[1]
    BY <1>4, <1>7, <2>1, <2>3 DEF InOrder
  <2> QED
    BY <2>2, <2>3
<1> QED
  BY <1>6, <1>7 DEF InOrder

(* A message written has an identifier above all that are written, and     *)
(* comes behind all that is coming.                                        *)
LEMMA WriteInOrder ==
  ASSUME WritersInv, InOrder, TypeOK', NEW p \in People, NEW c \in Chats, Write(p, c)
  PROVE  InOrder'
<1> DEFINE u == [from |-> holds[p], chat |-> c, id |-> NextId]
<1>1. /\ inbox' = Append(inbox, u) /\ written' = written \cup {u}
      /\ UNCHANGED <<given, buffer, chats, crashes>>
  BY DEF Write, process
<1>2. u.id = Cardinality(written) + 1
  BY DEF NextId
<1> HIDE DEF u
<1>3. /\ Len(buffer) \in Nat /\ Len(inbox) \in Nat /\ given \in 0..Len(inbox)
      /\ buffer \in Seq(Updates) /\ inbox \in Seq(Updates) /\ IsFiniteSet(written)
      /\ \A v \in written : v.id \in Nat
  <2>1. \A v \in Updates : v.id \in Nat
    BY DEF Updates
  <2> QED
    BY <2>1 DEF WritersInv, TypeOK, WritersKnown
<1>4. Cardinality(written) \in Nat /\ \A v \in written : v.id <= Cardinality(written)
  BY <1>3, FS_CardinalityType DEF InOrder
<1>5. u \notin written /\ Cardinality(written') = Cardinality(written) + 1
  <2>1. u \notin written
    BY <1>2, <1>4
  <2> QED
    BY <1>1, <1>3, <2>1, FS_AddElement
<1>6. \A v \in written' : v.id <= Cardinality(written')
  BY <1>1, <1>2, <1>3, <1>4, <1>5
<1>7. /\ Len(inbox') = Len(inbox) + 1
      /\ \A i \in 1..Len(inbox) : inbox'[i] = inbox[i]
      /\ inbox'[Len(inbox) + 1] = u
  BY <1>1, <1>3
<1>8. Len(Coming) = Len(buffer) + (Len(inbox) - given) /\ Len(Coming') = Len(Coming) + 1
  BY <1>1, <1>3, <1>7, ComingElements, ComingElementsNext DEF WritersInv
<1>9. \A i \in 1..Len(Coming) : Coming[i] \in written
  <2>1. SUFFICES ASSUME NEW i \in 1..Len(Coming) PROVE Coming[i] \in written
    OBVIOUS
  <2>2. Coming[i] = IF i <= Len(buffer) THEN buffer[i] ELSE inbox[given + (i - Len(buffer))]
    BY ComingElements DEF WritersInv
  <2>3. CASE i <= Len(buffer)
    BY <1>3, <2>2, <2>3 DEF WritersInv, WritersKnown
  <2>4. CASE ~(i <= Len(buffer))
    <3>1. given + (i - Len(buffer)) \in 1..Len(inbox)
      BY <1>3, <1>8, <2>4
    <3> QED
      BY <2>2, <2>4, <3>1 DEF WritersInv, WritersKnown
  <2> QED
    BY <2>3, <2>4
<1>10. \A i \in 1..Len(Coming') : Coming'[i] = IF i <= Len(Coming) THEN Coming[i] ELSE u
  <2>1. SUFFICES ASSUME NEW i \in 1..Len(Coming')
                 PROVE  Coming'[i] = IF i <= Len(Coming) THEN Coming[i] ELSE u
    OBVIOUS
  <2>2. Coming'[i] = IF i <= Len(buffer) THEN buffer[i] ELSE inbox'[given + (i - Len(buffer))]
    BY <1>1, ComingElementsNext
  <2>3. CASE i <= Len(Coming)
    <3>1. Coming[i] = IF i <= Len(buffer) THEN buffer[i] ELSE inbox[given + (i - Len(buffer))]
      BY <1>8, <2>3, ComingElements DEF WritersInv
    <3>2. ~(i <= Len(buffer)) => given + (i - Len(buffer)) \in 1..Len(inbox)
      BY <1>3, <1>8, <2>3
    <3> QED
      BY <1>7, <2>2, <2>3, <3>1, <3>2
  <2>4. CASE ~(i <= Len(Coming))
    <3>1. ~(i <= Len(buffer)) /\ given + (i - Len(buffer)) = Len(inbox) + 1
      BY <1>3, <1>8, <2>4
    <3> QED
      BY <1>7, <2>2, <2>4, <3>1
  <2> QED
    BY <2>3, <2>4
<1>11. \A i \in 1..Len(Coming) : Coming[i].id < u.id
  BY <1>2, <1>3, <1>4, <1>9
<1>12. ASSUME crashes' = 0, NEW i \in 1..Len(Coming'), NEW j \in 1..Len(Coming'), i < j
       PROVE  Coming'[i].id < Coming'[j].id
  <2>1. i \in 1..Len(Coming) /\ Coming'[i] = Coming[i]
    BY <1>3, <1>8, <1>10, <1>12
  <2>2. CASE j <= Len(Coming)
    BY <1>1, <1>8, <1>10, <1>12, <2>1, <2>2 DEF InOrder
  <2>3. CASE ~(j <= Len(Coming))
    BY <1>10, <1>11, <2>1, <2>3
  <2> QED
    BY <2>2, <2>3
<1>13. ASSUME crashes' = 0, NEW k \in Handles, NEW i \in 1..Len(Coming'), chats'[k] # None
       PROVE  chats'[k].id < Coming'[i].id
  <2>1. chats'[k] = chats[k] /\ chats[k] \in written /\ crashes = 0
    BY <1>1, <1>13 DEF WritersInv, WritersKnown
  <2>2. CASE i <= Len(Coming)
    BY <1>8, <1>10, <1>13, <2>1, <2>2 DEF InOrder
  <2>3. CASE ~(i <= Len(Coming))
    BY <1>2, <1>3, <1>4, <1>10, <2>1, <2>3
  <2> QED
    BY <2>2, <2>3
<1> QED
  BY <1>6, <1>12, <1>13 DEF InOrder

(* Every step keeps the messages in the order in which they were written.  *)
LEMMA InOrderStep ==
  ASSUME WritersInv, InOrder, [Next]_vars, TypeOK'
  PROVE  InOrder'
<1>1. ASSUME UNCHANGED <<written, inbox, given, buffer, chats, crashes>>
      PROVE  InOrder'
  <2>1. Coming' = Coming
    BY <1>1 DEF Coming
  <2> QED
    BY <1>1, <2>1 DEF InOrder
<1>2. ASSUME NEW p \in People, Rename(p) PROVE InOrder'
  BY <1>1, <1>2 DEF Rename, process
<1>3. ASSUME NEW p \in People, NEW c \in Chats, Write(p, c) PROVE InOrder'
  BY <1>3, WriteInOrder
<1>4. CASE Poll
  <2>1. Coming' = Coming /\ UNCHANGED <<written, chats, crashes>>
    BY <1>4, PollKeepsComing DEF Poll, people
  <2> QED
    BY <2>1 DEF InOrder
<1>5. CASE RememberChat
  <2>1. buffer \in Seq(Updates) /\ chats \in [Handles -> Updates \cup {None}]
    BY DEF WritersInv, TypeOK
  <2>2. /\ buffer # << >> /\ buffer' = Without(buffer, 1)
        /\ chats' = IF buffer[1].from = None THEN chats ELSE UpsertTelegramChat(buffer[1])
        /\ UNCHANGED <<written, inbox, given, crashes>>
    BY <1>5 DEF RememberChat, Taken, people
  <2>3. Len(buffer) \in Nat \ {0}
    BY <2>1, <2>2
  <2>4. Len(buffer') = Len(buffer) - 1 /\ \A j \in 1..Len(buffer') : buffer'[j] = buffer[j + 1]
    <3>1. buffer' = [j \in 1..Len(buffer) - 1 |-> IF j < 1 THEN buffer[j] ELSE buffer[j + 1]]
      BY <2>2 DEF Without
    <3>2. Len(buffer) - 1 \in Nat /\ \A j \in 1..Len(buffer) - 1 : ~(j < 1)
      BY <2>3
    <3>3. \A j \in 1..Len(buffer) - 1 : buffer'[j] = buffer[j + 1]
      BY <3>1, <3>2
    <3>4. buffer' \in Seq(Updates) /\ DOMAIN buffer' = 1..Len(buffer) - 1
      BY <3>1 DEF TypeOK
    <3>5. Len(buffer') = Len(buffer) - 1
      BY <3>2, <3>4
    <3> QED
      BY <3>3, <3>5
  <2>5. \A k \in Handles : chats'[k] = chats[k] \/ chats'[k] = buffer[1]
    BY <2>1, <2>2 DEF UpsertTelegramChat
  <2> QED
    BY <2>2, <2>4, <2>5, FirstTaken
<1>6. CASE RememberFails
  <2>1. buffer \in Seq(Updates) /\ buffer # << >> /\ buffer' = Tail(buffer)
    BY <1>6 DEF WritersInv, TypeOK, RememberFails
  <2>2. Len(buffer') = Len(buffer) - 1 /\ \A j \in 1..Len(buffer') : buffer'[j] = buffer[j + 1]
    BY <2>1, HeadTailProperties
  <2>3. UNCHANGED <<written, inbox, given, crashes, chats>>
    BY <1>6 DEF RememberFails, people
  <2> QED
    BY <2>1, <2>2, <2>3, FirstTaken
<1>7. ASSUME NEW to \in Recipients, BuildMessage(to) PROVE InOrder'
  BY <1>1, <1>7 DEF BuildMessage, people, process
<1>8. CASE Crash
  <2>1. crashes \in Nat /\ crashes' = crashes + 1 /\ written' = written
    BY <1>8 DEF WritersInv, TypeOK, Crash, people
  <2>2. crashes' # 0
    BY <2>1
  <2> QED
    BY <2>1, <2>2 DEF InOrder
<1>9. CASE Send \/ Restart \/ UNCHANGED vars
  BY <1>1, <1>9 DEF Send, Restart, vars, people, process
<1> QED
  BY <1>2, <1>3, <1>4, <1>5, <1>6, <1>7, <1>8, <1>9 DEF Next

-----------------------------------------------------------------------------
LEMMA WritersStep == WritersInv /\ [Next]_vars => WritersInv'
  BY RenameStep, WriteStep, PollStep, RememberChatStep, RememberFailsStep, BuildMessageStep,
     ProcessStep DEF Next

(* The inductive invariant holds in every reachable state.                 *)
THEOREM TelegramInvariance == Spec => []IInv
<1>1. Init => IInv
  <2>1. ASSUME Init PROVE InOrder
    <3>1. Coming = << >>
      BY <2>1 DEF Init, Coming
    <3>2. Len(Coming) = 0 /\ written = {}
      BY <2>1, <3>1 DEF Init
    <3> QED
      BY <3>2 DEF InOrder
  <2> QED
    BY <2>1, InitInv DEF IInv
<1>2. IInv /\ [Next]_vars => IInv'
  <2>1. WritersInv /\ WritersInv' => TypeOK'
    BY DEF WritersInv
  <2> QED
    BY <2>1, WritersStep, InOrderStep DEF IInv
<1> QED
  BY <1>1, <1>2, PTL DEF Spec

(* A notice for a name only goes where somebody wrote under that name, or  *)
(* to the public channel the booking names.                                *)
THEOREM NoticesToWriters == Spec => []OnlyToWriters
<1>1. IInv => OnlyToWriters
  BY DEF IInv, WritersInv
<1> QED
  BY <1>1, TelegramInvariance, PTL

(* A name once remembered never counts as a channel again.                 *)
THEOREM KnownNamesFound == Spec => KnownIsFound
<1>1. ASSUME WritersInv, [Next]_vars,
             mail' # mail, mail' # None, mail'.to \in Handles, mail'.chat = mail'.to,
             NEW k \in Handles, k.name = mail'.to.name
      PROVE  chats[k] = None
  <2>1. PICK to \in Recipients : BuildMessage(to)
    BY <1>1 DEF Next, vars, Rename, Write, Poll, RememberChat, RememberFails, Send, Crash, Restart
  <2>2. mail'.to = to
    BY <2>1 DEF BuildMessage
  <2>3. SUFFICES ASSUME chats[k] # None PROVE FALSE
    OBVIOUS
  <2>4. k = Normalize(k) /\ Normalize(k) = Normalize(to) /\ Normalize(to) \in RowsOf(to)
    BY <1>1, <2>2, <2>3, NormalizeHandle DEF WritersInv, WritersKnown, RowsOf
  <2>5. to \notin Chats /\ RowsOf(to) # {}
    BY <1>1, <2>2, <2>4, TelegramAssumption
  <2>6. PICK q \in RowsOf(to) : mail' = [to |-> to, chat |-> chats[q].chat]
    BY <2>1, <2>5 DEF BuildMessage
  <2>7. q \in Handles /\ chats[q] # None
    BY <1>1, <2>2, <2>6, NormalizeHandle DEF RowsOf
  <2>8. chats[q] \in Updates
    BY <1>1, <2>7 DEF WritersInv, TypeOK
  <2>9. chats[q].chat \in Chats
    BY <2>8 DEF Updates
  <2> QED
    BY <1>1, <2>2, <2>5, <2>6, <2>9
<1>2. IInv /\ [Next]_vars =>
        [mail' # mail /\ mail' # None /\ mail'.to \in Handles /\ mail'.chat = mail'.to
           => \A k \in Handles : k.name = mail'.to.name => chats[k] = None]_vars
  BY <1>1 DEF IInv
<1> QED
  BY <1>2, TelegramInvariance, PTL DEF Spec, KnownIsFound

(* Until the process is stopped a row only moves on to a later message:    *)
(* what is taken out of the channel is later than all the table holds.     *)
THEOREM TableMovesOn == Spec => RowsMoveOn
<1>1. ASSUME IInv, [Next]_vars, NEW k \in Handles,
             chats'[k] # chats[k], chats[k] # None, crashes = 0
      PROVE  chats'[k].id > chats[k].id
  <2>1. RememberChat
    BY <1>1 DEF Next, vars, Rename, Write, Poll, RememberFails, BuildMessage, Send, Crash, Restart
  <2>2. /\ buffer # << >>
        /\ chats' = IF buffer[1].from = None THEN chats ELSE UpsertTelegramChat(buffer[1])
    BY <2>1 DEF RememberChat, Taken
  <2>3. /\ buffer \in Seq(Updates) /\ chats \in [Handles -> Updates \cup {None}]
        /\ Len(inbox) \in Nat /\ given \in 0..Len(inbox)
    BY <1>1 DEF IInv, WritersInv, TypeOK
  <2>4. chats'[k] = buffer[1]
    BY <1>1, <2>2, <2>3 DEF UpsertTelegramChat
  <2>5. Len(buffer) \in Nat \ {0}
    BY <2>2, <2>3
  <2>6. 1 \in 1..Len(Coming) /\ Coming[1] = buffer[1]
    BY <1>1, <2>3, <2>5, ComingElements DEF IInv, WritersInv
  <2>7. chats[k].id < Coming[1].id
    BY <1>1, <2>6 DEF IInv, InOrder
  <2>8. chats[k].id \in Nat /\ buffer[1].id \in Nat
    <3>1. chats[k] \in Updates /\ buffer[1] \in Updates
      BY <1>1, <2>3, <2>5
    <3> QED
      BY <3>1 DEF Updates
  <2> QED
    BY <2>4, <2>6, <2>7, <2>8
<1>2. IInv /\ [Next]_vars =>
        [\A k \in Handles :
           chats'[k] # chats[k] /\ chats[k] # None /\ crashes = 0
             => chats'[k].id > chats[k].id]_vars
  BY <1>1
<1> QED
  BY <1>2, TelegramInvariance, PTL DEF Spec, RowsMoveOn
=============================================================================
