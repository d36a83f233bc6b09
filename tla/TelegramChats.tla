---------------------------- MODULE TelegramChats ----------------------------
(***************************************************************************)
(* How a notice finds its Telegram chat.  People write to the bot, or in a *)
(* group the bot is in; the bot's poller fetches their messages, the       *)
(* listener remembers the chat under the name of the sender, and a send    *)
(* looks the recipient of the booking up.  Names change hands meanwhile,   *)
(* the process stops and starts again, and a write to the table may fail.  *)
(***************************************************************************)
EXTENDS Naturals, Sequences, FiniteSets

CONSTANTS
  People,      \* each has a private chat with the bot
  Groups,      \* chats that several people write in
  Names,       \* Telegram user names
  None,        \* no name, no row, no send
  MaxWrites,   \* bound on the messages written
  MaxTroubles  \* bound on the stops of the process and the writes that fail

Chats   == People \cup Groups
Handles == [name : Names, capital : BOOLEAN, at : BOOLEAN]   \* how a name may be spelled
Updates == [from : Handles \cup {None}, chat : Chats, id : 1..MaxWrites]

(* user_telegram of a booking: the number of a chat, or a name after an @. *)
Recipients == Chats \cup {h \in Handles : h.at}

ASSUME TelegramAssumption ==
  /\ MaxWrites \in Nat /\ MaxTroubles \in Nat
  /\ Chats \cap Handles = {}
  /\ None \notin Handles \cup Chats \cup Updates

VARIABLES
  holds,      \* the name of each person, as the person spells it
  written,    \* the messages written so far
  inbox,      \* what Telegram keeps for the bot until a poll confirms it
  given,      \* how many of these the last poll was given
  buffer,     \* the channel between the poller and the listener
  listening,  \* whether the process runs
  chats,      \* the table telegram_chats: the message its row comes from
  mail,       \* the send under way, after its lookup
  crashes, failures

people  == <<holds, written>>
process == <<given, buffer, listening>>
vars    == <<people, inbox, process, chats, mail, crashes, failures>>

TypeOK ==
  /\ holds \in [People -> Handles \cup {None}]
  /\ written \subseteq Updates
  /\ inbox \in Seq(Updates) /\ buffer \in Seq(Updates)
  /\ given \in 0..Len(inbox)
  /\ listening \in BOOLEAN
  /\ chats \in [Handles -> Updates \cup {None}]
  /\ mail \in [to : Recipients, chat : Chats \cup Handles] \cup {None}
  /\ crashes \in 0..MaxTroubles /\ failures \in 0..MaxTroubles

Init ==
  /\ holds = [p \in People |-> None]
  /\ written = {}
  /\ inbox = << >>
  /\ given = 0
  /\ buffer = << >>
  /\ listening = TRUE
  /\ chats = [k \in Handles |-> None]
  /\ mail = None
  /\ crashes = 0 /\ failures = 0

-----------------------------------------------------------------------------
(* Telegram: a name belongs to one person at a time; a message goes into   *)
(* the inbox of the bot with the name its sender has then, if any.         *)
Rename(p) ==
  /\ \E h \in {k \in Handles : ~k.at} \cup {None} :
       /\ h # None => \A q \in People : holds[q] # None => holds[q].name # h.name
       /\ holds' = [holds EXCEPT ![p] = h]
  /\ UNCHANGED <<written, inbox, process, chats, mail, crashes, failures>>

NextId == Cardinality(written) + 1

Write(p, c) ==
  /\ c \in {p} \cup Groups
  /\ NextId <= MaxWrites
  /\ LET u == [from |-> holds[p], chat |-> c, id |-> NextId]
     IN  inbox' = Append(inbox, u) /\ written' = written \cup {u}
  /\ UNCHANGED <<holds, process, chats, mail, crashes, failures>>

(* A poll confirms what the poll before it was given, and is given the     *)
(* rest.                                                                   *)
Offset(rest) == Len(rest)

Poll ==
  /\ listening
  /\ inbox # << >>
  /\ LET rest == SubSeq(inbox, given + 1, Len(inbox))
     IN  inbox' = rest /\ given' = Offset(rest) /\ buffer' = buffer \o rest
  /\ UNCHANGED <<people, listening, chats, mail, crashes, failures>>

-----------------------------------------------------------------------------
Bug_CaseKept(h) == [h EXCEPT !.at = FALSE]
Normalize(h) == [h EXCEPT !.capital = FALSE, !.at = FALSE]

Bug_EveryRow(u) == [k \in Handles |-> u]
UpsertTelegramChat(u) == [chats EXCEPT ![Normalize(u.from)] = u]

(* The listener takes the updates one after the other; a message without a *)
(* sender's name is passed over.                                           *)
Bug_ConcurrentUpdates == 1..Len(buffer)
Taken == IF buffer = << >> THEN {} ELSE {1}

Without(s, i) == [j \in 1..Len(s) - 1 |-> IF j < i THEN s[j] ELSE s[j + 1]]

RememberChat ==
  \E i \in Taken :
    /\ listening
    /\ buffer' = Without(buffer, i)
    /\ LET u == buffer[i]
       IN  chats' = IF u.from = None THEN chats ELSE UpsertTelegramChat(u)
    /\ UNCHANGED <<people, inbox, given, listening, mail, crashes, failures>>

(* A write that fails is logged, and its update is gone.                   *)
RememberFails ==
  /\ listening /\ buffer # << >>
  /\ Head(buffer).from # None
  /\ crashes + failures < MaxTroubles
  /\ failures' = failures + 1
  /\ buffer' = Tail(buffer)
  /\ UNCHANGED <<people, inbox, given, listening, chats, mail, crashes>>

-----------------------------------------------------------------------------
(* A number is a chat itself; a name is looked up; an unknown name is sent *)
(* to as a public channel.  (Without its @ it is refused; what Book lets   *)
(* in without an @ is a number, and only one too long for 64 bits is taken *)
(* for a name.)                                                            *)
Bug_LookupLike(h) == {k \in Handles : chats[k] # None}
RowsOf(h) == {k \in {Normalize(h)} : chats[k] # None}

BuildMessage(to) ==
  /\ listening
  /\ mail = None
  /\ \/ to \in Chats /\ mail' = [to |-> to, chat |-> to]
     \/ to \in Handles /\ \E k \in RowsOf(to) : mail' = [to |-> to, chat |-> chats[k].chat]
     \/ to \in Handles /\ RowsOf(to) = {} /\ to.at /\ mail' = [to |-> to, chat |-> to]
  /\ UNCHANGED <<people, inbox, process, chats, crashes, failures>>

(* Telegram takes the message, or the send fails or times out.             *)
Send ==
  /\ listening
  /\ mail # None
  /\ mail' = None
  /\ UNCHANGED <<people, inbox, process, chats, crashes, failures>>

-----------------------------------------------------------------------------
(* The process dies or is stopped; what it had not polled twice comes back.*)
Crash ==
  /\ listening
  /\ crashes + failures < MaxTroubles
  /\ crashes' = crashes + 1
  /\ listening' = FALSE /\ buffer' = << >> /\ given' = 0 /\ mail' = None
  /\ UNCHANGED <<people, inbox, chats, failures>>

Restart ==
  /\ ~listening
  /\ listening' = TRUE
  /\ UNCHANGED <<people, inbox, given, buffer, chats, mail, crashes, failures>>

Next ==
  \/ \E p \in People : Rename(p) \/ \E c \in Chats : Write(p, c)
  \/ Poll \/ RememberChat \/ RememberFails
  \/ \E to \in Recipients : BuildMessage(to)
  \/ Send
  \/ Crash \/ Restart

Spec == Init /\ [][Next]_vars

(* The poller polls for ever, the listener takes what comes, and docker    *)
(* starts a stopped process again.                                         *)
LiveSpec == Spec /\ WF_vars(Poll) /\ WF_vars(RememberChat) /\ WF_vars(Restart)

-----------------------------------------------------------------------------
(* A notice for a name goes to a chat in which somebody wrote who had that *)
(* name then, whatever happened to names, process and table in between, or *)
(* to the public channel the booking itself names.                         *)
OnlyToWriters ==
  mail # None /\ mail.to \in Handles =>
    \/ \E u \in written : u.from # None /\ u.from.name = mail.to.name /\ u.chat = mail.chat
    \/ mail.to.at /\ mail.chat = mail.to

(* A name some message was remembered under is found in every spelling: it *)
(* never counts as a channel again.                                        *)
KnownIsFound ==
  [][mail' # mail /\ mail' # None /\ mail'.to \in Handles /\ mail'.chat = mail'.to
       => \A k \in Handles : k.name = mail'.to.name => chats[k] = None]_vars

(* Until the process is stopped a row only moves on to a later message: an *)
(* older one overwrites it only when Telegram gives messages again.        *)
RowsMoveOn ==
  [][\A k \in Handles :
       chats'[k] # chats[k] /\ chats[k] # None /\ crashes = 0 => chats'[k].id > chats[k].id]_vars

(* Why OnlyToWriters: what is on its way to the table was written, and a   *)
(* row, whose key is normalized, has a message with its name.              *)
WritersKnown ==
  /\ IsFiniteSet(written)
  /\ \A i \in 1..Len(inbox) : inbox[i] \in written
  /\ \A i \in 1..Len(buffer) : buffer[i] \in written
  /\ \A k \in Handles : chats[k] # None =>
       /\ chats[k] \in written /\ chats[k].from # None /\ chats[k].from.name = k.name
       /\ k = Normalize(k)

WritersInv == TypeOK /\ WritersKnown /\ OnlyToWriters

(* Why RowsMoveOn: what is on its way to the table comes in the order it   *)
(* was written, and after all that the table holds.                        *)
Coming == buffer \o SubSeq(inbox, given + 1, Len(inbox))

InOrder ==
  /\ \A u \in written : u.id <= Cardinality(written)
  /\ crashes = 0 =>
       /\ \A i, j \in 1..Len(Coming) : i < j => Coming[i].id < Coming[j].id
       /\ \A k \in Handles, i \in 1..Len(Coming) :
            chats[k] # None => chats[k].id < Coming[i].id

IInv == WritersInv /\ InOrder

(* When people have stopped writing, the row of a name is the chat of the  *)
(* last message under that name: no message of a process that was never    *)
(* stopped, to a table that took every write, is lost or overtaken.        *)
LastUnder(n) == {u \in written : /\ u.from # None /\ u.from.name = n
                                 /\ \A v \in written : v.from # None /\ v.from.name = n => v.id <= u.id}

Key(n) == [name |-> n, capital |-> FALSE, at |-> FALSE]

TableSettles ==
  <>[](crashes = 0 /\ failures = 0 => \A n \in Names : \A u \in LastUnder(n) : chats[Key(n)] = u)
=============================================================================
