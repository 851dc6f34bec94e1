------------------------- MODULE CoffeeCards_proofs -------------------------
(***************************************************************************)
(* The cards of coffee meetings and their pins, for all chats, users,      *)
(* bounds and budgets: between operations the card shows what the row      *)
(* says, the pinned cards are those of the open meetings, and a completed  *)
(* meeting leaves a closed card.                                           *)
(***************************************************************************)
EXTENDS CoffeeJobs_proofs

\* Messages of rows are cards of the same chat, each of one session; a session in creation
\* has none, and one that is to be held or was held has one.
Messages ==
  /\ \A s \in DOMAIN rows :
       /\ rows[s].msg # NULL => rows[s].msg \in DOMAIN cards /\ cards[rows[s].msg].chat = rows[s].chat
       /\ rows[s].status = "creating" => rows[s].msg = NULL
       /\ rows[s].status \in {"active", "completing", "completed"} => rows[s].msg # NULL
  /\ \A s, t \in DOMAIN rows : rows[s].msg = rows[t].msg /\ rows[s].msg # NULL => s = t

\* The pin is moved only from a card that is gone.
OldCardsGone ==
  \A c \in Chats : lock[c].pc = "unpinOld" =>
    lock[c].old.msg \in DOMAIN cards /\ cards[lock[c].old.msg].gone

\* CardNotAhead in every state.
CardTrue(s) ==
  /\ rows[s].status = "active" /\ Available(rows[s].msg)
  /\ Spent("lost") = 0 /\ Spent("crash") = 0
  => /\ cards[rows[s].msg].time = Before(s).time
     /\ cards[rows[s].msg].members \subseteq Before(s).members

\* PinFollowsMeeting in every state, except for the card whose pin is being changed.
InHand(m) ==
  LET op == lock[cards[m].chat]
  IN  op.pc \in {"unpinOld", "pin", "unpin"} /\ op.cur.msg = m

PinTrue(m) ==
  /\ Spent("reject") = 0 /\ Spent("lost") = 0 /\ Spent("crash") = 0
  /\ ~cards[m].gone /\ ~InHand(m)
  => (cards[m].pinned <=> \E s \in OpenIn(cards[m].chat) : rows[s].msg = m)

\* CompletedCardIsClosed, with what a completion has done already.
ClosedCard(m, buttons) ==
  ~cards[m].gone => ~cards[m].pinned /\ (cards[m].buttons => buttons)

CompletionsClose ==
  Spent("reject") = 0 =>
    /\ \A s \in DOMAIN rows : rows[s].status = "completed" => ClosedCard(rows[s].msg, FALSE)
    /\ \A c \in Chats :
         /\ lock[c].pc = "close" => ClosedCard(lock[c].cur.msg, TRUE)
         /\ lock[c].pc = "ready" => ClosedCard(lock[c].cur.msg, FALSE)

CardsInv ==
  /\ Messages /\ OldCardsGone /\ CompletionsClose
  /\ \A s \in DOMAIN rows : CardTrue(s)
  /\ \A m \in DOMAIN cards : PinTrue(m)

-----------------------------------------------------------------------------
(* What a call does to the cards.                                          *)

\* Of the cards that are not gone, at most card m is changed; none changes its chat, none
\* that is gone comes back.
CardsOnly(m) ==
  /\ DOMAIN cards \subseteq DOMAIN cards'
  /\ \A k \in DOMAIN cards :
       /\ cards'[k].chat = cards[k].chat
       /\ cards[k].gone => cards'[k].gone
       /\ k # m /\ ~cards[k].gone => cards'[k] = cards[k]

LEMMA PinnedCard ==
  ASSUME TypeOK, NEW m \in DOMAIN cards, NEW b \in BOOLEAN,
         cards' = [cards EXCEPT ![m].pinned = b]
  PROVE  /\ DOMAIN cards' = DOMAIN cards
         /\ \A k \in DOMAIN cards : k # m => cards'[k] = cards[k]
         /\ cards'[m].pinned = b /\ cards'[m].chat = cards[m].chat
         /\ cards'[m].gone = cards[m].gone /\ cards'[m].buttons = cards[m].buttons
         /\ cards'[m].time = cards[m].time /\ cards'[m].members = cards[m].members
<1>1. PICK e : e = [cards[m] EXCEPT !.pinned = b]
  OBVIOUS
<1>2. cards[m] \in Card /\ cards \in Seq(Card)
  BY TypeFacts DEF TypeOK
<1>3. /\ e \in Card /\ e.pinned = b /\ e.chat = cards[m].chat /\ e.gone = cards[m].gone
      /\ e.buttons = cards[m].buttons /\ e.time = cards[m].time /\ e.members = cards[m].members
  BY <1>1, <1>2 DEF Card
<1>4. cards' = [cards EXCEPT ![m] = e]
  BY <1>1
<1> HIDE <1>1
<1>5. DOMAIN cards' = DOMAIN cards /\ \A k \in DOMAIN cards : cards'[k] = IF k = m THEN e ELSE cards[k]
  BY <1>2, <1>3, <1>4, SeqUpdate
<1> QED BY <1>3, <1>5

LEMMA ClosedButtons ==
  ASSUME TypeOK, NEW m \in DOMAIN cards, cards' = [cards EXCEPT ![m].buttons = FALSE]
  PROVE  /\ DOMAIN cards' = DOMAIN cards
         /\ \A k \in DOMAIN cards : k # m => cards'[k] = cards[k]
         /\ cards'[m].buttons = FALSE /\ cards'[m].chat = cards[m].chat
         /\ cards'[m].gone = cards[m].gone /\ cards'[m].pinned = cards[m].pinned
         /\ cards'[m].time = cards[m].time /\ cards'[m].members = cards[m].members
<1>1. PICK e : e = [cards[m] EXCEPT !.buttons = FALSE]
  OBVIOUS
<1>2. cards[m] \in Card /\ cards \in Seq(Card)
  BY TypeFacts DEF TypeOK
<1>3. /\ e \in Card /\ e.buttons = FALSE /\ e.chat = cards[m].chat /\ e.gone = cards[m].gone
      /\ e.pinned = cards[m].pinned /\ e.time = cards[m].time /\ e.members = cards[m].members
  BY <1>1, <1>2 DEF Card
<1>4. cards' = [cards EXCEPT ![m] = e]
  BY <1>1
<1> HIDE <1>1
<1>5. DOMAIN cards' = DOMAIN cards /\ \A k \in DOMAIN cards : cards'[k] = IF k = m THEN e ELSE cards[k]
  BY <1>2, <1>3, <1>4, SeqUpdate
<1> QED BY <1>3, <1>5

\* A card is edited in place, or sent as a new one that is neither pinned nor gone.
LEMMA PublishedCard ==
  ASSUME TypeOK, NEW op \in Op, op.sid \in DOMAIN rows, cards' = Published(op),
         op.cur.msg # NULL => op.cur.msg \in DOMAIN cards
  PROVE  LET m == PublishedId(op)
         IN  /\ DOMAIN cards' = DOMAIN cards \cup {m}
             /\ \A k \in DOMAIN cards : k # m => cards'[k] = cards[k]
             /\ cards'[m].time = op.cur.time /\ cards'[m].members = rows[op.sid].members
             /\ IF Available(op.cur.msg)
                THEN /\ m = op.cur.msg /\ m \in DOMAIN cards /\ cards'[m].chat = cards[m].chat
                     /\ cards'[m].pinned = cards[m].pinned /\ cards'[m].gone = cards[m].gone
                ELSE /\ m \notin DOMAIN cards /\ m # NULL
                     /\ cards'[m].chat = op.cur.chat /\ ~cards'[m].pinned /\ ~cards'[m].gone
<1>1. PICK m : m = PublishedId(op)
  OBVIOUS
<1>2. /\ cards \in Seq(Card) /\ rows[op.sid].members \in SUBSET Users
      /\ op.cur.time \in Nat /\ op.cur.chat \in Chats /\ op.cur.msg \in Nat
      /\ Len(cards) \in Nat /\ DOMAIN cards = 1..Len(cards)
  BY TypeFacts DEF TypeOK, Op, Row
<1>3. CASE Available(op.cur.msg)
  <2>1. m = op.cur.msg /\ m \in DOMAIN cards /\ cards[m] \in Card
    BY <1>1, <1>2, <1>3, TypeFacts DEF PublishedId, Available
  <2>2. PICK e : e = [cards[m] EXCEPT !.time = op.cur.time,
                                      !.members = rows[op.sid].members, !.buttons = TRUE]
    OBVIOUS
  <2>3. /\ e \in Card /\ e.time = op.cur.time /\ e.members = rows[op.sid].members
        /\ e.chat = cards[m].chat /\ e.pinned = cards[m].pinned /\ e.gone = cards[m].gone
    BY <1>2, <2>1, <2>2 DEF Card
  <2>4. cards' = [cards EXCEPT ![m] = e]
    BY <1>3, <2>1, <2>2 DEF Published
  <2> HIDE <2>2
  <2>5. DOMAIN cards' = DOMAIN cards /\ \A k \in DOMAIN cards : cards'[k] = IF k = m THEN e ELSE cards[k]
    BY <1>2, <2>3, <2>4, SeqUpdate
  <2> QED BY <1>1, <1>3, <2>1, <2>3, <2>5
<1>4. CASE ~Available(op.cur.msg)
  <2>1. m = Len(cards) + 1 /\ m \notin DOMAIN cards /\ m # NULL
    BY <1>1, <1>2, <1>4 DEF PublishedId, NULL
  <2>2. PICK e : e = [chat |-> op.cur.chat, time |-> op.cur.time,
                      members |-> rows[op.sid].members,
                      buttons |-> TRUE, pinned |-> FALSE, gone |-> FALSE]
    OBVIOUS
  <2>3. /\ e \in Card /\ e.time = op.cur.time /\ e.members = rows[op.sid].members
        /\ e.chat = op.cur.chat /\ ~e.pinned /\ ~e.gone
    BY <1>2, <2>2 DEF Card
  <2>4. cards' = Append(cards, e)
    BY <1>4, <2>2 DEF Published
  <2> HIDE <2>2
  <2>5. /\ DOMAIN cards' = 1..m /\ cards'[m] = e /\ \A k \in DOMAIN cards : cards'[k] = cards[k]
    BY <1>2, <2>1, <2>3, <2>4, SeqAppend
  <2>6. DOMAIN cards' = DOMAIN cards \cup {m}
    BY <1>2, <2>1, <2>5
  <2> QED BY <1>1, <1>4, <2>1, <2>3, <2>5, <2>6
<1> QED BY <1>3, <1>4
-----------------------------------------------------------------------------
(* What is left to show of a step that writes one session and one card.    *)

\* Session s of chat c, a new one perhaps, gets the row r, and the lock goes to next.
OnlySession(c, s, r, next) ==
  /\ DOMAIN rows' = DOMAIN rows \cup {s} /\ rows'[s] = r /\ r.chat = c
  /\ \A t \in DOMAIN rows : t # s => rows'[t] = rows[t]
  /\ lock'[c] = next /\ \A d \in Chats : d # c => lock'[d] = lock[d]
  /\ \A d \in Chats : d # c /\ Busy(d) => lock[d].sid \in DOMAIN rows \ {s}
  /\ s \in DOMAIN rows => rows[s].chat = c
  /\ Busy(c) => s \in DOMAIN rows /\ lock[c].sid = s
  /\ next.pc # "free" => next.sid = s

LEMMA StepIsOnly ==
  ASSUME Consistent, NEW c \in Chats, NEW s, NEW r, NEW next, Step(c, s, r, next)
  PROVE  OnlySession(c, s, r, next)
<1>1. /\ DOMAIN rows' = DOMAIN rows
      /\ rows'[s] = r /\ \A t \in DOMAIN rows : t # s => rows'[t] = rows[t]
      /\ lock'[c] = next /\ \A d \in Chats : d # c => lock'[d] = lock[d]
      /\ \A d \in Chats : d # c /\ Busy(d) => lock[d].sid \in DOMAIN rows \ {s}
  BY StepFacts
<1>2. s \in DOMAIN rows /\ rows[s].chat = c /\ r.chat = c /\ (Busy(c) => lock[c].sid = s)
      /\ (next.pc # "free" => next.sid = s)
  BY DEF Step
<1> QED BY <1>1, <1>2 DEF OnlySession

\* The message of session s stays, or was none, or one that is gone, before a new card.
Moved(c, s, r) ==
  \/ s \in DOMAIN rows /\ r.msg = rows[s].msg
  \/ s \notin DOMAIN rows /\ r.msg = NULL
  \/ /\ s \in DOMAIN rows /\ rows[s].msg # NULL => cards[rows[s].msg].gone
     /\ r.msg \notin DOMAIN cards /\ r.msg \in DOMAIN cards' /\ cards'[r.msg].chat = c

OwnMessage(c, s, r) ==
  /\ CardsOnly(r.msg) /\ Moved(c, s, r)
  /\ \A m \in DOMAIN cards' : m \in DOMAIN cards \/ m = r.msg \/ Spent("lost")' > 0
  /\ r.status = "creating" => r.msg = NULL
  /\ r.status \in {"active", "completing", "completed"} => r.msg # NULL

\* What the step means for the session's own card.
OwnCard(c, s, r, next) ==
  /\ next.pc = "unpinOld" => next.old.msg \in DOMAIN cards' /\ cards'[next.old.msg].gone
  /\ CardTrue(s)'
  /\ r.msg # NULL => PinTrue(r.msg)'
  /\ Spent("reject")' = 0 =>
       /\ r.status = "completed" => ClosedCard(r.msg, FALSE)'
       /\ next.pc = "close" => ClosedCard(next.cur.msg, TRUE)'
       /\ next.pc = "ready" => ClosedCard(next.cur.msg, FALSE)'

LEMMA CardsParts ==
  ASSUME JobsInv, CardsInv
  PROVE  /\ DOMAIN cards = 1..Len(cards) /\ Len(cards) \in Nat /\ NULL \notin DOMAIN cards
         /\ \A t \in DOMAIN rows : rows[t].msg # NULL => rows[t].msg \in DOMAIN cards
         /\ \A d \in Chats : Busy(d) => lock[d].cur.msg = rows[lock[d].sid].msg
<1>1. DOMAIN cards = 1..Len(cards) /\ Len(cards) \in Nat /\ NULL \notin DOMAIN cards
  BY InvParts, TypeFacts DEF NULL
<1> QED BY <1>1, InvParts DEF CardsInv, Messages, HoldersFit, Fits

\* Faults that did not happen by the end of a step did not happen before it.
LEMMA SpentBefore ==
  ASSUME TypeOK, Counted, BudgetShrinks, NEW k \in BudgetKinds, Spent(k)' = 0
  PROVE  Spent(k) = 0
<1>1. budget[k] \in Nat /\ Budget[k] \in Nat /\ budget'[k] \in Nat
      /\ budget[k] <= Budget[k] /\ budget'[k] <= budget[k]
  BY BudgetAssumption DEF TypeOK, Counted, BudgetShrinks
<1> QED BY <1>1 DEF Spent

LEMMA SpentKinds == {"reject", "lost", "crash"} \subseteq BudgetKinds
BY DEF BudgetKinds

\* No other session has the card that is written.
LEMMA OtherMessages ==
  ASSUME JobsInv, CardsInv, NEW c, NEW s, NEW r, OwnMessage(c, s, r)
  PROVE  \A t \in DOMAIN rows : t # s /\ rows[t].msg # NULL =>
           rows[t].msg \in DOMAIN cards /\ rows[t].msg # r.msg
<1> SUFFICES ASSUME NEW t \in DOMAIN rows, t # s, rows[t].msg # NULL, rows[t].msg = r.msg
             PROVE  FALSE
  BY CardsParts
<1>1. rows[t].msg \in DOMAIN cards
  BY CardsParts
<1>2. s \in DOMAIN rows /\ r.msg = rows[s].msg
  BY <1>1 DEF OwnMessage, Moved
<1> QED BY <1>2 DEF CardsInv, Messages
LEMMA MessagesFrame ==
  ASSUME JobsInv, CardsInv, NEW c, NEW s, NEW r, NEW next, OnlySession(c, s, r, next),
         OwnMessage(c, s, r)
  PROVE  Messages'
<1>1. CardsOnly(r.msg) /\ Messages
  BY DEF OwnMessage, CardsInv
<1>2. ASSUME NEW t \in DOMAIN rows', t # s
      PROVE  t \in DOMAIN rows /\ rows'[t] = rows[t]
  BY <1>2 DEF OnlySession
<1>3. r.msg # NULL => r.msg \in DOMAIN cards' /\ cards'[r.msg].chat = r.chat
  <2>1. CASE s \in DOMAIN rows /\ r.msg = rows[s].msg
    BY <1>1, <2>1 DEF CardsOnly, Messages, OnlySession
  <2> QED BY <2>1 DEF OwnMessage, Moved, OnlySession
<1>4. ASSUME NEW t \in DOMAIN rows'
      PROVE  /\ rows'[t].msg # NULL => rows'[t].msg \in DOMAIN cards'
                                       /\ cards'[rows'[t].msg].chat = rows'[t].chat
             /\ rows'[t].status = "creating" => rows'[t].msg = NULL
             /\ rows'[t].status \in {"active", "completing", "completed"} => rows'[t].msg # NULL
  <2>1. CASE t = s
    BY <1>3, <2>1 DEF OnlySession, OwnMessage
  <2>2. CASE t # s
    BY <1>1, <1>2, <2>2 DEF CardsOnly, Messages
  <2> QED BY <2>1, <2>2
<1>5. ASSUME NEW t \in DOMAIN rows', NEW u \in DOMAIN rows', t # s,
             rows'[t].msg = rows'[u].msg, rows'[t].msg # NULL
      PROVE  t = u
  <2>1. rows[t].msg # r.msg
    BY <1>2, <1>5, OtherMessages
  <2>2. u # s
    BY <1>2, <1>5, <2>1 DEF OnlySession
  <2> QED BY <1>1, <1>2, <1>5, <2>2 DEF Messages
<1> QED BY <1>4, <1>5 DEF Messages

\* The cards that a step leaves alone, and with them what is said of other sessions.
LEMMA OtherCards ==
  ASSUME JobsInv, CardsInv, NEW c, NEW s, NEW r, NEW next, OnlySession(c, s, r, next),
         OwnMessage(c, s, r)
  PROVE  \A t \in DOMAIN rows : t # s /\ rows[t].msg # NULL =>
           LET m == rows[t].msg
           IN  /\ m \in DOMAIN cards /\ m \in DOMAIN cards' /\ m # r.msg
               /\ cards[m].gone => cards'[m].gone
               /\ ~cards[m].gone => cards'[m] = cards[m]
BY OtherMessages DEF OwnMessage, CardsOnly

LEMMA OtherTrue ==
  ASSUME JobsInv, CardsInv, BudgetShrinks, NEW c \in Chats, NEW s, NEW r, NEW next,
         OnlySession(c, s, r, next), OwnMessage(c, s, r),
         NEW t \in DOMAIN rows, t # s
  PROVE  CardTrue(t)'
<1> SUFFICES ASSUME rows'[t].status = "active", Available(rows[t].msg)',
                    Spent("lost")' = 0, Spent("crash")' = 0
             PROVE  /\ cards'[rows'[t].msg].time = Before(t)'.time
                    /\ cards'[rows'[t].msg].members \subseteq Before(t)'.members
  BY DEF CardTrue
<1>1. rows'[t] = rows[t] /\ rows[t].chat \in Chats
  BY InvParts, TypeFacts DEF OnlySession, Row
<1>2. PICK m : m = rows[t].msg
  OBVIOUS
<1>3. m # NULL /\ ~cards'[m].gone
  BY <1>1, <1>2 DEF Available
<1>4. ~cards[m].gone /\ cards'[m] = cards[m]
  BY <1>2, <1>3, OtherCards
<1>5. Spent("lost") = 0 /\ Spent("crash") = 0
  BY InvParts, SpentBefore, SpentKinds
<1>6. Before(t)' = Before(t)
  <2>1. CASE rows[t].chat # c
    BY <1>1, <2>1 DEF OnlySession, Before, Reschedules
  <2>2. CASE rows[t].chat = c
    <3>1. ~Reschedules(lock[c], t)
      <4>1. Busy(c) => lock[c].sid = s
        BY DEF OnlySession
      <4> QED BY <4>1 DEF Reschedules, Busy
    <3>2. ~Reschedules(next, t)
      <4>1. next.pc # "free" => next.sid = s
        BY DEF OnlySession
      <4> QED BY <4>1 DEF Reschedules
    <3>3. lock'[c] = next
      BY DEF OnlySession
    <3> QED BY <1>1, <2>2, <3>1, <3>2, <3>3 DEF Before, Reschedules
  <2> QED BY <2>1, <2>2
<1>7. CardTrue(t)
  BY DEF CardsInv
<1> QED BY <1>1, <1>2, <1>3, <1>4, <1>5, <1>6, <1>7 DEF CardTrue, Available

LEMMA OtherPin ==
  ASSUME JobsInv, CardsInv, BudgetShrinks, NEW c \in Chats, NEW s, NEW r, NEW next,
         OnlySession(c, s, r, next), OwnMessage(c, s, r),
         NEW m \in DOMAIN cards', m # r.msg
  PROVE  PinTrue(m)'
<1> SUFFICES ASSUME Spent("reject")' = 0, Spent("lost")' = 0, Spent("crash")' = 0,
                    ~cards'[m].gone, ~InHand(m)'
             PROVE  cards'[m].pinned <=> \E t \in OpenIn(cards[m].chat)' : rows'[t].msg = m
  BY DEF PinTrue
<1>1. m \in DOMAIN cards /\ ~cards[m].gone /\ cards'[m] = cards[m]
  BY DEF OwnMessage, CardsOnly
<1>2. Spent("reject") = 0 /\ Spent("lost") = 0 /\ Spent("crash") = 0
  BY InvParts, SpentBefore, SpentKinds
<1>3. PICK d : d = cards[m].chat
  OBVIOUS
<1>4. d \in Chats
  BY <1>1, <1>3, InvParts, TypeFacts DEF Card
<1>5. s \in DOMAIN rows => rows[s].msg # m
  <2> SUFFICES ASSUME s \in DOMAIN rows, rows[s].msg = m PROVE FALSE
    OBVIOUS
  <2>1. m # NULL
    BY <1>1, CardsParts
  <2> QED BY <1>1, <2>1 DEF OwnMessage, Moved
<1>6. ~InHand(m)
  <2>1. CASE d = c
    <3>1. Busy(c) => lock[c].cur.msg # m
      BY <1>5, CardsParts DEF OnlySession
    <3> QED BY <1>3, <2>1, <3>1 DEF InHand, Busy
  <2>2. CASE d # c
    <3>1. lock'[d] = lock[d]
      BY <1>4, <2>2 DEF OnlySession
    <3> QED BY <1>1, <1>3, <3>1 DEF InHand
  <2> QED BY <2>1, <2>2
<1>7. cards[m].pinned <=> \E t \in OpenIn(d) : rows[t].msg = m
  BY <1>1, <1>2, <1>3, <1>6 DEF CardsInv, PinTrue
<1>8. (\E t \in OpenIn(d) : rows[t].msg = m) <=> \E t \in OpenIn(d)' : rows'[t].msg = m
  <2>1. ASSUME NEW t, t # s
        PROVE  /\ t \in DOMAIN rows <=> t \in DOMAIN rows'
               /\ t \in DOMAIN rows => rows'[t] = rows[t]
    BY <2>1 DEF OnlySession
  <2>2. rows'[s].msg # m
    BY DEF OnlySession
  <2> QED BY <1>5, <2>1, <2>2 DEF OpenIn
<1> QED BY <1>1, <1>3, <1>7, <1>8
LEMMA OtherClose ==
  ASSUME JobsInv, CardsInv, BudgetShrinks, NEW c \in Chats, NEW s, NEW r, NEW next,
         OnlySession(c, s, r, next), OwnMessage(c, s, r), Spent("reject")' = 0
  PROVE  /\ \A t \in DOMAIN rows : t # s /\ rows[t].status = "completed" =>
              ClosedCard(rows[t].msg, FALSE)'
         /\ \A d \in Chats : d # c =>
              /\ lock[d].pc = "close" => ClosedCard(lock[d].cur.msg, TRUE)'
              /\ lock[d].pc = "ready" => ClosedCard(lock[d].cur.msg, FALSE)'
<1>1. Spent("reject") = 0 /\ Messages /\ CompletionsClose
  BY InvParts, SpentBefore, SpentKinds DEF CardsInv
<1>2. ASSUME NEW t \in DOMAIN rows, t # s, NEW m, m = rows[t].msg, m # NULL,
             NEW b \in BOOLEAN, ClosedCard(m, b)
      PROVE  ClosedCard(m, b)'
  <2>1. \/ cards'[m].gone
        \/ ~cards[m].gone /\ cards'[m] = cards[m]
    BY <1>2, OtherCards
  <2> QED BY <1>2, <2>1 DEF ClosedCard
<1>3. ASSUME NEW t \in DOMAIN rows, t # s, rows[t].status = "completed"
      PROVE  ClosedCard(rows[t].msg, FALSE)'
  <2>1. PICK m : m = rows[t].msg
    OBVIOUS
  <2>2. m # NULL /\ ClosedCard(m, FALSE) /\ rows'[t].msg = m
    BY <1>1, <1>3, <2>1 DEF Messages, CompletionsClose, OnlySession
  <2>3. ClosedCard(m, FALSE)'
    BY <1>2, <1>3, <2>1, <2>2
  <2> QED BY <2>2, <2>3 DEF ClosedCard
<1>4. ASSUME NEW d \in Chats, d # c, NEW b \in BOOLEAN,
             \/ lock[d].pc = "close" /\ b = TRUE
             \/ lock[d].pc = "ready" /\ b = FALSE
      PROVE  ClosedCard(lock[d].cur.msg, b)'
  <2>1. PICK t, m : t = lock[d].sid /\ m = rows[t].msg
    OBVIOUS
  <2>2. Busy(d) /\ lock'[d] = lock[d]
    BY <1>4 DEF Busy, OnlySession
  <2>3. t \in DOMAIN rows /\ t # s /\ Fits(lock[d], rows[t])
    BY <2>1, <2>2, <1>4, InvParts DEF OnlySession, HoldersFit
  <2>4. lock[d].cur.msg = m /\ m # NULL
    BY <1>1, <1>4, <2>1, <2>3 DEF Fits, Completion, Messages
  <2>5. ClosedCard(m, b)
    BY <1>1, <1>4, <2>4 DEF CompletionsClose
  <2>6. ClosedCard(m, b)'
    BY <1>2, <2>1, <2>3, <2>4, <2>5
  <2> QED BY <2>2, <2>4, <2>6 DEF ClosedCard
<1> QED BY <1>3, <1>4

LEMMA CardsFrame ==
  ASSUME JobsInv, CardsInv, TypeOK', BudgetShrinks, NEW c \in Chats, NEW s, NEW r, NEW next,
         OnlySession(c, s, r, next), OwnMessage(c, s, r), OwnCard(c, s, r, next)
  PROVE  CardsInv'
<1>1. Messages'
  BY MessagesFrame
<1>2. OldCardsGone'
  <2> SUFFICES ASSUME NEW d \in Chats, lock'[d].pc = "unpinOld"
               PROVE  lock'[d].old.msg \in DOMAIN cards' /\ cards'[lock'[d].old.msg].gone
    BY DEF OldCardsGone
  <2>1. CASE d = c
    BY <2>1 DEF OnlySession, OwnCard
  <2>2. CASE d # c
    <3>1. lock'[d] = lock[d]
      BY <2>2 DEF OnlySession
    <3>2. lock[d].old.msg \in DOMAIN cards /\ cards[lock[d].old.msg].gone
      BY <3>1 DEF CardsInv, OldCardsGone
    <3> QED BY <3>1, <3>2 DEF OwnMessage, CardsOnly
  <2> QED BY <2>1, <2>2
<1>3. DOMAIN rows' = DOMAIN rows \cup {s} /\ rows'[s] = r
      /\ lock'[c] = next /\ \A d \in Chats : d # c => lock'[d] = lock[d]
  BY DEF OnlySession
<1>4. ASSUME NEW t \in DOMAIN rows' PROVE CardTrue(t)'
  <2>1. CASE t = s
    BY <2>1 DEF OwnCard
  <2>2. CASE t # s
    BY <1>3, <2>2, OtherTrue
  <2> QED BY <2>1, <2>2
<1>5. ASSUME NEW m \in DOMAIN cards' PROVE PinTrue(m)'
  <2>1. CASE m = r.msg
    <3>1. NULL \notin DOMAIN cards'
      BY LenProperties DEF TypeOK, NULL
    <3> QED BY <2>1, <3>1 DEF OwnCard
  <2>2. CASE m # r.msg
    BY <2>2, OtherPin
  <2> QED BY <2>1, <2>2
<1>6. CompletionsClose'
  <2> SUFFICES ASSUME Spent("reject")' = 0
               PROVE  /\ \A t \in DOMAIN rows' : rows'[t].status = "completed" =>
                           ClosedCard(rows[t].msg, FALSE)'
                      /\ \A d \in Chats :
                           /\ lock'[d].pc = "close" => ClosedCard(lock[d].cur.msg, TRUE)'
                           /\ lock'[d].pc = "ready" => ClosedCard(lock[d].cur.msg, FALSE)'
    BY DEF CompletionsClose
  <2>1. /\ \A t \in DOMAIN rows : t # s /\ rows[t].status = "completed" =>
              ClosedCard(rows[t].msg, FALSE)'
        /\ \A d \in Chats : d # c =>
              /\ lock[d].pc = "close" => ClosedCard(lock[d].cur.msg, TRUE)'
              /\ lock[d].pc = "ready" => ClosedCard(lock[d].cur.msg, FALSE)'
    BY OtherClose
  <2>2. /\ r.status = "completed" => ClosedCard(r.msg, FALSE)'
        /\ next.pc = "close" => ClosedCard(next.cur.msg, TRUE)'
        /\ next.pc = "ready" => ClosedCard(next.cur.msg, FALSE)'
    BY DEF OwnCard
  <2>3. ASSUME NEW t \in DOMAIN rows', rows'[t].status = "completed"
        PROVE  ClosedCard(rows[t].msg, FALSE)'
    <3>1. CASE t = s
      BY <1>3, <2>2, <2>3, <3>1 DEF ClosedCard
    <3>2. CASE t # s
      BY <1>3, <2>1, <2>3, <3>2 DEF OnlySession
    <3> QED BY <3>1, <3>2
  <2>4. ASSUME NEW d \in Chats
        PROVE  /\ lock'[d].pc = "close" => ClosedCard(lock[d].cur.msg, TRUE)'
               /\ lock'[d].pc = "ready" => ClosedCard(lock[d].cur.msg, FALSE)'
    <3>1. CASE d = c
      BY <1>3, <2>2, <3>1 DEF ClosedCard
    <3>2. CASE d # c
      BY <1>3, <2>1, <3>2
    <3> QED BY <3>1, <3>2
  <2> QED BY <2>3, <2>4
<1> QED BY <1>1, <1>2, <1>4, <1>5, <1>6 DEF CardsInv
\* A call that answers with an error, or a crash, has been counted.
Faulty == \E k \in {"reject", "lost", "crash"} : Spent(k) > 0

LEMMA FaultyPin == ASSUME TypeOK', NEW m, Faulty' PROVE PinTrue(m)'
<1>1. \A k \in {"reject", "lost", "crash"} : Spent(k)' \in Int
  BY BudgetAssumption, SpentKinds DEF TypeOK, Spent
<1> QED BY <1>1 DEF Faulty, PinTrue

\* A card is that of an open session as long as its own session stays open, or not.
LEMMA OpenFrame ==
  ASSUME NEW c, NEW s, NEW r, NEW next, OnlySession(c, s, r, next), s \in DOMAIN rows,
         r.msg = rows[s].msg, r.status \in OpenStatus <=> rows[s].status \in OpenStatus, NEW m
  PROVE  (\E t \in OpenIn(c) : rows[t].msg = m) <=> \E t \in OpenIn(c)' : rows'[t].msg = m
<1>1. ASSUME NEW t
      PROVE  (t \in OpenIn(c) /\ rows[t].msg = m) <=> (t \in OpenIn(c)' /\ rows'[t].msg = m)
  <2>1. CASE t = s
    BY <2>1 DEF OpenIn, OnlySession
  <2>2. CASE t # s
    BY <2>2 DEF OpenIn, OnlySession
  <2> QED BY <2>1, <2>2
<1> QED BY <1>1

LEMMA SpendCounts ==
  ASSUME TypeOK, Counted, NEW k \in BudgetKinds, Spend(k)
  PROVE  Spent(k)' > 0 /\ (k \in {"reject", "lost", "crash"} => Faulty')
<1>1. budget[k] \in Nat /\ Budget[k] \in Nat /\ budget[k] <= Budget[k] /\ budget'[k] = budget[k] - 1
  BY BudgetAssumption DEF TypeOK, Counted, Spend
<1> QED BY <1>1 DEF Spent, Faulty

-----------------------------------------------------------------------------
(* Steps that change no card.                                              *)

\* What the card of session s was to show, it still is to show.
StillTrue(s) ==
  rows'[s].status = "active" =>
    Before(s)'.time = Before(s).time /\ Before(s).members \subseteq Before(s)'.members

LEMMA SameCards ==
  ASSUME JobsInv, CardsInv, TypeOK', BudgetShrinks, NEW c \in Chats, NEW s, NEW r, NEW next,
         Step(c, s, r, next), UNCHANGED cards, r.msg = rows[s].msg,
         lock[c].pc \notin {"unpinOld", "pin", "unpin"},
         next.pc \notin {"unpinOld", "close", "ready"},
         StillTrue(s),
         \/ r.status = rows[s].status
         \/ r.status = "failed" /\ (rows[s].status \in OpenStatus => Faulty')
         \/ /\ r.status = "completed" /\ rows[s].status = "completing"
            /\ lock[c].pc = "ready" /\ lock[c].cur = rows[s]
  PROVE  CardsInv'
<1>1. OnlySession(c, s, r, next) /\ s \in DOMAIN rows /\ rows[s].chat = c
  BY InvParts, StepIsOnly DEF Step
<1>2. Messages /\ CardTrue(s) /\ CompletionsClose
  BY <1>1 DEF CardsInv
<1>3. OwnMessage(c, s, r)
  <2>1. CardsOnly(r.msg) /\ Moved(c, s, r)
    BY <1>1 DEF CardsOnly, Moved
  <2> QED BY <1>1, <1>2, <2>1 DEF OwnMessage, Messages
<1>4. CardTrue(s)'
  <2> SUFFICES ASSUME r.status = "active", Available(r.msg), Spent("lost")' = 0, Spent("crash")' = 0
               PROVE  /\ cards[r.msg].time = Before(s)'.time
                      /\ cards[r.msg].members \subseteq Before(s)'.members
    BY <1>1 DEF OnlySession, CardTrue, Available
  <2>1. Spent("lost") = 0 /\ Spent("crash") = 0
    BY InvParts, SpentBefore, SpentKinds
  <2>2. rows[s].status = "active" /\ rows'[s].status = "active"
    BY <1>1 DEF OnlySession
  <2> QED BY <1>2, <2>1, <2>2 DEF CardTrue, StillTrue
<1>5. ASSUME r.msg # NULL PROVE PinTrue(r.msg)'
  <2>1. PICK m : m = r.msg
    OBVIOUS
  <2>2. m \in DOMAIN cards /\ cards[m].chat = c /\ PinTrue(m)
    BY <1>1, <1>2, <1>5, <2>1 DEF Messages, CardsInv
  <2>3. CASE Faulty'
    BY <2>1, <2>3, FaultyPin DEF PinTrue, InHand
  <2>4. CASE ~Faulty'
    <3>1. r.status \in OpenStatus <=> rows[s].status \in OpenStatus
      BY <2>4 DEF OpenStatus
    <3>2. (\E t \in OpenIn(c) : rows[t].msg = m) <=> \E t \in OpenIn(c)' : rows'[t].msg = m
      BY <1>1, <3>1, OpenFrame
    <3>3. ~InHand(m)
      BY <2>2 DEF InHand
    <3>4. ASSUME Spent("reject")' = 0, Spent("lost")' = 0, Spent("crash")' = 0
          PROVE  Spent("reject") = 0 /\ Spent("lost") = 0 /\ Spent("crash") = 0
      BY <3>4, InvParts, SpentBefore, SpentKinds
    <3>5. PinTrue(m)'
      BY <2>2, <3>2, <3>3, <3>4 DEF PinTrue
    <3> QED BY <2>1, <3>5 DEF PinTrue, InHand
  <2> QED BY <2>3, <2>4
<1>6. ASSUME Spent("reject")' = 0, r.status = "completed" PROVE ClosedCard(r.msg, FALSE)'
  <2>1. Spent("reject") = 0
    BY <1>6, InvParts, SpentBefore, SpentKinds
  <2>2. ClosedCard(r.msg, FALSE)
    BY <1>1, <1>2, <1>6, <2>1 DEF CompletionsClose
  <2> QED BY <2>2 DEF ClosedCard
<1>7. OwnCard(c, s, r, next)
  BY <1>4, <1>5, <1>6 DEF OwnCard
<1> QED BY <1>1, <1>3, <1>7, CardsFrame

\* A request that finds nothing to do, and one that works on the session until its card is out.
LEMMA StartedCards ==
  ASSUME JobsInv, CardsInv, TypeOK', NEW c \in Chats, NEW kinds, Acquire(c, kinds),
         UNCHANGED <<cards, budget>>, NEW s, NEW r, NEW next, Step(c, s, r, next),
         r.msg = rows[s].msg, r.status = rows[s].status,
         next.pc \in {"free", "card", "unpin"},
         next.pc = "card" => next.old = rows[s] \/ r.status = "creating",
         next.pc # "card" => r = rows[s]
  PROVE  CardsInv'
<1>1. BudgetShrinks
  BY InvParts, BudgetKept
<1>2. lock[c] = NoOp /\ NoOp.pc = "free"
  BY InvParts, AcquireFrame, FreeLock
<1>3. rows[s].chat = c /\ r.chat = c /\ rows'[s] = r /\ lock'[c] = next /\ rows[s] # NoRow
      /\ (next.pc # "free" => next.sid = s)
  <2>1. OnlySession(c, s, r, next)
    BY InvParts, StepIsOnly
  <2>2. rows[s] \in Row /\ s \in DOMAIN rows
    BY DEF Step
  <2> QED BY <2>1, <2>2, RowNotNone DEF OnlySession
<1>4. Before(s) = rows[s]
  BY <1>2, <1>3 DEF Before, Reschedules
<1>5. r.status = "active" => Before(s)' = rows[s]
  BY <1>3 DEF Before, Reschedules
<1> QED BY <1>1, <1>2, <1>3, <1>4, <1>5, SameCards DEF StillTrue

LEMMA StartRescheduleCards ==
  ASSUME JobsInv, CardsInv, TypeOK', NEW c \in Chats, StartReschedule(c)
  PROVE  CardsInv'
<1>1. PICK req : req = Head(queue[c])
  OBVIOUS
<1>2. PICK s, r :
        /\ s \in OpenIn(c) /\ r = Reschedule(rows[s], req.user, req.time)
        /\ Step(c, s, r, StartedOp(req, s, "card", rows[s], r))
  BY <1>1, InvParts, StartRescheduleShape
<1>3. PICK op : op = StartedOp(req, s, "card", rows[s], r)
  OBVIOUS
<1>4. op.pc = "card" /\ op.old = rows[s]
  BY <1>3, StartedFields
<1>5. Acquire(c, {"propose"}) /\ UNCHANGED <<cards, budget>>
  BY DEF StartReschedule
<1>6. r.status = rows[s].status /\ r.msg = rows[s].msg
  <2>1. rows[s] \in Row
    BY <1>2 DEF Step
  <2>2. r.status = rows[s].status
    <3>1. req \in Request /\ req.kind = "propose"
      BY <1>1, <1>5, InvParts, AcquireFrame
    <3> QED BY <1>2, <2>1, <3>1, RequestFields, RescheduledRow
  <2> QED BY <1>2, <2>1, <2>2 DEF Reschedule, Row
<1> QED BY <1>2, <1>3, <1>4, <1>5, <1>6, StartedCards

LEMMA StartTapCards ==
  ASSUME JobsInv, CardsInv, TypeOK', NEW c \in Chats, StartTap(c)
  PROVE  CardsInv'
<1>1. PICK req : req = Head(queue[c])
  OBVIOUS
<1>2. PICK s : s = req.sid
  OBVIOUS
<1>3. Acquire(c, {"join", "leave"}) /\ UNCHANGED <<cards, budget>> /\ NoOp.pc = "free"
  BY DEF StartTap, NoOp
<1>4. \/ Step(c, s, rows[s], NoOp)
      \/ Step(c, s, Tapped(req, rows[s]), StartedOp(req, s, "card", rows[s], rows[s]))
  BY <1>1, <1>2, InvParts, StartTapShape
<1>5. CASE Step(c, s, rows[s], NoOp)
  BY <1>3, <1>5, StartedCards
<1>6. CASE Step(c, s, Tapped(req, rows[s]), StartedOp(req, s, "card", rows[s], rows[s]))
  <2>1. PICK r, op : r = Tapped(req, rows[s]) /\ op = StartedOp(req, s, "card", rows[s], rows[s])
    OBVIOUS
  <2>2. op.pc = "card" /\ op.old = rows[s]
    BY <2>1, StartedFields
  <2>3. r.status = rows[s].status /\ r.msg = rows[s].msg
    BY <1>6, <2>1 DEF Step, Tapped, Join, Leave, Row
  <2> QED BY <1>3, <1>6, <2>1, <2>2, <2>3, StartedCards
<1> QED BY <1>4, <1>5, <1>6

\* Countdowns, recoveries and completions start from the row as it is.
LEMMA StartJobCards ==
  ASSUME JobsInv, CardsInv, TypeOK', NEW c \in Chats,
         StartRefresh(c) \/ StartRecover(c) \/ StartComplete(c)
  PROVE  CardsInv'
<1>1. PICK req, s : req = Head(queue[c]) /\ s = req.sid
  OBVIOUS
<1>2. PICK kind, pc, old :
        /\ kind \in JobKinds /\ Acquire(c, {kind}) /\ UNCHANGED <<rows, cards, budget>>
        /\ \/ /\ lock' = [lock EXCEPT ![c] = StartedOp(req, s, pc, old, rows[s])]
              /\ \/ kind = "refresh" /\ pc = "card" /\ old = rows[s] /\ rows[s].status = "active"
                 \/ kind = "recover" /\ pc = "card" /\ old = NoRow /\ rows[s].status = "creating"
                 \/ kind = "complete" /\ pc = "unpin" /\ old = NoRow
           \/ UNCHANGED lock
  <2>1. /\ StartRefresh(c) => /\ Acquire(c, {"refresh"}) /\ UNCHANGED <<rows, cards, budget>>
                              /\ \/ /\ rows[s].status = "active"
                                    /\ lock' = [lock EXCEPT ![c] = StartedOp(req, s, "card", rows[s], rows[s])]
                                 \/ UNCHANGED lock
        /\ StartRecover(c) => /\ Acquire(c, {"recover"}) /\ UNCHANGED <<rows, cards, budget>>
                              /\ \/ /\ rows[s].status = "creating"
                                    /\ lock' = [lock EXCEPT ![c] = StartedOp(req, s, "card", NoRow, rows[s])]
                                 \/ UNCHANGED lock
        /\ StartComplete(c) => /\ Acquire(c, {"complete"}) /\ UNCHANGED <<rows, cards, budget>>
                               /\ \/ lock' = [lock EXCEPT ![c] = StartedOp(req, s, "unpin", NoRow, rows[s])]
                                  \/ UNCHANGED lock
    BY <1>1 DEF StartRefresh, StartRecover, StartComplete, Hold
  <2>2. {"refresh", "recover", "complete"} \subseteq JobKinds
    BY DEF JobKinds
  <2> QED BY <2>1, <2>2
<1>3. CASE UNCHANGED lock
  <2>1. Step(c, s, rows[s], NoOp) /\ NoOp.pc = "free"
    <3>1. "propose" \notin {kind}
      BY <1>2 DEF JobKinds
    <3>2. Step(c, Head(queue[c]).sid, rows[Head(queue[c]).sid], NoOp)
      BY <1>2, <1>3, <3>1, InvParts, NoOpShape
    <3> QED BY <1>1, <3>2 DEF NoOp
  <2> QED BY <1>2, <2>1, StartedCards
<1>4. CASE /\ lock' = [lock EXCEPT ![c] = StartedOp(req, s, pc, old, rows[s])]
           /\ \/ kind = "refresh" /\ pc = "card" /\ old = rows[s] /\ rows[s].status = "active"
              \/ kind = "recover" /\ pc = "card" /\ old = NoRow /\ rows[s].status = "creating"
              \/ kind = "complete" /\ pc = "unpin" /\ old = NoRow
  <2>1. Step(c, s, rows[s], StartedOp(req, s, pc, old, rows[s]))
    BY <1>1, <1>2, <1>4, InvParts, StartJobShape
  <2>2. PICK op : op = StartedOp(req, s, pc, old, rows[s])
    OBVIOUS
  <2>3. op.pc = pc /\ op.old = old
    BY <2>2, StartedFields
  <2> QED BY <1>2, <1>4, <2>1, <2>2, <2>3, StartedCards
<1> QED BY <1>2, <1>3, <1>4

LEMMA StartNewCards ==
  ASSUME JobsInv, CardsInv, TypeOK', NEW c \in Chats, StartNew(c)
  PROVE  CardsInv'
<1>1. PICK s, row, op : NewSession(c, s, row, op)
  BY InvParts, StartNewShape
<1>2. UNCHANGED <<cards, budget>>
  BY DEF StartNew
<1>3. BudgetShrinks
  BY <1>2, InvParts, BudgetKept
<1>4. OnlySession(c, s, row, op)
  BY <1>1 DEF NewSession, OnlySession, Busy
<1>5. OwnMessage(c, s, row)
  BY <1>1, <1>2 DEF NewSession, OwnMessage, Moved, CardsOnly
<1>6. OwnCard(c, s, row, op)
  BY <1>1 DEF NewSession, OwnCard, CardTrue
<1> QED BY <1>3, <1>4, <1>5, <1>6, CardsFrame

LEMMA ShoutCards ==
  ASSUME JobsInv, CardsInv, TypeOK', NEW c \in Chats, Shout(c)
  PROVE  CardsInv'
<1>1. PICK s, next :
        /\ s = lock[c].sid /\ Step(c, s, rows[s], next)
        /\ next.pc = "card" /\ lock[c].pc = "shout" /\ rows[s].status = "creating"
  BY InvParts, ShoutShape
<1>2. UNCHANGED <<cards, budget>> /\ BudgetShrinks
  BY InvParts, BudgetKept DEF Shout
<1>3. StillTrue(s)
  BY <1>1, InvParts, StepFacts DEF StillTrue
<1> QED BY <1>1, <1>2, <1>3, SameCards

\* A step that keeps the row and ends at a lock that publishes nothing.
LEMMA KeptTrue ==
  ASSUME JobsInv, NEW c \in Chats, NEW s, NEW r, NEW next, Step(c, s, r, next),
         next.pc # "card", r.status # "active" \/ (lock[c].pc # "card" /\ r = rows[s])
  PROVE  StillTrue(s)
<1>1. rows'[s] = r /\ lock'[c] = next /\ rows[s].chat = c /\ r.chat = c
  <2>1. rows'[s] = r /\ lock'[c] = next
    BY InvParts, StepFacts
  <2> QED BY <2>1 DEF Step
<1>2. Before(s)' = r
  BY <1>1 DEF Before, Reschedules
<1>3. lock[c].pc # "card" => Before(s) = rows[s]
  BY <1>1 DEF Before, Reschedules
<1> QED BY <1>1, <1>2, <1>3 DEF StillTrue

LEMMA AnnounceCards ==
  ASSUME JobsInv, CardsInv, TypeOK', NEW c \in Chats, Announce(c)
  PROVE  CardsInv'
<1>1. PICK s : Step(c, s, rows[s], NoOp) /\ lock[c].pc = "announce"
  BY InvParts, AnnounceShape
<1>2. UNCHANGED <<cards, budget>> /\ BudgetShrinks /\ NoOp.pc = "free"
  BY InvParts, BudgetKept DEF Announce, NoOp
<1>3. StillTrue(s)
  BY <1>1, <1>2, KeptTrue
<1> QED BY <1>1, <1>2, <1>3, SameCards

\* The call to the participants is no card.
LEMMA ReadyCards ==
  ASSUME JobsInv, CardsInv, TypeOK', NEW c \in Chats, ReadySent(c) \/ ReadyFails(c)
  PROVE  CardsInv'
<1>1. lock[c].pc = "ready" /\ (Succeeds(lock[c]) \/ Fails(lock[c]))
  BY DEF ReadySent, ReadyFails
<1>2. UNCHANGED cards /\ BudgetShrinks /\ NoOp.pc = "free"
  <2>1. UNCHANGED cards
    BY <1>1 DEF Succeeds, Fails, TakesEffect, CardsAfter
  <2> QED BY <1>1, <2>1, InvParts, BudgetKept DEF NoOp
<1>3. PICK s, r :
        /\ Step(c, s, r, NoOp) /\ r.msg = rows[s].msg
        /\ \/ r.status = "completed" /\ lock[c].cur = rows[s] /\ s = lock[c].sid
           \/ r.status \in {"failed", "completing"} /\ s = lock[c].sid
  BY InvParts, ReadySentShape, ReadyFailsShape
<1>4. rows[s].status = "completing"
  <2>1. Fits(lock[c], rows[lock[c].sid])
    BY <1>1, InvParts, HolderFits
  <2> QED BY <1>1, <1>3, <2>1 DEF Fits, Completion
<1>5. StillTrue(s)
  BY <1>2, <1>3, KeptTrue
<1>6. "completing" \notin OpenStatus
  BY DEF OpenStatus
<1> QED BY <1>1, <1>2, <1>3, <1>4, <1>5, <1>6, SameCards

-----------------------------------------------------------------------------
(* Steps that change the card of their session.                            *)

\* The messages a holder works with.
LEMMA HolderCard ==
  ASSUME JobsInv, CardsInv, NEW c \in Chats, Busy(c), NEW op, op = lock[c]
  PROVE  LET s == op.sid
             m == op.cur.msg
         IN  /\ op \in Op /\ s \in DOMAIN rows /\ rows[s] \in Row /\ rows[s].chat = c
             /\ op.cur.chat = c /\ op.cur.time = rows[s].time /\ m = rows[s].msg
             /\ m # NULL => m \in DOMAIN cards /\ cards[m].chat = c
             /\ op.pc \in {"unpinOld", "pin", "announce", "unpin", "close", "ready"} => m # NULL
             /\ op.pc = "unpinOld" => op.old.msg \in DOMAIN cards /\ cards[op.old.msg].gone
<1>1. /\ op \in Op /\ op.sid \in DOMAIN rows /\ rows[op.sid] \in Row /\ rows[op.sid].chat = c
      /\ Fits(op, rows[op.sid])
  BY InvParts, HolderFits DEF Busy
<1>2. Messages /\ OldCardsGone
  BY DEF CardsInv
<1>3. rows[op.sid].status \in HolderMayHave(op.pc)
  BY InvParts, HolderFacts DEF Busy
<1>4. op.pc \in {"unpinOld", "pin", "announce", "unpin", "close", "ready"} =>
        rows[op.sid].status \in {"active", "completing"}
  BY <1>1, <1>3 DEF Fits, HolderMayHave
<1> QED BY <1>1, <1>2, <1>4 DEF Fits, Messages, OldCardsGone

\* A call changes no card but that of its session, and of those that are gone.
LEMMA EffectCards ==
  ASSUME JobsInv, CardsInv, NEW c \in Chats, Busy(c), NEW op, op = lock[c], cards' = CardsAfter(op)
  PROVE  /\ CardsOnly(op.cur.msg)
         /\ op.pc # "card" => DOMAIN cards' = DOMAIN cards
         /\ \A m \in DOMAIN cards' :
              m \in DOMAIN cards \/ (m = PublishedId(op) /\ op.pc = "card" /\ ~Available(op.cur.msg))
<1>1. TypeOK /\ op \in Op /\ op.sid \in DOMAIN rows /\ op.cur.msg = rows[op.sid].msg
      /\ (op.cur.msg # NULL => op.cur.msg \in DOMAIN cards)
  BY InvParts, HolderCard
<1>2. PICK m : m = op.cur.msg
  OBVIOUS
<1>3. CASE op.pc = "card"
  <2>1. cards' = Published(op)
    BY <1>3 DEF CardsAfter
  <2>2. PICK id : id = PublishedId(op)
    OBVIOUS
  <2>3. /\ DOMAIN cards' = DOMAIN cards \cup {id}
        /\ \A k \in DOMAIN cards : k # id => cards'[k] = cards[k]
        /\ IF Available(m)
           THEN id = m /\ id \in DOMAIN cards /\ cards'[id].chat = cards[id].chat
                /\ cards'[id].gone = cards[id].gone
           ELSE id \notin DOMAIN cards
    BY <1>1, <1>2, <2>1, <2>2, PublishedCard
  <2> QED BY <1>2, <1>3, <2>2, <2>3 DEF CardsOnly
<1>4. CASE op.pc = "unpinOld"
  <2>1. PICK old \in DOMAIN cards : old = op.old.msg /\ cards[old].gone
    BY <1>4, HolderCard
  <2>2. cards' = [cards EXCEPT ![old].pinned = FALSE]
    BY <1>4, <2>1 DEF CardsAfter
  <2>3. /\ DOMAIN cards' = DOMAIN cards
        /\ \A k \in DOMAIN cards : k # old => cards'[k] = cards[k]
        /\ cards'[old].chat = cards[old].chat /\ cards'[old].gone = cards[old].gone
    BY <1>1, <2>2, PinnedCard
  <2> QED BY <1>2, <1>4, <2>1, <2>3 DEF CardsOnly
<1>5. CASE op.pc \in {"pin", "unpin", "close"}
  <2>1. m \in DOMAIN cards
    BY <1>1, <1>2, <1>5, HolderCard
  <2>2. PICK b \in BOOLEAN : b = IF op.pc = "pin" THEN Available(m) ELSE FALSE
    BY DEF Available
  <2>3. /\ op.pc \in {"pin", "unpin"} => cards' = [cards EXCEPT ![m].pinned = b]
        /\ op.pc = "close" => cards' = [cards EXCEPT ![m].buttons = FALSE]
    BY <1>2, <1>5, <2>2 DEF CardsAfter
  <2>4. /\ DOMAIN cards' = DOMAIN cards
        /\ \A k \in DOMAIN cards : k # m => cards'[k] = cards[k]
        /\ cards'[m].chat = cards[m].chat /\ cards'[m].gone = cards[m].gone
    BY <1>1, <1>5, <2>1, <2>3, PinnedCard, ClosedButtons
  <2> QED BY <1>2, <1>5, <2>4 DEF CardsOnly
<1>6. CASE op.pc \notin {"card", "unpinOld", "pin", "unpin", "close"}
  BY <1>6 DEF CardsAfter, CardsOnly
<1> QED BY <1>3, <1>4, <1>5, <1>6

\* The card that an operation found is the one it set out from.
LEMMA OldMessage ==
  ASSUME JobsInv, NEW c \in Chats, lock[c].pc = "card", lock[c].old # NoRow
  PROVE  lock[c].old \in Row /\ lock[c].old.msg = rows[lock[c].sid].msg
<1>1. PICK op, old, r : op = lock[c] /\ old = op.old /\ r = rows[op.sid]
  OBVIOUS
<1>2. old \in Row /\ r \in Row /\ Fits(op, r)
  BY <1>1, InvParts, HolderFits
<1>3. WroteRow(op, r)
  BY <1>1, <1>2 DEF Fits
<1>4. \/ r = Reschedule(old, op.req.user, op.req.time)
      \/ r = Join(old, op.req.user)
      \/ r = Leave(old, op.req.user)
      \/ r = old
  BY <1>1, <1>3 DEF WroteRow
<1>5. r.msg = old.msg
  BY <1>2, <1>4 DEF Reschedule, Join, Leave, Row
<1> QED BY <1>1, <1>2, <1>5

LEMMA CardPublishedCards ==
  ASSUME JobsInv, CardsInv, TypeOK', NEW c \in Chats, CardPublished(c)
  PROVE  CardsInv'
<1>1. PICK s, r, op, next :
        /\ op = lock[c] /\ op.pc = "card" /\ s = op.sid /\ Step(c, s, r, next)
        /\ r.msg = PublishedId(op) /\ r.msg # NULL /\ r.time = rows[s].time
        /\ r.status = "active" /\ r.members = rows[s].members /\ rows[s].status \in OpenStatus
        /\ next.pc \in {"free", "announce", "pin", "unpinOld"}
        /\ next.pc # "free" => next.old = op.old /\ next.cur = r
        /\ op.old.msg = r.msg => next.pc \in {"free", "announce"}
        /\ op.old.msg # r.msg => next.pc = IF op.old.msg = NULL THEN "pin" ELSE "unpinOld"
  BY InvParts, CardPublishedShape
<1>2. BudgetShrinks /\ cards' = Published(op) /\ cards' = CardsAfter(op)
  <2>1. Succeeds(op)
    BY <1>1 DEF CardPublished
  <2> QED BY <1>1, <2>1, InvParts, BudgetKept DEF Succeeds, TakesEffect, CardsAfter
<1>3. /\ Busy(c) /\ op \in Op /\ s \in DOMAIN rows /\ rows[s] \in Row
      /\ op.cur.chat = c /\ op.cur.time = rows[s].time /\ op.cur.msg = rows[s].msg
      /\ op.cur.msg # NULL => op.cur.msg \in DOMAIN cards /\ cards[op.cur.msg].chat = c
  <2>1. Busy(c)
    BY <1>1 DEF Busy
  <2> QED BY <1>1, <2>1, HolderCard
<1>4. OnlySession(c, s, r, next) /\ lock'[c] = next /\ rows'[s] = r /\ r.chat = c
  <2>1. OnlySession(c, s, r, next)
    BY <1>1, InvParts, StepIsOnly
  <2> QED BY <2>1 DEF OnlySession
<1>5. /\ DOMAIN cards' = DOMAIN cards \cup {r.msg}
      /\ cards'[r.msg].time = r.time /\ cards'[r.msg].members = r.members
      /\ IF Available(op.cur.msg)
         THEN /\ r.msg = rows[s].msg /\ r.msg \in DOMAIN cards /\ cards'[r.msg].chat = cards[r.msg].chat
              /\ cards'[r.msg].pinned = cards[r.msg].pinned /\ cards'[r.msg].gone = cards[r.msg].gone
         ELSE r.msg \notin DOMAIN cards /\ cards'[r.msg].chat = c
  <2>1. PICK m : m = PublishedId(op)
    OBVIOUS
  <2>2. /\ DOMAIN cards' = DOMAIN cards \cup {m}
        /\ cards'[m].time = op.cur.time /\ cards'[m].members = rows[op.sid].members
        /\ IF Available(op.cur.msg)
           THEN /\ m = op.cur.msg /\ m \in DOMAIN cards /\ cards'[m].chat = cards[m].chat
                /\ cards'[m].pinned = cards[m].pinned /\ cards'[m].gone = cards[m].gone
           ELSE m \notin DOMAIN cards /\ cards'[m].chat = op.cur.chat
    BY <1>1, <1>2, <1>3, <2>1, InvParts, PublishedCard
  <2> QED BY <1>1, <1>3, <2>1, <2>2
<1>6. CardsOnly(op.cur.msg) /\ cards'[r.msg].chat = c
  BY <1>2, <1>3, <1>1, <1>5, EffectCards
<1>7. ~Available(op.cur.msg) => (op.cur.msg # NULL => cards[op.cur.msg].gone)
  BY DEF Available
<1>8. OwnMessage(c, s, r)
  <2>1. CardsOnly(r.msg)
    BY <1>3, <1>5, <1>6, <1>7, CardsParts DEF CardsOnly
  <2>2. Moved(c, s, r)
    BY <1>3, <1>5, <1>6, <1>7 DEF Moved
  <2> QED BY <1>1, <1>5, <2>1, <2>2 DEF OwnMessage
<1>9. op.old.msg # NULL => op.old.msg = rows[s].msg
  BY <1>1, OldMessage DEF NoRow
<1>10. next.pc = "unpinOld" => next.old.msg \in DOMAIN cards' /\ cards'[next.old.msg].gone
  <2> SUFFICES ASSUME next.pc = "unpinOld"
               PROVE  op.old.msg \in DOMAIN cards' /\ cards'[op.old.msg].gone
    BY <1>1
  <2>1. op.old.msg # NULL /\ op.old.msg # r.msg
    BY <1>1
  <2>2. op.cur.msg = op.old.msg /\ ~Available(op.cur.msg)
    BY <1>3, <1>5, <1>9, <2>1
  <2> QED BY <1>3, <1>6, <1>7, <2>1, <2>2 DEF CardsOnly
<1>11. CardTrue(s)'
  <2>1. Before(s)' = r
    BY <1>1, <1>4 DEF Before, Reschedules
  <2> QED BY <1>4, <1>5, <2>1 DEF CardTrue
<1>12. PinTrue(r.msg)'
  <2>1. PICK m : m = r.msg
    OBVIOUS
  <2>2. CASE next.pc \in {"pin", "unpinOld"}
    BY <1>1, <1>4, <1>6, <2>2 DEF PinTrue, InHand
  <2>3. CASE next.pc \in {"free", "announce"}
    <3>1. op.old.msg = r.msg
      BY <1>1, <2>3
    <3>2. m = rows[s].msg /\ m \in DOMAIN cards /\ cards[m].chat = c
      BY <1>1, <1>3, <1>9, <2>1, <3>1
    <3>3. cards'[m].pinned = cards[m].pinned /\ cards'[m].gone = cards[m].gone /\ cards'[m].chat = c
      BY <1>5, <1>6, <2>1, <3>2
    <3>4. PinTrue(m) /\ ~InHand(m)
      BY <1>1, <3>2 DEF CardsInv, InHand
    <3>5. (\E t \in OpenIn(c) : rows[t].msg = m) <=> \E t \in OpenIn(c)' : rows'[t].msg = m
      <4>1. r.msg = rows[s].msg /\ (r.status \in OpenStatus <=> rows[s].status \in OpenStatus)
        BY <1>1, <2>1, <3>2 DEF OpenStatus
      <4> QED BY <1>3, <1>4, <4>1, OpenFrame
    <3>6. ASSUME Spent("reject")' = 0, Spent("lost")' = 0, Spent("crash")' = 0
          PROVE  Spent("reject") = 0 /\ Spent("lost") = 0 /\ Spent("crash") = 0
      BY <1>2, <3>6, InvParts, SpentBefore, SpentKinds
    <3> QED BY <2>1, <3>2, <3>3, <3>4, <3>5, <3>6 DEF PinTrue
  <2> QED BY <1>1, <2>2, <2>3
<1>13. OwnCard(c, s, r, next)
  BY <1>1, <1>10, <1>11, <1>12 DEF OwnCard
<1> QED BY <1>2, <1>4, <1>8, <1>13, CardsFrame

LEMMA CardFailsCards ==
  ASSUME JobsInv, CardsInv, TypeOK', NEW c \in Chats, CardFails(c)
  PROVE  CardsInv'
<1>1. PICK s, r, op :
        /\ op = lock[c] /\ op.pc = "card" /\ s = op.sid /\ Step(c, s, r, NoOp)
        /\ r.msg = rows[s].msg
        /\ \/ r.status = "failed"
           \/ /\ op.old \in Row /\ r.status = rows[s].status /\ r.time = op.old.time
              /\ op.old.members \subseteq r.members
  BY InvParts, CardFailsShape
<1>2. Fails(op) /\ NoOp.pc = "free"
  BY <1>1 DEF CardFails, NoOp
<1>3. BudgetShrinks
  BY <1>2, InvParts, BudgetKept
<1>4. OnlySession(c, s, r, NoOp) /\ s \in DOMAIN rows /\ rows'[s] = r /\ lock'[c] = NoOp
      /\ rows[s].chat = c /\ r.chat = c
  <2>1. OnlySession(c, s, r, NoOp) /\ s \in DOMAIN rows
    BY <1>1, InvParts, StepIsOnly DEF Step
  <2> QED BY <2>1 DEF OnlySession
<1>5. CASE Spend("reject") /\ UNCHANGED cards
  <2>1. Faulty'
    BY <1>5, InvParts, SpendCounts DEF BudgetKinds
  <2>2. StillTrue(s)
    <3> SUFFICES ASSUME r.status = "active"
                 PROVE  Before(s)'.time = Before(s).time /\ Before(s).members \subseteq Before(s)'.members
      BY <1>4 DEF StillTrue
    <3>1. op.old # NoRow
      BY <1>1, RowNotNone
    <3>2. Before(s) = op.old
      BY <1>1, <1>4, <3>1 DEF Before, Reschedules
    <3>3. Before(s)' = r
      BY <1>2, <1>4 DEF Before, Reschedules
    <3> QED BY <1>1, <3>2, <3>3
  <2> QED BY <1>1, <1>2, <1>3, <1>5, <2>1, <2>2, SameCards
<1>6. CASE Spend("lost") /\ TakesEffect(op)
  <2>1. Faulty' /\ Spent("lost")' > 0
    BY <1>6, InvParts, SpendCounts DEF BudgetKinds
  <2>2. Busy(c) /\ op.cur.msg = r.msg /\ rows[s].status \in OpenStatus
    <3>1. Busy(c)
      BY <1>1 DEF Busy
    <3> QED BY <1>1, <3>1, InvParts, HolderCard, HolderFits DEF Completion, Busy
  <2>3. CardsOnly(r.msg)
    BY <1>1, <1>6, <2>2, EffectCards DEF TakesEffect
  <2>4. /\ r.status = "creating" => r.msg = NULL
        /\ r.status \in {"active", "completing", "completed"} => r.msg # NULL
    BY <1>1, <1>4 DEF CardsInv, Messages
  <2>5. OwnMessage(c, s, r)
    BY <1>1, <1>4, <2>1, <2>3, <2>4 DEF OwnMessage, Moved
  <2>6. CardTrue(s)' /\ PinTrue(r.msg)'
    BY <2>1, FaultyPin DEF CardTrue
  <2>7. r.status # "completed"
    BY <1>1, <2>2 DEF OpenStatus
  <2>8. OwnCard(c, s, r, NoOp)
    BY <1>2, <2>6, <2>7 DEF OwnCard
  <2> QED BY <1>3, <1>4, <2>5, <2>8, CardsFrame
<1> QED BY <1>2, <1>5, <1>6 DEF Fails

-----------------------------------------------------------------------------
(* Pins and buttons.                                                       *)

\* What a call that is no publication does to the card it is about.
LEMMA EffectShown ==
  ASSUME JobsInv, CardsInv, NEW c \in Chats, Busy(c), NEW op, op = lock[c],
         cards' = CardsAfter(op), op.pc # "card",
         NEW m, m = op.cur.msg, m \in DOMAIN cards, ~cards[m].gone
  PROVE  /\ cards'[m].time = cards[m].time /\ cards'[m].members = cards[m].members
         /\ cards'[m].gone = cards[m].gone /\ cards'[m].chat = cards[m].chat
         /\ op.pc = "pin" => cards'[m].pinned
         /\ op.pc = "unpin" => ~cards'[m].pinned
         /\ op.pc = "close" => cards'[m].pinned = cards[m].pinned /\ ~cards'[m].buttons
<1>1. TypeOK /\ NULL \notin DOMAIN cards
  BY InvParts, CardsParts
<1>2. CASE op.pc = "unpinOld"
  <2>1. PICK old \in DOMAIN cards : old = op.old.msg /\ cards[old].gone
    BY <1>2, HolderCard
  <2>2. cards' = [cards EXCEPT ![old].pinned = FALSE]
    BY <1>2, <2>1 DEF CardsAfter
  <2>3. cards'[m] = cards[m]
    BY <1>1, <2>1, <2>2, PinnedCard
  <2> QED BY <1>2, <2>3
<1>3. CASE op.pc = "pin"
  <2>1. Available(m)
    BY <1>1 DEF Available
  <2>2. cards' = [cards EXCEPT ![m].pinned = TRUE]
    BY <1>3, <2>1 DEF CardsAfter
  <2> QED BY <1>1, <1>3, <2>2, PinnedCard
<1>4. CASE op.pc = "unpin"
  <2>1. cards' = [cards EXCEPT ![m].pinned = FALSE]
    BY <1>4 DEF CardsAfter
  <2> QED BY <1>1, <1>4, <2>1, PinnedCard
<1>5. CASE op.pc = "close"
  <2>1. cards' = [cards EXCEPT ![m].buttons = FALSE]
    BY <1>5 DEF CardsAfter
  <2> QED BY <1>1, <1>5, <2>1, ClosedButtons
<1>6. CASE op.pc \notin {"unpinOld", "pin", "unpin", "close"}
  BY <1>6 DEF CardsAfter
<1> QED BY <1>2, <1>3, <1>4, <1>5, <1>6

\* A call whose answer nobody reads worked, or its rejection is counted; the card of the
\* session shows what it showed.
LEMMA TriedCards ==
  ASSUME JobsInv, CardsInv, NEW c \in Chats, NEW s, NEW r, NEW next, Step(c, s, r, next),
         NEW op, op = lock[c], s = op.sid, op.pc \in {"unpinOld", "pin", "unpin", "close"}, Tried(op),
         r.msg = rows[s].msg, r.status \in {"active", "completing", "completed"}
  PROVE  /\ BudgetShrinks /\ OwnMessage(c, s, r) /\ OnlySession(c, s, r, next)
         /\ Busy(c) /\ r.msg = op.cur.msg /\ r.msg \in DOMAIN cards /\ cards[r.msg].chat = c
         /\ cards'[r.msg].chat = c
         /\ ~cards'[r.msg].gone => /\ ~cards[r.msg].gone
                                   /\ cards'[r.msg].time = cards[r.msg].time
                                   /\ cards'[r.msg].members = cards[r.msg].members
         /\ \/ cards' = CardsAfter(op)
            \/ UNCHANGED cards /\ Faulty' /\ Spent("reject")' > 0
<1>1. Busy(c)
  BY DEF Busy
<1>2. BudgetShrinks
  BY InvParts, BudgetKept
<1>3. r.msg = op.cur.msg /\ r.msg \in DOMAIN cards /\ cards[r.msg].chat = c /\ s \in DOMAIN rows
      /\ r.msg # NULL
  BY <1>1, HolderCard
<1>4. \/ cards' = CardsAfter(op)
      \/ UNCHANGED cards /\ Faulty' /\ Spent("reject")' > 0
  <2>1. Spend("reject") => Faulty' /\ Spent("reject")' > 0
    BY InvParts, SpendCounts DEF BudgetKinds
  <2> QED BY <2>1 DEF Tried, Succeeds, TakesEffect
<1>5. CardsOnly(r.msg) /\ DOMAIN cards' = DOMAIN cards
  <2>1. CASE cards' = CardsAfter(op)
    BY <1>1, <1>3, <2>1, EffectCards
  <2>2. CASE UNCHANGED cards
    BY <2>2 DEF CardsOnly
  <2> QED BY <1>4, <2>1, <2>2
<1>6. OwnMessage(c, s, r)
  BY <1>3, <1>5 DEF OwnMessage, Moved
<1>7. OnlySession(c, s, r, next)
  BY InvParts, StepIsOnly
<1>8. cards'[r.msg].chat = c
  BY <1>3, <1>5 DEF CardsOnly
<1>9. ASSUME ~cards'[r.msg].gone
      PROVE  ~cards[r.msg].gone /\ cards'[r.msg].time = cards[r.msg].time
             /\ cards'[r.msg].members = cards[r.msg].members
  <2>1. ~cards[r.msg].gone
    BY <1>3, <1>5, <1>9 DEF CardsOnly
  <2>2. CASE cards' = CardsAfter(op)
    <3>1. PICK m : m = r.msg
      OBVIOUS
    <3>2. m = op.cur.msg /\ m \in DOMAIN cards /\ ~cards[m].gone /\ op.pc # "card"
      BY <1>3, <2>1, <3>1
    <3>3. cards'[m].time = cards[m].time /\ cards'[m].members = cards[m].members
      BY <1>1, <2>2, <3>2, EffectShown
    <3> QED BY <2>1, <3>1, <3>3
  <2>3. CASE UNCHANGED cards
    BY <2>1, <2>3
  <2> QED BY <1>4, <2>2, <2>3
<1> QED BY <1>1, <1>2, <1>3, <1>4, <1>6, <1>7, <1>8, <1>9

\* The card of an active session whose pin is being changed.
LEMMA PinningTrue ==
  ASSUME JobsInv, CardsInv, BudgetShrinks, NEW c \in Chats, NEW s \in DOMAIN rows, NEW next,
         OnlySession(c, s, rows[s], next), lock[c].pc # "card", next.pc # "card",
         ~cards'[rows[s].msg].gone => /\ ~cards[rows[s].msg].gone
                                      /\ cards'[rows[s].msg].time = cards[rows[s].msg].time
                                      /\ cards'[rows[s].msg].members = cards[rows[s].msg].members
  PROVE  CardTrue(s)'
<1> SUFFICES ASSUME rows[s].status = "active", Available(rows[s].msg)',
                    Spent("lost")' = 0, Spent("crash")' = 0
             PROVE  /\ cards'[rows'[s].msg].time = Before(s)'.time
                    /\ cards'[rows'[s].msg].members \subseteq Before(s)'.members
  BY DEF CardTrue, OnlySession
<1>1. Spent("lost") = 0 /\ Spent("crash") = 0
  BY InvParts, SpentBefore, SpentKinds
<1>2. rows'[s] = rows[s] /\ lock'[c] = next /\ rows[s].chat = c
  BY DEF OnlySession
<1>3. Before(s) = rows[s] /\ Before(s)' = rows[s]
  BY <1>2 DEF Before, Reschedules
<1>4. CardTrue(s)
  BY DEF CardsInv
<1> QED BY <1>1, <1>2, <1>3, <1>4 DEF CardTrue, Available

LEMMA UnpinOldCards ==
  ASSUME JobsInv, CardsInv, TypeOK', NEW c \in Chats, UnpinOld(c)
  PROVE  CardsInv'
<1>1. PICK s, op, next :
        /\ op = lock[c] /\ op.pc = "unpinOld" /\ s = op.sid /\ Step(c, s, rows[s], next)
        /\ rows[s].status = "active" /\ next.pc = "pin" /\ next.cur = op.cur
  BY InvParts, UnpinOldShape
<1>2. PICK r : r = rows[s]
  OBVIOUS
<1>3. Tried(op) /\ s \in DOMAIN rows
  BY <1>1 DEF UnpinOld, Step
<1>4. /\ BudgetShrinks /\ OwnMessage(c, s, r) /\ OnlySession(c, s, r, next)
      /\ r.msg = op.cur.msg /\ cards'[r.msg].chat = c
      /\ ~cards'[r.msg].gone => /\ ~cards[r.msg].gone
                                /\ cards'[r.msg].time = cards[r.msg].time
                                /\ cards'[r.msg].members = cards[r.msg].members
  BY <1>1, <1>2, <1>3, TriedCards
<1>5. CardTrue(s)'
  BY <1>1, <1>2, <1>3, <1>4, PinningTrue
<1>6. PinTrue(r.msg)'
  BY <1>1, <1>4 DEF PinTrue, InHand, OnlySession
<1>7. OwnCard(c, s, r, next)
  BY <1>1, <1>2, <1>5, <1>6 DEF OwnCard
<1> QED BY <1>4, <1>7, CardsFrame

LEMMA PinCards ==
  ASSUME JobsInv, CardsInv, TypeOK', NEW c \in Chats, Pin(c)
  PROVE  CardsInv'
<1>1. PICK s, op, next :
        /\ op = lock[c] /\ op.pc = "pin" /\ s = op.sid /\ Step(c, s, rows[s], next)
        /\ rows[s].status = "active" /\ next.pc \in {"free", "announce"}
  BY InvParts, PinShape
<1>2. PICK r : r = rows[s]
  OBVIOUS
<1>3. Tried(op) /\ s \in DOMAIN rows
  BY <1>1 DEF Pin, Step
<1>4. /\ BudgetShrinks /\ OwnMessage(c, s, r) /\ OnlySession(c, s, r, next)
      /\ Busy(c) /\ r.msg = op.cur.msg /\ r.msg \in DOMAIN cards /\ cards'[r.msg].chat = c
      /\ ~cards'[r.msg].gone => /\ ~cards[r.msg].gone
                                /\ cards'[r.msg].time = cards[r.msg].time
                                /\ cards'[r.msg].members = cards[r.msg].members
      /\ cards' = CardsAfter(op) \/ Faulty'
  BY <1>1, <1>2, <1>3, TriedCards
<1>5. CardTrue(s)'
  BY <1>1, <1>2, <1>3, <1>4, PinningTrue
<1>6. PinTrue(r.msg)'
  <2>1. CASE Faulty'
    BY <2>1, FaultyPin
  <2>2. CASE cards' = CardsAfter(op)
    <3>1. ~cards'[r.msg].gone => cards'[r.msg].pinned
      BY <1>1, <1>4, <2>2, EffectShown
    <3>2. s \in OpenIn(c)' /\ rows'[s].msg = r.msg
      BY <1>1, <1>2, <1>3, <1>4 DEF OnlySession, OpenIn, OpenStatus
    <3> QED BY <1>4, <3>1, <3>2 DEF PinTrue
  <2> QED BY <1>4, <2>1, <2>2
<1>7. OwnCard(c, s, r, next)
  BY <1>1, <1>2, <1>5, <1>6 DEF OwnCard
<1> QED BY <1>4, <1>7, CardsFrame

\* The completion of a meeting takes its pin away: no open session has its card.
LEMMA CompleteUnpinCards ==
  ASSUME JobsInv, CardsInv, TypeOK', NEW c \in Chats, CompleteUnpin(c)
  PROVE  CardsInv'
<1>1. PICK s, r, op, next :
        /\ op = lock[c] /\ op.pc = "unpin" /\ s = op.sid /\ Step(c, s, r, next)
        /\ r.status = "completing" /\ r.msg = rows[s].msg
        /\ next.pc = "close" /\ next.cur = r
  BY InvParts, CompleteUnpinShape
<1>2. Tried(op)
  BY <1>1 DEF CompleteUnpin
<1>3. /\ BudgetShrinks /\ OwnMessage(c, s, r) /\ OnlySession(c, s, r, next)
      /\ Busy(c) /\ r.msg = op.cur.msg /\ r.msg \in DOMAIN cards /\ cards'[r.msg].chat = c
      /\ ~cards'[r.msg].gone => ~cards[r.msg].gone
      /\ cards' = CardsAfter(op) \/ (Faulty' /\ Spent("reject")' > 0)
  BY <1>1, <1>2, TriedCards
<1>4. rows'[s] = r
  BY <1>3 DEF OnlySession
<1>5. CardTrue(s)'
  BY <1>1, <1>4 DEF CardTrue
<1>6. cards' = CardsAfter(op) /\ ~cards'[r.msg].gone => ~cards'[r.msg].pinned
  <2>1. PICK m : m = r.msg
    OBVIOUS
  <2> QED BY <1>1, <1>3, <2>1, EffectShown
<1>7. PinTrue(r.msg)'
  <2>1. CASE Faulty'
    BY <2>1, FaultyPin
  <2>2. CASE cards' = CardsAfter(op)
    <3>1. \A t \in OpenIn(c)' : rows'[t].msg # r.msg
      <4>1. Messages' /\ s \in DOMAIN rows' /\ NULL \notin DOMAIN cards
        BY <1>3, MessagesFrame, CardsParts DEF OnlySession
      <4> QED BY <1>1, <1>3, <1>4, <4>1 DEF Messages, OpenIn, OpenStatus
    <3> QED BY <1>3, <1>6, <2>2, <3>1 DEF PinTrue
  <2> QED BY <1>3, <2>1, <2>2
<1>8. Spent("reject")' = 0 => ClosedCard(r.msg, TRUE)'
  BY <1>3, <1>6 DEF ClosedCard
<1>9. OwnCard(c, s, r, next)
  BY <1>1, <1>5, <1>7, <1>8 DEF OwnCard, ClosedCard
<1> QED BY <1>3, <1>9, CardsFrame

LEMMA CompleteCloseCards ==
  ASSUME JobsInv, CardsInv, TypeOK', NEW c \in Chats, CompleteClose(c)
  PROVE  CardsInv'
<1>1. PICK s, r, op, next :
        /\ op = lock[c] /\ op.pc = "close" /\ s = op.sid /\ Step(c, s, r, next)
        /\ r.msg = rows[s].msg /\ op.cur = rows[s] /\ rows[s].status = "completing"
        /\ \/ r.status = "completed" /\ next = NoOp
           \/ r = rows[s] /\ next.pc = "ready" /\ next.cur = op.cur
  BY InvParts, CompleteCloseShape
<1>2. Tried(op) /\ NoOp.pc = "free" /\ s \in DOMAIN rows
  BY <1>1 DEF CompleteClose, NoOp, Step
<1>3. r.status \in {"completing", "completed"}
  BY <1>1
<1>4. /\ BudgetShrinks /\ OwnMessage(c, s, r) /\ OnlySession(c, s, r, next)
      /\ Busy(c) /\ r.msg = op.cur.msg /\ r.msg \in DOMAIN cards
      /\ cards[r.msg].chat = c /\ cards'[r.msg].chat = c
      /\ ~cards'[r.msg].gone => ~cards[r.msg].gone
      /\ cards' = CardsAfter(op) \/ (Faulty' /\ Spent("reject")' > 0)
  BY <1>1, <1>2, <1>3, TriedCards
<1>5. rows'[s] = r
  BY <1>4 DEF OnlySession
<1>6. CardTrue(s)'
  BY <1>3, <1>5 DEF CardTrue
<1>7. cards' = CardsAfter(op) /\ ~cards'[r.msg].gone =>
        /\ cards'[r.msg].pinned = cards[r.msg].pinned /\ ~cards'[r.msg].buttons
  <2>1. PICK m : m = r.msg
    OBVIOUS
  <2> QED BY <1>1, <1>4, <2>1, EffectShown
<1>8. PinTrue(r.msg)'
  <2>1. PICK m : m = r.msg
    OBVIOUS
  <2>2. CASE Faulty'
    BY <2>2, FaultyPin
  <2>3. CASE cards' = CardsAfter(op)
    <3>1. (\E t \in OpenIn(c) : rows[t].msg = m) <=> \E t \in OpenIn(c)' : rows'[t].msg = m
      <4>1. r.status \in OpenStatus <=> rows[s].status \in OpenStatus
        BY <1>1, <1>3 DEF OpenStatus
      <4> QED BY <1>1, <1>2, <1>4, <4>1, OpenFrame
    <3>2. PinTrue(m) /\ ~InHand(m)
      BY <1>1, <1>4, <2>1 DEF CardsInv, InHand
    <3>3. ASSUME Spent("reject")' = 0, Spent("lost")' = 0, Spent("crash")' = 0
          PROVE  Spent("reject") = 0 /\ Spent("lost") = 0 /\ Spent("crash") = 0
      BY <1>4, <3>3, InvParts, SpentBefore, SpentKinds
    <3>4. /\ cards'[m].chat = c /\ cards[m].chat = c /\ (~cards'[m].gone => ~cards[m].gone)
          /\ ~cards'[m].gone => cards'[m].pinned = cards[m].pinned
      BY <1>4, <1>7, <2>1, <2>3
    <3>5. PinTrue(m)'
      BY <3>1, <3>2, <3>3, <3>4 DEF PinTrue
    <3> QED BY <2>1, <3>5 DEF PinTrue, InHand
  <2> QED BY <1>4, <2>2, <2>3
<1>9. Spent("reject")' = 0 => ClosedCard(r.msg, FALSE)'
  <2> SUFFICES ASSUME Spent("reject")' = 0, ~cards'[r.msg].gone
               PROVE  ~cards'[r.msg].pinned /\ ~cards'[r.msg].buttons
    BY DEF ClosedCard
  <2>1. Spent("reject") = 0
    BY <1>4, InvParts, SpentBefore, SpentKinds
  <2>2. ~cards[r.msg].pinned
    BY <1>1, <1>4, <2>1 DEF CardsInv, CompletionsClose, ClosedCard
  <2> QED BY <1>4, <1>7, <2>2
<1>10. OwnCard(c, s, r, next)
  BY <1>1, <1>2, <1>6, <1>8, <1>9 DEF OwnCard, ClosedCard
<1> QED BY <1>4, <1>10, CardsFrame

LEMMA LockStepCards ==
  ASSUME JobsInv, CardsInv, TypeOK', NEW c \in Chats, LockStep(c)
  PROVE  CardsInv'
BY StartNewCards, StartRescheduleCards, StartTapCards, StartJobCards, ShoutCards,
   CardPublishedCards, CardFailsCards, UnpinOldCards, PinCards, AnnounceCards,
   CompleteUnpinCards, CompleteCloseCards, ReadyCards DEF LockStep

-----------------------------------------------------------------------------
(* Cards in the other steps.                                               *)

\* Users, the clock and the scheduler change no card, a deletion takes one away.
LEMMA QuietCards ==
  ASSUME JobsInv, CardsInv, UNCHANGED <<rows, lock>>, BudgetShrinks,
         DOMAIN cards' = DOMAIN cards,
         \A m \in DOMAIN cards : /\ cards'[m].chat = cards[m].chat
                                 /\ cards[m].gone => cards'[m].gone
                                 /\ ~cards'[m].gone => cards'[m] = cards[m]
  PROVE  CardsInv'
<1>1. \A k \in {"reject", "lost", "crash"} : Spent(k)' = 0 => Spent(k) = 0
  BY InvParts, SpentBefore, SpentKinds
<1>2. Messages' /\ OldCardsGone'
  BY DEF CardsInv, Messages, OldCardsGone
<1>3. ASSUME NEW t \in DOMAIN rows PROVE CardTrue(t)'
  <2>1. Before(t)' = Before(t)
    BY DEF Before, Reschedules
  <2>2. CardTrue(t) /\ (rows[t].msg # NULL => rows[t].msg \in DOMAIN cards)
    BY CardsParts DEF CardsInv
  <2> QED BY <1>1, <2>1, <2>2 DEF CardTrue, Available
<1>4. ASSUME NEW m \in DOMAIN cards PROVE PinTrue(m)'
  <2>1. PinTrue(m)
    BY DEF CardsInv
  <2> QED BY <1>1, <2>1 DEF PinTrue, InHand, OpenIn
<1>5. ASSUME NEW m \in DOMAIN cards, NEW b \in BOOLEAN, ClosedCard(m, b) PROVE ClosedCard(m, b)'
  BY <1>5 DEF ClosedCard
<1>6. CompletionsClose'
  <2> SUFFICES ASSUME Spent("reject")' = 0
               PROVE  /\ \A t \in DOMAIN rows : rows[t].status = "completed" =>
                           ClosedCard(rows[t].msg, FALSE)'
                      /\ \A d \in Chats :
                           /\ lock[d].pc = "close" => ClosedCard(lock[d].cur.msg, TRUE)'
                           /\ lock[d].pc = "ready" => ClosedCard(lock[d].cur.msg, FALSE)'
    BY DEF CompletionsClose
  <2>1. CompletionsClose /\ Spent("reject") = 0
    BY <1>1 DEF CardsInv
  <2>2. ASSUME NEW t \in DOMAIN rows, rows[t].status = "completed"
        PROVE  ClosedCard(rows[t].msg, FALSE)'
    <3>1. PICK m \in DOMAIN cards : m = rows[t].msg
      BY <2>2, CardsParts DEF CardsInv, Messages
    <3>2. ClosedCard(m, FALSE)'
      BY <1>5, <2>1, <2>2, <3>1 DEF CompletionsClose
    <3> QED BY <3>1, <3>2 DEF ClosedCard
  <2>3. ASSUME NEW d \in Chats, NEW b \in BOOLEAN,
               \/ lock[d].pc = "close" /\ b = TRUE
               \/ lock[d].pc = "ready" /\ b = FALSE
        PROVE  ClosedCard(lock[d].cur.msg, b)'
    <3>1. PICK op, m : op = lock[d] /\ m = op.cur.msg
      OBVIOUS
    <3>2. m \in DOMAIN cards
      <4>1. Busy(d)
        BY <2>3 DEF Busy
      <4> QED BY <2>3, <3>1, <4>1, HolderCard
    <3>3. ClosedCard(m, b)'
      BY <1>5, <2>1, <2>3, <3>1, <3>2 DEF CompletionsClose
    <3> QED BY <3>1, <3>3 DEF ClosedCard
  <2> QED BY <2>2, <2>3
<1> QED BY <1>2, <1>3, <1>4, <1>6 DEF CardsInv

LEMMA SurroundingCards ==
  ASSUME JobsInv, CardsInv,
         \/ \E c \in Chats, u \in Users, t \in 1..Horizon : ProposeCommand(c, u, t)
         \/ \E s \in DOMAIN rows, u \in Users, a \in {"join", "leave"} : Tap(s, u, a)
         \/ \E j \in jobs : FireJob(j) \/ DiscardJob(j)
         \/ Tick
         \/ UNCHANGED vars
  PROVE  CardsInv'
<1>1. UNCHANGED <<rows, lock, cards>> /\ (UNCHANGED budget \/ Spend("command") \/ Spend("tap"))
  BY DEF ProposeCommand, Tap, FireJob, DiscardJob, Tick, vars
<1>2. BudgetShrinks
  BY <1>1, InvParts, BudgetKept DEF BudgetKinds
<1> QED BY <1>1, <1>2, QuietCards

LEMMA DeleteCardCards ==
  ASSUME JobsInv, CardsInv, NEW m \in DOMAIN cards, DeleteCard(m)
  PROVE  CardsInv'
<1>1. PICK e : e = [cards[m] EXCEPT !.gone = TRUE, !.pinned = FALSE, !.buttons = FALSE]
  OBVIOUS
<1>2. cards \in Seq(Card) /\ cards[m] \in Card
  BY InvParts, TypeFacts DEF TypeOK
<1>3. e \in Card /\ e.chat = cards[m].chat /\ e.gone
  BY <1>1, <1>2 DEF Card
<1>4. /\ cards' = [cards EXCEPT ![m] = e] /\ UNCHANGED <<rows, lock>> /\ Spend("delete")
  BY <1>1 DEF DeleteCard
<1> HIDE <1>1
<1>5. DOMAIN cards' = DOMAIN cards /\ \A k \in DOMAIN cards : cards'[k] = IF k = m THEN e ELSE cards[k]
  BY <1>2, <1>3, <1>4, SeqUpdate
<1>6. BudgetShrinks
  BY <1>4, InvParts, BudgetKept DEF BudgetKinds
<1> QED BY <1>3, <1>4, <1>5, <1>6, QuietCards

\* After a crash only what holds in spite of one is left to keep.
LEMMA CrashedCards ==
  ASSUME JobsInv, CardsInv, TypeOK', BudgetShrinks, Spent("crash")' > 0,
         DOMAIN rows' = DOMAIN rows,
         \A t \in DOMAIN rows :
           /\ rows'[t].msg = rows[t].msg /\ rows'[t].chat = rows[t].chat
           /\ rows'[t].status = rows[t].status \/ rows'[t].status \in {"expired", "failed"},
         \A c \in Chats : lock'[c].pc = "free",
         DOMAIN cards \subseteq DOMAIN cards',
         \A m \in DOMAIN cards : cards'[m].chat = cards[m].chat,
         \A t \in DOMAIN rows : \A m \in DOMAIN cards :
           rows[t].status = "completed" /\ rows[t].msg = m /\ ClosedCard(m, FALSE)
             => ClosedCard(m, FALSE)'
  PROVE  CardsInv'
<1>1. Messages'
  <2>1. Messages
    BY DEF CardsInv
  <2> QED BY <2>1 DEF Messages
<1>2. OldCardsGone'
  BY DEF OldCardsGone
<1>3. \A t \in DOMAIN rows' : CardTrue(t)'
  BY DEF CardTrue
<1>4. \A m \in DOMAIN cards' : PinTrue(m)'
  BY DEF PinTrue
<1>5. CompletionsClose'
  <2> SUFFICES ASSUME Spent("reject")' = 0, NEW t \in DOMAIN rows, rows'[t].status = "completed"
               PROVE  ClosedCard(rows[t].msg, FALSE)'
    BY DEF CompletionsClose
  <2>1. Spent("reject") = 0 /\ rows[t].status = "completed"
    BY InvParts, SpentBefore, SpentKinds
  <2>2. PICK m \in DOMAIN cards : m = rows[t].msg
    BY <2>1, CardsParts DEF CardsInv, Messages
  <2>3. ClosedCard(m, FALSE)'
    BY <2>1, <2>2 DEF CardsInv, CompletionsClose
  <2> QED BY <2>2, <2>3 DEF ClosedCard
<1> QED BY <1>1, <1>2, <1>3, <1>4, <1>5 DEF CardsInv

\* The call in flight at a crash is not about the card of a completed meeting.
LEMMA CrashCards ==
  ASSUME JobsInv, CardsInv, TypeOK', Crash
  PROVE  CardsInv'
<1>1. /\ Spend("crash") /\ UNCHANGED rows
      /\ lock' = [c \in Chats |-> NoOp]
      /\ \/ UNCHANGED cards
         \/ \E c \in Chats : Busy(c) /\ cards' = CardsAfter(lock[c])
  BY DEF Crash, TakesEffect
<1>2. BudgetShrinks /\ Spent("crash")' > 0
  BY <1>1, InvParts, BudgetKept, SpendCounts DEF BudgetKinds
<1>3. \A c \in Chats : lock'[c].pc = "free"
  BY <1>1 DEF NoOp
<1>4. CASE UNCHANGED cards
  <2>1. \A m \in DOMAIN cards : ClosedCard(m, FALSE) => ClosedCard(m, FALSE)'
    BY <1>4 DEF ClosedCard
  <2> QED BY <1>1, <1>2, <1>3, <1>4, <2>1, CrashedCards
<1>5. ASSUME NEW c \in Chats, Busy(c), cards' = CardsAfter(lock[c])
      PROVE  CardsInv'
  <2>1. PICK op, id : op = lock[c] /\ id = op.cur.msg
    OBVIOUS
  <2>2. CardsOnly(id)
    BY <1>5, <2>1, EffectCards
  <2>3. ASSUME NEW t \in DOMAIN rows, NEW m \in DOMAIN cards, rows[t].status = "completed",
               rows[t].msg = m, ClosedCard(m, FALSE)
        PROVE  ClosedCard(m, FALSE)'
    <3>1. m # id
      <4>1. op.sid \in DOMAIN rows /\ rows[op.sid].status # "completed" /\ rows[op.sid].msg = id
        BY <1>5, <2>1, HolderCard, InvParts, HolderFacts
           DEF Busy, HolderMayHave, OpenStatus
      <4>2. m # NULL
        BY CardsParts
      <4> QED BY <2>3, <4>1, <4>2 DEF CardsInv, Messages
    <3>2. cards'[m].gone \/ cards'[m] = cards[m]
      BY <2>2, <3>1 DEF CardsOnly
    <3> QED BY <2>3, <3>2 DEF ClosedCard
  <2>4. DOMAIN cards \subseteq DOMAIN cards' /\ \A m \in DOMAIN cards : cards'[m].chat = cards[m].chat
    BY <2>2 DEF CardsOnly
  <2> QED BY <1>1, <1>2, <1>3, <2>3, <2>4, CrashedCards
<1> QED BY <1>1, <1>4, <1>5

\* A restart pins the cards of active meetings again, which no completed meeting has.
LEMMA RestartCards ==
  ASSUME JobsInv, CardsInv, TypeOK', Restart
  PROVE  CardsInv'
<1>1. /\ ~up /\ UNCHANGED lock /\ (UNCHANGED budget \/ Spend("reject"))
      /\ rows' = [s \in DOMAIN rows |-> RestoredRow(rows[s])]
  BY DEF Restart
<1>2. BudgetShrinks /\ Spent("crash")' > 0
  <2>1. BudgetShrinks
    BY <1>1, InvParts, BudgetKept DEF BudgetKinds
  <2>2. Spent("crash") > 0 /\ budget["crash"] \in Nat /\ Budget["crash"] \in Nat
    BY <1>1, InvParts, BudgetAssumption DEF Counted, TypeOK, BudgetKinds
  <2> QED BY <2>1, <2>2 DEF Spent, BudgetShrinks, BudgetKinds
<1>3. \A c \in Chats : lock'[c].pc = "free"
  BY <1>1, InvParts DEF StoppedIsEmpty, Busy
<1>4. DOMAIN rows' = DOMAIN rows /\ \A t \in DOMAIN rows : rows'[t] = RestoredRow(rows[t])
  BY <1>1
<1>5. ASSUME NEW t \in DOMAIN rows
      PROVE  /\ rows'[t].msg = rows[t].msg /\ rows'[t].chat = rows[t].chat
             /\ rows'[t].status = rows[t].status \/ rows'[t].status \in {"expired", "failed"}
  <2>1. PICK r : r = rows[t]
    OBVIOUS
  <2>2. r \in Row /\ rows'[t] = RestoredRow(r)
    BY <1>4, <2>1, InvParts, TypeFacts
  <2>3. RestoredRow(r) \in {MarkTerminal(r, "expired"), MarkTerminal(r, "failed"), r}
    BY DEF RestoredRow
  <2> QED BY <2>1, <2>2, <2>3 DEF MarkTerminal, Row
<1>6. PICK S \in SUBSET {s \in DOMAIN rows : rows'[s].status = "active"} :
        cards' = [m \in DOMAIN cards |->
          [cards[m] EXCEPT !.pinned = @ \/ (Available(m) /\ \E s \in S : rows'[s].msg = m)]]
  <2> DEFINE restored == [s \in DOMAIN rows |-> RestoredRow(rows[s])]
             active == {s \in DOMAIN rows : restored[s].status = "active"}
             Pinned(S) == [m \in DOMAIN cards |->
               [cards[m] EXCEPT !.pinned = @ \/ (Available(m) /\ \E s \in S : restored[s].msg = m)]]
  <2>1. rows' = restored /\ (cards' = Pinned(active) \/ \E s \in active : cards' = Pinned(active \ {s}))
    BY DEF Restart
  <2>2. \E S \in SUBSET active : cards' = Pinned(S)
    BY <2>1
  <2>3. active = {s \in DOMAIN rows : rows'[s].status = "active"}
    BY <2>1
  <2>4. ASSUME NEW S
        PROVE  Pinned(S) = [m \in DOMAIN cards |->
                 [cards[m] EXCEPT !.pinned = @ \/ (Available(m) /\ \E s \in S : rows'[s].msg = m)]]
    BY <2>1
  <2> HIDE DEF Pinned, active
  <2> QED BY <2>2, <2>3, <2>4
<1>7. DOMAIN cards' = DOMAIN cards
  BY <1>6
<1>8. ASSUME NEW m \in DOMAIN cards
      PROVE  /\ cards'[m].chat = cards[m].chat
             /\ (\A s \in S : rows'[s].msg # m) => cards'[m] = cards[m]
  <2>1. PICK b \in BOOLEAN : b = (cards[m].pinned \/ (Available(m) /\ \E s \in S : rows'[s].msg = m))
    OBVIOUS
  <2>2. cards[m] \in Card
    BY InvParts, TypeFacts
  <2>3. cards'[m] = [cards[m] EXCEPT !.pinned = b]
    BY <1>6, <2>1
  <2>4. (\A s \in S : rows'[s].msg # m) => b = cards[m].pinned
    BY <2>1, <2>2 DEF Card
  <2> HIDE <2>1
  <2> QED BY <2>2, <2>3, <2>4 DEF Card
<1>9. ASSUME NEW t \in DOMAIN rows, NEW m \in DOMAIN cards, rows[t].status = "completed",
             rows[t].msg = m, ClosedCard(m, FALSE)
      PROVE  ClosedCard(m, FALSE)'
  <2>1. ASSUME NEW s \in S, rows'[s].msg = m PROVE FALSE
    <3>1. s \in DOMAIN rows /\ rows[s].msg = m /\ rows[s].status = "active" /\ m # NULL
      BY <1>5, <2>1, CardsParts
    <3> QED BY <1>9, <3>1 DEF CardsInv, Messages
  <2>2. cards'[m] = cards[m]
    BY <1>8, <2>1
  <2> QED BY <1>9, <2>2 DEF ClosedCard
<1> HIDE <1>6
<1> QED BY <1>2, <1>3, <1>4, <1>5, <1>7, <1>8, <1>9, CrashedCards

LEMMA CardsStep ==
  ASSUME JobsInv, CardsInv, [Next]_vars
  PROVE  CardsInv'
<1>1. TypeOK'
  BY JobsStep DEF JobsInv, IInv, Consistent
<1> QED BY <1>1, LockStepCards, SurroundingCards, DeleteCardCards, CrashCards, RestartCards
         DEF Next, SystemStep, EnvironmentStep, Idle

\* The inductive invariant: messages belong to one session each, a card shows what the row
\* says as far as it is published, a pin is that of an open session unless a call is about to
\* change it, and what a completion did to its card stays done.
THEOREM CardsInvariant == Spec => [](JobsInv /\ CardsInv)
<1>1. Init => JobsInv /\ CardsInv
  <2> SUFFICES ASSUME Init PROVE CardsInv
    BY InitJobsInv
  <2>1. DOMAIN rows = {} /\ DOMAIN cards = {} /\ \A c \in Chats : lock[c].pc = "free"
    BY DEF Init, NoOp
  <2> QED BY <2>1 DEF CardsInv, Messages, OldCardsGone, CompletionsClose
<1>2. JobsInv /\ CardsInv /\ [Next]_vars => (JobsInv /\ CardsInv)'
  BY JobsStep, CardsStep
<1> QED BY <1>1, <1>2, PTL DEF Spec

\* Between operations the card of an active meeting shows its time and nobody who is not a
\* participant, unless an answer of Telegram was lost or the bot crashed: whichever of
\* proposals, taps, countdowns and deletions interleaved, and whichever calls were refused.
THEOREM CardsNotAhead == Spec => []CardNotAhead
<1>1. JobsInv /\ CardsInv => CardNotAhead
  <2> SUFFICES ASSUME CardsInv, NEW s \in DOMAIN rows, rows[s].status = "active", Undisturbed(s),
                      Available(rows[s].msg), Spent("lost") = 0, Spent("crash") = 0
               PROVE  /\ cards[rows[s].msg].time = rows[s].time
                      /\ cards[rows[s].msg].members \subseteq rows[s].members
    BY DEF CardNotAhead
  <2>1. Before(s) = rows[s]
    BY DEF Undisturbed, Busy, Before, Reschedules
  <2>2. CardTrue(s)
    BY DEF CardsInv
  <2> QED BY <2>1, <2>2 DEF CardTrue
<1> QED BY <1>1, CardsInvariant, PTL

\* Between operations, if every call worked and the bot did not crash, the pinned cards of a
\* chat are the card of its open meeting and no other, also after a card was deleted.
THEOREM PinsFollowMeetings == Spec => []PinFollowsMeeting
<1>1. JobsInv /\ CardsInv => PinFollowsMeeting
  <2> SUFFICES ASSUME CardsInv, Spent("reject") = 0, Spent("lost") = 0, Spent("crash") = 0,
                      NEW m \in DOMAIN cards, ~Busy(cards[m].chat), ~cards[m].gone
               PROVE  cards[m].pinned <=> \E s \in OpenIn(cards[m].chat) : rows[s].msg = m
    BY DEF PinFollowsMeeting
  <2>1. PinTrue(m) /\ ~InHand(m)
    BY DEF CardsInv, InHand, Busy
  <2> QED BY <2>1 DEF PinTrue
<1> QED BY <1>1, CardsInvariant, PTL

\* A completed meeting leaves no buttons and no pin, unless Telegram refused a call: even
\* when answers were lost, the bot crashed in the middle or the completion was repeated.
THEOREM CompletedCardsAreClosed == Spec => []CompletedCardIsClosed
<1>1. JobsInv /\ CardsInv => CompletedCardIsClosed
  BY DEF CardsInv, CompletionsClose, ClosedCard, CompletedCardIsClosed
<1> QED BY <1>1, CardsInvariant, PTL

=============================================================================
