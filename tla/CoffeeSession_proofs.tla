------------------------ MODULE CoffeeSession_proofs ------------------------
(***************************************************************************)
(* Theorems about CoffeeSession, for all chats, users, bounds and budgets: *)
(* a chat has at most one open meeting and what is over stays over; the    *)
(* bot keeps what CoffeeMeeting promises: a meeting is called as often as  *)
(* its calls are accounted for, a completed one was called unless nobody   *)
(* wanted to go, and every step of the code is a step of CoffeeMeeting or  *)
(* none.                                                                   *)
(***************************************************************************)
EXTENDS CoffeeRefinement, SequenceTheorems, TLAPS

-----------------------------------------------------------------------------
(* Updating one element of a sequence, wherever the index points.          *)

LEMMA SeqUpdate ==
  ASSUME NEW S, NEW q \in Seq(S), NEW i, NEW e, i \in DOMAIN q => e \in S
  PROVE  /\ [q EXCEPT ![i] = e] \in Seq(S)
         /\ Len([q EXCEPT ![i] = e]) = Len(q)
         /\ DOMAIN [q EXCEPT ![i] = e] = DOMAIN q
         /\ \A j \in DOMAIN q : [q EXCEPT ![i] = e][j] = IF j = i THEN e ELSE q[j]
<1> DOMAIN q = 1..Len(q) /\ Len(q) \in Nat
  BY LenProperties
<1>1. CASE i \in DOMAIN q
  BY <1>1, ExceptSeq, LenProperties
<1>2. CASE i \notin DOMAIN q
  <2>1. q \in [1..Len(q) -> S]
    BY LenProperties
  <2>2. [q EXCEPT ![i] = e] = q
    BY <1>2, <2>1
  <2> QED BY <1>2, <2>2
<1> QED BY <1>1, <1>2

LEMMA SeqAppend ==
  ASSUME NEW S, NEW q \in Seq(S), NEW e \in S
  PROVE  /\ Append(q, e) \in Seq(S)
         /\ Len(Append(q, e)) = Len(q) + 1
         /\ DOMAIN Append(q, e) = 1..(Len(q) + 1)
         /\ \A j \in DOMAIN q : Append(q, e)[j] = q[j]
         /\ Append(q, e)[Len(q) + 1] = e
BY LenProperties

LEMMA SeqTail ==
  ASSUME NEW S, NEW q \in Seq(S), q # <<>>
  PROVE  /\ Head(q) \in S /\ Head(q) = q[1] /\ 1 \in DOMAIN q
         /\ Tail(q) \in Seq(S)
         /\ \A i \in DOMAIN Tail(q) : i + 1 \in DOMAIN q /\ Tail(q)[i] = q[i + 1]
<1>1. Head(q) \in S /\ Tail(q) \in Seq(S) /\ Len(Tail(q)) = Len(q) - 1
      /\ \A i \in 1..Len(Tail(q)) : Tail(q)[i] = q[i + 1]
  BY HeadTailProperties
<1>2. Len(q) \in Nat \ {0}
  BY EmptySeq
<1> QED BY <1>1, <1>2, LenProperties

-----------------------------------------------------------------------------
(* The SQL statements keep rows well formed and in their chat.             *)

LEMMA ActivatedRow ==
  ASSUME NEW r \in Row
  PROVE  /\ Activate(r) \in Row /\ Activate(r).chat = r.chat
         /\ Activate(r).status \in OpenStatus <=> r.status \in OpenStatus
         /\ Activate(r).members = r.members
BY DEF Activate, Row, Status, OpenStatus, EndStatus

LEMMA UpdatedRow ==
  ASSUME NEW r \in Row, NEW m \in Nat
  PROVE  /\ UpdateMessage(r, m) \in Row /\ UpdateMessage(r, m).chat = r.chat
         /\ UpdateMessage(r, m).status = r.status
         /\ UpdateMessage(r, m).members = r.members
BY DEF UpdateMessage, Row

LEMMA RescheduledRow ==
  ASSUME NEW r \in Row, NEW u \in Users, NEW t \in Nat
  PROVE  /\ Reschedule(r, u, t) \in Row /\ Reschedule(r, u, t).chat = r.chat
         /\ Reschedule(r, u, t).status = r.status
BY DEF Reschedule, Row, Status, OpenStatus, EndStatus, NULL

LEMMA ParticipantRow ==
  ASSUME NEW r \in Row, NEW u \in Users
  PROVE  /\ Join(r, u) \in Row /\ Join(r, u).chat = r.chat /\ Join(r, u).status = r.status
         /\ Leave(r, u) \in Row /\ Leave(r, u).chat = r.chat /\ Leave(r, u).status = r.status
BY DEF Join, Leave, Row

LEMMA CompletingRow ==
  ASSUME NEW r \in Row, NEW t \in Nat
  PROVE  /\ MarkCompleting(r, t) \in Row /\ MarkCompleting(r, t).chat = r.chat
         /\ MarkCompleting(r, t).members = r.members
         /\ r.status \in {"active", "completing"} => MarkCompleting(r, t).status = "completing"
BY DEF MarkCompleting, Row, Status, OpenStatus, EndStatus, NULL

LEMMA RetryRow ==
  ASSUME NEW r \in Row, NEW n \in Nat, NEW t \in Nat
  PROVE  /\ MarkRetry(r, n, t) \in Row /\ MarkRetry(r, n, t).chat = r.chat
         /\ MarkRetry(r, n, t).members = r.members
         /\ MarkRetry(r, n, t).status = r.status
BY DEF MarkRetry, Row

LEMMA TerminalRow ==
  ASSUME NEW r \in Row, NEW st \in EndStatus
  PROVE  /\ MarkTerminal(r, st) \in Row /\ MarkTerminal(r, st).chat = r.chat
         /\ MarkTerminal(r, st).members = r.members
         /\ MarkTerminal(r, st).status = st /\ st \notin OpenStatus
BY DEF MarkTerminal, Row, Status, OpenStatus, EndStatus, NULL

LEMMA NewRow ==
  ASSUME NEW c \in Chats, NEW u \in Users, NEW t \in Nat
  PROVE  /\ Create(c, u, t) \in Row /\ Create(c, u, t).chat = c
         /\ Create(c, u, t).status = "creating"
BY DEF Create, Row, Status, OpenStatus, EndStatus, NULL

-----------------------------------------------------------------------------
(* The scheduler only adds jobs for the session it is asked about.         *)

LEMMA JobOperations ==
  ASSUME NEW js \in SUBSET Job, NEW s \in Nat, NEW t \in Nat, NEW kind \in JobKinds,
         now \in Nat
  PROVE  /\ RemoveJob(js, kind, s) \in SUBSET Job
         /\ \A j \in RemoveJob(js, kind, s) : j \in js
         /\ AddDate(js, kind, s, t) \in SUBSET Job
         /\ \A j \in AddDate(js, kind, s, t) : j \in js \/ j.sid = s
         /\ ScheduleCountdown(js, s, t) \in SUBSET Job
         /\ \A j \in ScheduleCountdown(js, s, t) : j \in js \/ j.sid = s
         /\ ScheduleSession(js, s, t) \in SUBSET Job
         /\ \A j \in ScheduleSession(js, s, t) : j \in js \/ j.sid = s
<1>1. \A k \in JobKinds, x \in SUBSET Job :
        RemoveJob(x, k, s) \in SUBSET Job /\ \A j \in RemoveJob(x, k, s) : j \in x
  BY DEF RemoveJob
<1>2. \A k \in JobKinds, x \in SUBSET Job, n \in Nat :
        /\ AddDate(x, k, s, n) \in SUBSET Job
        /\ \A j \in AddDate(x, k, s, n) : j \in x \/ j.sid = s
  <2> SUFFICES ASSUME NEW k \in JobKinds, NEW x \in SUBSET Job, NEW n \in Nat
               PROVE  /\ AddDate(x, k, s, n) \in SUBSET Job
                      /\ \A j \in AddDate(x, k, s, n) : j \in x \/ j.sid = s
    OBVIOUS
  <2> DEFINE new == [kind |-> k, sid |-> s, at |-> n, late |-> n <= now]
  <2>1. (n <= now) \in BOOLEAN
    OBVIOUS
  <2>2. new \in Job /\ new.sid = s
    BY <2>1, Zenon DEF Job
  <2>3. AddDate(x, k, s, n) = RemoveJob(x, k, s) \cup {new}
    BY DEF AddDate
  <2> HIDE DEF new
  <2> QED BY <1>1, <2>2, <2>3
<1>3. NextCountdown(t) \in Nat
  BY DEF NextCountdown, NULL
<1>4. \A x \in SUBSET Job :
        /\ ScheduleCountdown(x, s, t) \in SUBSET Job
        /\ \A j \in ScheduleCountdown(x, s, t) : j \in x \/ j.sid = s
  BY <1>1, <1>2, <1>3 DEF ScheduleCountdown, JobKinds
<1>5. "complete" \in JobKinds
  BY DEF JobKinds
<1> DEFINE x == AddDate(js, "complete", s, t)
<1>6. x \in SUBSET Job /\ \A j \in x : j \in js \/ j.sid = s
  BY <1>2, <1>5
<1>7. /\ ScheduleSession(js, s, t) \in SUBSET Job
      /\ \A j \in ScheduleSession(js, s, t) : j \in js \/ j.sid = s
  BY <1>4, <1>6 DEF ScheduleSession
<1> QED BY <1>1, <1>2, <1>4, <1>7

-----------------------------------------------------------------------------
(* Frames: what a step has to establish once, whatever action it is.       *)

LEMMA OpFacts ==
  ASSUME NEW op \in Op \cup {NoOp}, op.pc # "free"
  PROVE  op \in Op
BY DEF NoOp

LEMMA TypeFacts ==
  ASSUME TypeOK
  PROVE  /\ Len(rows) \in Nat /\ DOMAIN rows = 1..Len(rows)
         /\ \A s \in DOMAIN rows : rows[s] \in Row
         /\ DOMAIN pings = 1..Len(pings)
         /\ DOMAIN cards = 1..Len(cards) /\ Len(cards) \in Nat
         /\ \A m \in DOMAIN cards : cards[m] \in Card
         /\ \A c \in Chats : Busy(c) => lock[c] \in Op
BY LenProperties, OpFacts DEF TypeOK, Busy

\* A step of the holder of chat c's lock, or of a coroutine that takes it, which
\* writes row r for session s and leaves the lock to op.
LEMMA LockFrame ==
  ASSUME Consistent,
         NEW c \in Chats, NEW s \in DOMAIN rows, rows[s].chat = c,
         NEW r \in Row, r.chat = c,
         r.status \in OpenStatus => rows[s].status \in OpenStatus,
         rows' = [rows EXCEPT ![s] = r],
         NEW op \in Op \cup {NoOp}, lock' = [lock EXCEPT ![c] = op],
         op.pc # "free" => op.sid = s /\ r.status \in HolderMayHave(op.pc)
  PROVE  /\ rows' \in Seq(Row) /\ lock' \in [Chats -> Op \cup {NoOp}]
         /\ Len(rows') = Len(rows) /\ DOMAIN rows' = DOMAIN rows
         /\ \A t \in DOMAIN rows : rows'[t].chat = rows[t].chat
         /\ LockProtects' /\ OneOpenPerChat'
<1> USE DEF Consistent
<1>1. /\ rows' \in Seq(Row) /\ Len(rows') = Len(rows) /\ DOMAIN rows' = DOMAIN rows
      /\ \A t \in DOMAIN rows : rows'[t] = IF t = s THEN r ELSE rows[t]
  BY SeqUpdate DEF TypeOK
<1>2. lock' \in [Chats -> Op \cup {NoOp}]
  BY DEF TypeOK
<1>3. \A t \in DOMAIN rows : rows'[t].chat = rows[t].chat
  BY <1>1
<1>4. LockProtects'
  <2> SUFFICES ASSUME NEW d \in Chats, lock'[d].pc # "free"
               PROVE  /\ lock'[d].sid \in DOMAIN rows'
                      /\ rows'[lock'[d].sid].chat = d
                      /\ rows'[lock'[d].sid].status \in HolderMayHave(lock'[d].pc)
    BY DEF LockProtects, Busy, HolderMayHave, OpenStatus
  <2>1. CASE d = c
    BY <1>1, <2>1 DEF TypeOK
  <2>2. CASE d # c
    <3>1. lock'[d] = lock[d] /\ lock[d].sid # s
      BY <2>2 DEF TypeOK, LockProtects, Busy
    <3> QED BY <1>1, <3>1 DEF LockProtects, Busy
  <2> QED BY <2>1, <2>2
<1>5. OneOpenPerChat'
  BY <1>1 DEF OneOpenPerChat, OpenStatus
<1> QED BY <1>1, <1>2, <1>3, <1>4, <1>5

\* A step that writes no row.
LEMMA SameRowsLockFrame ==
  ASSUME Consistent,
         NEW c \in Chats, NEW s \in DOMAIN rows, rows[s].chat = c, UNCHANGED rows,
         NEW op \in Op \cup {NoOp}, lock' = [lock EXCEPT ![c] = op],
         op.pc # "free" => op.sid = s /\ rows[s].status \in HolderMayHave(op.pc)
  PROVE  /\ lock' \in [Chats -> Op \cup {NoOp}]
         /\ LockProtects' /\ OneOpenPerChat'
<1>1. rows[s] \in Row
  BY TypeFacts DEF Consistent
<1>2. rows' = [rows EXCEPT ![s] = rows[s]]
  BY LenProperties DEF Consistent, TypeOK
<1> QED BY <1>1, <1>2, LockFrame

LEMMA ReferencesFrame ==
  ASSUME References,
         DOMAIN rows \subseteq DOMAIN rows',
         \A s \in DOMAIN rows : rows'[s].chat = rows[s].chat,
         Len(pings') = Len(rows'),
         \A j \in jobs' : j \in jobs \/ j.sid \in DOMAIN rows',
         \A c \in Chats : \A i \in DOMAIN queue'[c] :
           \/ \E k \in DOMAIN queue[c] : queue'[c][i] = queue[c][k]
           \/ queue'[c][i].kind = "propose"
           \/ queue'[c][i].sid \in DOMAIN rows' /\ rows'[queue'[c][i].sid].chat = c
  PROVE  References'
<1>1. \A j \in jobs' : j.sid \in DOMAIN rows'
  BY DEF References
<1>2. ASSUME NEW c \in Chats, NEW i \in DOMAIN queue'[c], queue'[c][i].kind # "propose"
      PROVE  queue'[c][i].sid \in DOMAIN rows' /\ rows'[queue'[c][i].sid].chat = c
  <2>1. CASE \E k \in DOMAIN queue[c] : queue'[c][i] = queue[c][k]
    <3>1. PICK k \in DOMAIN queue[c] : queue'[c][i] = queue[c][k]
      BY <2>1
    <3>2. queue[c][k].sid \in DOMAIN rows /\ rows[queue[c][k].sid].chat = c
      BY <1>2, <3>1 DEF References
    <3> QED BY <3>1, <3>2, Zenon
  <2> QED BY <1>2, <2>1
<1> QED BY <1>1, <1>2 DEF References

LEMMA RequestFields ==
  ASSUME NEW req \in Request
  PROVE  /\ req.kind = "propose" => req.user \in Users /\ req.time \in Nat
         /\ req.kind \in {"join", "leave"} => req.user \in Users
BY DEF Request, JobKinds

LEMMA AcquireFrame ==
  ASSUME TypeOK, NEW c \in Chats, NEW kinds, Acquire(c, kinds)
  PROVE  /\ Head(queue[c]) \in Request /\ Head(queue[c]).kind \in kinds
         /\ 1 \in DOMAIN queue[c] /\ Head(queue[c]) = queue[c][1]
         /\ queue' \in [Chats -> Seq(Request)]
         /\ \A d \in Chats : \A i \in DOMAIN queue'[d] :
              \E k \in DOMAIN queue[d] : queue'[d][i] = queue[d][k]
         /\ ~Busy(c)
<1>1. /\ queue[c] \in Seq(Request) /\ queue[c] # <<>> /\ Head(queue[c]).kind \in kinds
      /\ queue' = [queue EXCEPT ![c] = Tail(queue[c])] /\ ~Busy(c)
  BY DEF Acquire, TypeOK
<1>2. /\ Head(queue[c]) \in Request /\ Head(queue[c]) = queue[c][1] /\ 1 \in DOMAIN queue[c]
      /\ Tail(queue[c]) \in Seq(Request)
      /\ \A i \in DOMAIN Tail(queue[c]) :
           i + 1 \in DOMAIN queue[c] /\ Tail(queue[c])[i] = queue[c][i + 1]
  BY <1>1, SeqTail
<1>3. queue' \in [Chats -> Seq(Request)]
  BY <1>1, <1>2 DEF TypeOK
<1>4. ASSUME NEW d \in Chats, NEW i \in DOMAIN queue'[d]
      PROVE  \E k \in DOMAIN queue[d] : queue'[d][i] = queue[d][k]
  <2>1. CASE d = c
    BY <1>1, <1>2, <2>1 DEF TypeOK
  <2>2. CASE d # c
    BY <1>1, <2>2 DEF TypeOK
  <2> QED BY <2>1, <2>2
<1> QED BY <1>1, <1>2, <1>3, <1>4

LEMMA EnqueueFrame ==
  ASSUME TypeOK, NEW c \in Chats, NEW req \in Request, Enqueue(c, req)
  PROVE  /\ queue' \in [Chats -> Seq(Request)]
         /\ \A d \in Chats : \A i \in DOMAIN queue'[d] :
              \/ \E k \in DOMAIN queue[d] : queue'[d][i] = queue[d][k]
              \/ d = c /\ queue'[d][i] = req
<1>1. queue[c] \in Seq(Request) /\ queue' = [queue EXCEPT ![c] = Append(queue[c], req)]
  BY DEF Enqueue, TypeOK
<1>2. /\ Append(queue[c], req) \in Seq(Request)
      /\ DOMAIN Append(queue[c], req) = 1..(Len(queue[c]) + 1)
      /\ \A i \in DOMAIN queue[c] : Append(queue[c], req)[i] = queue[c][i]
      /\ Append(queue[c], req)[Len(queue[c]) + 1] = req
      /\ DOMAIN queue[c] = 1..Len(queue[c]) /\ Len(queue[c]) \in Nat
  BY <1>1, SeqAppend, LenProperties
<1>3. queue' \in [Chats -> Seq(Request)]
  BY <1>1, <1>2 DEF TypeOK
<1>4. ASSUME NEW d \in Chats, NEW i \in DOMAIN queue'[d]
      PROVE  \/ \E k \in DOMAIN queue[d] : queue'[d][i] = queue[d][k]
             \/ d = c /\ queue'[d][i] = req
  <2>1. CASE d = c
    BY <1>1, <1>2, <2>1 DEF TypeOK
  <2>2. CASE d # c
    BY <1>1, <2>2 DEF TypeOK
  <2> QED BY <2>1, <2>2
<1> QED BY <1>3, <1>4

-----------------------------------------------------------------------------
(* Calls to Telegram.                                                      *)

LEMMA PublishedFacts ==
  ASSUME TypeOK, NEW op \in Op, op.sid \in DOMAIN rows
  PROVE  Published(op) \in Seq(Card) /\ PublishedId(op) \in Nat
<1>1. cards \in Seq(Card) /\ rows[op.sid].members \in SUBSET Users
      /\ op.cur.time \in Nat /\ op.cur.chat \in Chats /\ op.cur.msg \in Nat
  BY TypeFacts DEF TypeOK, Op, Row
<1> DEFINE m == op.cur.msg
           edited == [cards[m] EXCEPT !.time = op.cur.time,
                                      !.members = rows[op.sid].members, !.buttons = TRUE]
           sent == [chat |-> op.cur.chat, time |-> op.cur.time,
                    members |-> rows[op.sid].members,
                    buttons |-> TRUE, pinned |-> FALSE, gone |-> FALSE]
<1>2. [cards EXCEPT ![m] = edited] \in Seq(Card)
  <2>1. m \in DOMAIN cards => edited \in Card
    BY <1>1, TypeFacts DEF Card
  <2> HIDE DEF edited
  <2> QED BY <1>1, <2>1, SeqUpdate
<1>3. Append(cards, sent) \in Seq(Card)
  <2>1. sent \in Card
    BY <1>1 DEF Card
  <2> HIDE DEF sent
  <2> QED BY <1>1, <2>1, SeqAppend
<1>4. Published(op) = IF Available(m) THEN [cards EXCEPT ![m] = edited]
                      ELSE Append(cards, sent)
  BY DEF Published
<1>5. PublishedId(op) \in Nat
  BY <1>1, TypeFacts DEF PublishedId
<1> HIDE DEF edited, sent
<1> QED BY <1>2, <1>3, <1>4, <1>5

LEMMA CardField ==
  ASSUME TypeOK, NEW m, NEW b \in BOOLEAN
  PROVE  /\ [cards EXCEPT ![m].pinned = b] \in Seq(Card)
         /\ [cards EXCEPT ![m].buttons = b] \in Seq(Card)
<1>1. /\ m \in DOMAIN cards => [cards[m] EXCEPT !.pinned = b] \in Card
      /\ m \in DOMAIN cards => [cards[m] EXCEPT !.buttons = b] \in Card
  BY TypeFacts DEF Card
<1>2. cards \in Seq(Card)
  BY DEF TypeOK
<1> QED BY <1>1, <1>2, SeqUpdate

LEMMA EffectFacts ==
  ASSUME TypeOK, NEW op \in Op, op.sid \in DOMAIN rows
  PROVE  /\ CardsAfter(op) \in Seq(Card)
         /\ PingsAfter(op) \in Seq(Nat) /\ Len(PingsAfter(op)) = Len(pings)
<1>1. CardsAfter(op) \in Seq(Card)
  <2>1. Available(op.cur.msg) \in BOOLEAN
    BY DEF Available
  <2>2. cards \in Seq(Card)
    BY DEF TypeOK
  <2> QED BY <2>1, <2>2, PublishedFacts, CardField DEF CardsAfter
<1>2. PingsAfter(op) \in Seq(Nat) /\ Len(PingsAfter(op)) = Len(pings)
  <2>1. pings \in Seq(Nat)
    BY DEF TypeOK
  <2>2. op.sid \in DOMAIN pings => pings[op.sid] + 1 \in Nat
    BY <2>1, ElementOfSeq, LenProperties
  <2>3. CASE PingsAfter(op) = pings
    BY <2>1, <2>3
  <2>4. CASE PingsAfter(op) # pings
    <3>1. PingsAfter(op) = [pings EXCEPT ![op.sid] = pings[op.sid] + 1]
      BY <2>4 DEF PingsAfter
    <3>2. op.sid \in DOMAIN pings
      BY <2>1, <2>4, <3>1
    <3> QED BY <2>1, <2>2, <3>1, <3>2, SeqUpdate
  <2> QED BY <2>3, <2>4
<1> QED BY <1>1, <1>2

LEMMA SpendFacts ==
  ASSUME TypeOK, NEW k \in BudgetKinds, Spend(k)
  PROVE  budget' \in [BudgetKinds -> Nat]
BY DEF TypeOK, Spend

\* However a call ends, cards, messages and budget stay well formed.
LEMMA CallFacts ==
  ASSUME TypeOK, NEW op \in Op, op.sid \in DOMAIN rows,
         Succeeds(op) \/ Fails(op) \/ Tried(op)
  PROVE  /\ cards' \in Seq(Card)
         /\ pings' \in Seq(Nat) /\ Len(pings') = Len(pings)
         /\ budget' \in [BudgetKinds -> Nat]
<1>1. "reject" \in BudgetKinds /\ "lost" \in BudgetKinds
  BY DEF BudgetKinds
<1>2. budget \in [BudgetKinds -> Nat] /\ cards \in Seq(Card) /\ pings \in Seq(Nat)
  BY DEF TypeOK
<1> QED BY <1>1, <1>2, EffectFacts, SpendFacts DEF Succeeds, Fails, Tried, TakesEffect

LEMMA OpAt ==
  ASSUME NEW op \in Op, NEW pc \in Pc
  PROVE  /\ [op EXCEPT !.pc = pc] \in Op /\ [op EXCEPT !.pc = pc].sid = op.sid
         /\ [op EXCEPT !.pc = pc].pc = pc
BY DEF Op

LEMMA OpWith ==
  ASSUME NEW op \in Op, NEW r \in Row
  PROVE  /\ [op EXCEPT !.cur = r] \in Op /\ [op EXCEPT !.cur = r].sid = op.sid
         /\ [op EXCEPT !.cur = r].pc = op.pc
BY DEF Op

\* After the card, and after the pin, an operation waits on a session that is open.
LEMMA AfterCardFacts ==
  ASSUME NEW op \in Op
  PROVE  /\ AnnounceOrEnd(op) \in Op \cup {NoOp} /\ ReplacePin(op) \in Op \cup {NoOp}
         /\ AnnounceOrEnd(op).pc # "free" =>
              AnnounceOrEnd(op).sid = op.sid /\ HolderMayHave(AnnounceOrEnd(op).pc) = OpenStatus
         /\ ReplacePin(op).pc # "free" =>
              ReplacePin(op).sid = op.sid /\ HolderMayHave(ReplacePin(op).pc) = OpenStatus
<1>1. \A pc \in {"pin", "unpinOld", "announce"} :
        /\ [op EXCEPT !.pc = pc] \in Op
        /\ [op EXCEPT !.pc = pc].sid = op.sid
        /\ HolderMayHave([op EXCEPT !.pc = pc].pc) = OpenStatus
  BY DEF Op, Pc, HolderMayHave
<1> DEFINE announced == [op EXCEPT !.pc = "announce"]
           pinned == [op EXCEPT !.pc = "pin"]
           unpinned == [op EXCEPT !.pc = "unpinOld"]
<1>2. NoOp.pc = "free"
  BY DEF NoOp
<1>3. AnnounceOrEnd(op) \in {announced, NoOp}
  BY DEF AnnounceOrEnd
<1>4. ReplacePin(op) \in {AnnounceOrEnd(op), pinned, unpinned}
  BY DEF ReplacePin
<1>5. \A next \in {announced, pinned, unpinned} :
        next \in Op /\ next.sid = op.sid /\ HolderMayHave(next.pc) = OpenStatus
  BY <1>1
<1> HIDE DEF announced, pinned, unpinned
<1> QED BY <1>2, <1>3, <1>4, <1>5

-----------------------------------------------------------------------------
(* The two shapes of a step: of a chat's lock and its session, or of neither. *)

\* What every step has to say of the variables that are not rows and locks.
Surroundings ==
  /\ jobs' \subseteq Job
  /\ queue' \in [Chats -> Seq(Request)]
  /\ cards' \in Seq(Card)
  /\ pings' \in Seq(Nat)
  /\ missed' \subseteq Nat
  /\ now' \in Nat /\ up' \in BOOLEAN
  /\ budget' \in [BudgetKinds -> Nat]

\* No coroutine joins a queue.
QueuesShrink ==
  \A d \in Chats : \A i \in DOMAIN queue'[d] :
    \E k \in DOMAIN queue[d] : queue'[d][i] = queue[d][k]

\* Chat c's lock goes to op, session s of the chat becomes r, and nothing else that
\* Consistent relates is touched.
SessionStep(c, s, r, op) ==
  /\ s \in DOMAIN rows /\ rows[s].chat = c
  /\ r \in Row /\ r.chat = c
  /\ r.status \in OpenStatus => rows[s].status \in OpenStatus
  /\ rows' = [rows EXCEPT ![s] = r]
  /\ op \in Op \cup {NoOp} /\ lock' = [lock EXCEPT ![c] = op]
  /\ op.pc # "free" => op.sid = s /\ r.status \in HolderMayHave(op.pc)
  /\ \A j \in jobs' : j \in jobs \/ j.sid = s
  /\ Len(pings') = Len(pings)
  /\ Surroundings /\ QueuesShrink

LEMMA RowStep ==
  ASSUME Consistent, NEW c \in Chats, NEW s, NEW r, NEW op, SessionStep(c, s, r, op)
  PROVE  Consistent'
<1>1. /\ rows' \in Seq(Row) /\ lock' \in [Chats -> Op \cup {NoOp}]
      /\ Len(rows') = Len(rows) /\ DOMAIN rows' = DOMAIN rows
      /\ \A t \in DOMAIN rows : rows'[t].chat = rows[t].chat
      /\ LockProtects' /\ OneOpenPerChat'
  BY LockFrame DEF SessionStep
<1>2. References /\ Len(pings) = Len(rows)
  BY DEF Consistent, References
<1>3. References'
  BY <1>1, <1>2, ReferencesFrame DEF QueuesShrink, SessionStep
<1>4. TypeOK'
  BY <1>1 DEF Surroundings, TypeOK, SessionStep
<1> QED BY <1>1, <1>3, <1>4 DEF Consistent

LEMMA QuietStep ==
  ASSUME Consistent, Surroundings, UNCHANGED <<rows, lock>>,
         Len(pings') = Len(pings),
         \A j \in jobs' : j \in jobs \/ j.sid \in DOMAIN rows,
         \A d \in Chats : \A i \in DOMAIN queue'[d] :
           \/ \E k \in DOMAIN queue[d] : queue'[d][i] = queue[d][k]
           \/ queue'[d][i].kind = "propose"
           \/ queue'[d][i].sid \in DOMAIN rows /\ rows[queue'[d][i].sid].chat = d
  PROVE  Consistent'
<1>1. References /\ Len(pings) = Len(rows)
  BY DEF Consistent, References
<1>2. References'
  BY <1>1, ReferencesFrame
<1>3. TypeOK'
  BY DEF Surroundings, TypeOK, Consistent
<1>4. LockProtects' /\ OneOpenPerChat'
  BY DEF Consistent, LockProtects, OneOpenPerChat, Busy
<1> QED BY <1>2, <1>3, <1>4 DEF Consistent

LEMMA HolderFacts ==
  ASSUME Consistent, NEW c \in Chats, lock[c].pc # "free"
  PROVE  /\ lock[c] \in Op /\ lock[c].sid \in DOMAIN rows /\ lock[c].sid \in Nat
         /\ rows[lock[c].sid] \in Row /\ rows[lock[c].sid].chat = c
         /\ rows[lock[c].sid].status \in HolderMayHave(lock[c].pc)
         /\ lock[c].cur \in Row /\ lock[c].req \in Request
         /\ lock[c].old \in Row \cup {NoRow} /\ lock[c].since \in Nat
<1>1. lock[c] \in Op
  BY TypeFacts DEF Consistent, Busy
<1>2. /\ lock[c].sid \in DOMAIN rows /\ rows[lock[c].sid].chat = c
      /\ rows[lock[c].sid].status \in HolderMayHave(lock[c].pc)
  BY DEF Consistent, LockProtects, Busy
<1>3. rows[lock[c].sid] \in Row
  BY <1>2, TypeFacts DEF Consistent
<1>4. /\ lock[c].cur \in Row /\ lock[c].req \in Request /\ lock[c].sid \in Nat
      /\ lock[c].old \in Row \cup {NoRow} /\ lock[c].since \in Nat
  BY <1>1 DEF Op
<1> QED BY <1>1, <1>2, <1>3, <1>4

\* The parts of Consistent a step starts from, and the variables most steps leave alone.
LEMMA TypeParts ==
  ASSUME Consistent
  PROVE  /\ TypeOK /\ rows \in Seq(Row) /\ jobs \in SUBSET Job
         /\ queue \in [Chats -> Seq(Request)] /\ cards \in Seq(Card)
         /\ pings \in Seq(Nat) /\ missed \subseteq Nat /\ now \in Nat /\ up \in BOOLEAN
         /\ budget \in [BudgetKinds -> Nat]
         /\ lock \in [Chats -> Op \cup {NoOp}]
         /\ \A s \in DOMAIN rows : rows = [rows EXCEPT ![s] = rows[s]]
<1>1. TypeOK /\ rows \in Seq(Row)
  BY DEF Consistent, TypeOK
<1>2. \A s \in DOMAIN rows : rows = [rows EXCEPT ![s] = rows[s]]
  BY <1>1, LenProperties
<1> QED BY <1>1, <1>2 DEF TypeOK

LEMMA SameQueues ==
  ASSUME UNCHANGED queue
  PROVE  QueuesShrink
BY DEF QueuesShrink

-----------------------------------------------------------------------------
(* The steps of a coroutine that holds a lock.                             *)

LEMMA ShoutStep ==
  ASSUME Consistent, NEW c \in Chats, Shout(c)
  PROVE  Consistent'
<1> DEFINE op == [lock[c] EXCEPT !.pc = "card"]
           s == lock[c].sid
<1>1. lock[c].pc = "shout" /\ lock' = [lock EXCEPT ![c] = op]
      /\ UNCHANGED <<rows, jobs, queue, cards, pings, missed, now, up, budget>>
  BY DEF Shout, Hold
<1>2. op \in Op /\ op.sid = s /\ op.pc = "card"
  BY <1>1, HolderFacts, OpAt DEF Pc
<1>3. rows[s].status \in HolderMayHave(op.pc)
  BY <1>1, <1>2, HolderFacts DEF HolderMayHave
<1>4. Surroundings /\ QueuesShrink
  BY <1>1, TypeParts, SameQueues DEF Surroundings
<1>5. rows' = [rows EXCEPT ![s] = rows[s]]
  BY <1>1, HolderFacts, TypeParts
<1> HIDE DEF op
<1>6. SessionStep(c, s, rows[s], op)
  BY <1>1, <1>2, <1>3, <1>4, <1>5, HolderFacts DEF SessionStep
<1> QED BY <1>6, RowStep

LEMMA AnnounceStep ==
  ASSUME Consistent, NEW c \in Chats, Announce(c)
  PROVE  Consistent'
<1> DEFINE s == lock[c].sid
<1>1. lock[c].pc = "announce" /\ lock' = [lock EXCEPT ![c] = NoOp]
      /\ UNCHANGED <<rows, jobs, queue, cards, pings, missed, now, up, budget>>
  BY DEF Announce, Hold, Release
<1>2. NoOp.pc = "free"
  BY DEF NoOp
<1>3. Surroundings /\ QueuesShrink
  BY <1>1, TypeParts, SameQueues DEF Surroundings
<1>4. rows' = [rows EXCEPT ![s] = rows[s]]
  BY <1>1, HolderFacts, TypeParts
<1>5. SessionStep(c, s, rows[s], NoOp)
  BY <1>1, <1>2, <1>3, <1>4, HolderFacts DEF SessionStep
<1> QED BY <1>5, RowStep

LEMMA CardPublishedStep ==
  ASSUME Consistent, NEW c \in Chats, CardPublished(c)
  PROVE  Consistent'
<1> DEFINE op == lock[c]
           s == op.sid
           saved == UpdateMessage(rows[s], PublishedId(op))
           row == IF op.req.kind \in {"propose", "recover"} THEN Activate(saved) ELSE saved
           next == ReplacePin([op EXCEPT !.cur = row])
<1>1. /\ op.pc = "card" /\ Succeeds(op)
      /\ rows' = [rows EXCEPT ![s] = row] /\ lock' = [lock EXCEPT ![c] = next]
      /\ UNCHANGED <<queue, now, up>>
      /\ \/ jobs' = ScheduleSession(jobs, s, row.time) /\ missed' = missed \ {s}
         \/ UNCHANGED <<jobs, missed>>
  BY DEF CardPublished, Hold
<1>2. op \in Op /\ s \in DOMAIN rows /\ s \in Nat /\ rows[s] \in Row /\ rows[s].chat = c
      /\ rows[s].status \in HolderMayHave(op.pc)
  BY <1>1, HolderFacts
<1>3. rows[s].status \in OpenStatus
  BY <1>1, <1>2 DEF HolderMayHave
<1>4. PublishedId(op) \in Nat
  BY <1>2, PublishedFacts, TypeParts
<1>5. saved \in Row /\ saved.chat = c /\ saved.status = rows[s].status
  BY <1>2, <1>4, UpdatedRow
<1>6. Activate(saved) \in Row /\ Activate(saved).chat = c
      /\ (saved.status \in OpenStatus => Activate(saved).status \in OpenStatus)
  BY <1>5, ActivatedRow
<1>7. row \in Row /\ row.chat = c /\ row.status \in OpenStatus
  BY <1>3, <1>5, <1>6
<1> HIDE DEF row
<1>8. [op EXCEPT !.cur = row] \in Op /\ [op EXCEPT !.cur = row].sid = s
  BY <1>2, <1>7, OpWith
<1>9. next \in Op \cup {NoOp}
      /\ (next.pc # "free" => next.sid = s /\ HolderMayHave(next.pc) = OpenStatus)
  BY <1>8, AfterCardFacts
<1>10. row.time \in Nat
  BY <1>7 DEF Row
<1>11. /\ jobs' \subseteq Job /\ missed' \subseteq Nat
       /\ \A j \in jobs' : j \in jobs \/ j.sid = s
  BY <1>1, <1>2, <1>10, JobOperations, TypeParts DEF JobKinds
<1>12. cards' \in Seq(Card) /\ pings' \in Seq(Nat) /\ Len(pings') = Len(pings)
       /\ budget' \in [BudgetKinds -> Nat]
  BY <1>1, <1>2, CallFacts, TypeParts
<1>13. Surroundings /\ QueuesShrink
  BY <1>1, <1>11, <1>12, TypeParts, SameQueues DEF Surroundings
<1> HIDE DEF next, op, s
<1>14. SessionStep(c, s, row, next)
  BY <1>1, <1>2, <1>3, <1>7, <1>9, <1>11, <1>12, <1>13 DEF SessionStep
<1> QED BY <1>14, RowStep

LEMMA CardFailsStep ==
  ASSUME Consistent, NEW c \in Chats, CardFails(c)
  PROVE  Consistent'
<1> DEFINE op == lock[c]
           s == op.sid
           row == Compensated(op, rows[s])
<1>1. /\ op.pc = "card" /\ Fails(op)
      /\ rows' = [rows EXCEPT ![s] = row] /\ lock' = [lock EXCEPT ![c] = NoOp]
      /\ UNCHANGED <<jobs, queue, missed, now, up>>
  BY DEF CardFails, Release, Hold
<1>2. op \in Op /\ s \in DOMAIN rows /\ rows[s] \in Row /\ rows[s].chat = c
      /\ rows[s].status \in HolderMayHave(op.pc)
      /\ op.req \in Request /\ op.old \in Row \cup {NoRow}
  BY <1>1, HolderFacts
<1>3. rows[s].status \in OpenStatus
  BY <1>1, <1>2 DEF HolderMayHave
<1>4. row \in Row /\ row.chat = c
  <2>1. CASE op.req.kind = "recover" \/ op.old = NoRow
    BY <1>2, <2>1, TerminalRow DEF Compensated, EndStatus
  <2>2. CASE op.req.kind = "propose" /\ op.old # NoRow
    <3> DEFINE back == Reschedule(rows[s], op.old.proposer, op.old.time)
    <3>1. op.old.proposer \in Users /\ op.old.time \in Nat
      BY <1>2, <2>2 DEF Row
    <3>2. op.req.user \in Users
      BY <1>2, <2>2, RequestFields
    <3>3. back \in Row /\ back.chat = c
      BY <1>2, <3>1, RescheduledRow
    <3>4. Leave(back, op.req.user) \in Row /\ Leave(back, op.req.user).chat = c
      BY <3>2, <3>3, ParticipantRow
    <3>5. row \in {back, Leave(back, op.req.user)}
      BY <2>2 DEF Compensated
    <3> QED BY <3>3, <3>4, <3>5
  <2>3. CASE op.req.kind \in {"join", "leave"} /\ op.old # NoRow
    <3>1. op.req.user \in Users
      BY <1>2, <2>3, RequestFields
    <3>2. row \in {Join(rows[s], op.req.user), Leave(rows[s], op.req.user)}
      BY <2>3 DEF Compensated
    <3> QED BY <1>2, <3>1, <3>2, ParticipantRow
  <2>4. CASE op.req.kind \notin {"recover", "propose", "join", "leave"} /\ op.old # NoRow
    BY <1>2, <2>4 DEF Compensated
  <2> QED BY <2>1, <2>2, <2>3, <2>4
<1>5. cards' \in Seq(Card) /\ pings' \in Seq(Nat) /\ Len(pings') = Len(pings)
      /\ budget' \in [BudgetKinds -> Nat]
  BY <1>1, <1>2, CallFacts, TypeParts
<1>6. Surroundings /\ QueuesShrink
  BY <1>1, <1>5, TypeParts, SameQueues DEF Surroundings
<1>7. NoOp.pc = "free"
  BY DEF NoOp
<1> HIDE DEF row, op, s
<1>8. SessionStep(c, s, row, NoOp)
  BY <1>1, <1>2, <1>3, <1>4, <1>5, <1>6, <1>7 DEF SessionStep
<1> QED BY <1>8, RowStep

\* The calls that change neither the rows nor the jobs.
LEMMA UnpinOldStep ==
  ASSUME Consistent, NEW c \in Chats, UnpinOld(c)
  PROVE  Consistent'
<1> DEFINE op == [lock[c] EXCEPT !.pc = "pin"]
           s == lock[c].sid
<1>1. /\ lock[c].pc = "unpinOld" /\ Tried(lock[c]) /\ lock' = [lock EXCEPT ![c] = op]
      /\ UNCHANGED <<rows, jobs, queue, missed, now, up>>
  BY DEF UnpinOld, Hold
<1>2. /\ op \in Op /\ op.sid = s /\ op.pc = "pin"
      /\ s \in DOMAIN rows /\ rows[s] \in Row /\ rows[s].chat = c /\ lock[c] \in Op
  BY <1>1, HolderFacts, OpAt DEF Pc
<1>3. rows[s].status \in HolderMayHave(op.pc)
  BY <1>1, <1>2, HolderFacts DEF HolderMayHave
<1>4. /\ cards' \in Seq(Card) /\ pings' \in Seq(Nat) /\ Len(pings') = Len(pings)
      /\ budget' \in [BudgetKinds -> Nat]
  BY <1>1, <1>2, CallFacts, TypeParts
<1>5. Surroundings /\ QueuesShrink
  BY <1>1, <1>4, TypeParts, SameQueues DEF Surroundings
<1>6. rows' = [rows EXCEPT ![s] = rows[s]]
  BY <1>1, <1>2, TypeParts
<1> HIDE DEF op, s
<1>7. SessionStep(c, s, rows[s], op)
  BY <1>1, <1>2, <1>3, <1>4, <1>5, <1>6 DEF SessionStep
<1> QED BY <1>7, RowStep

LEMMA PinStep ==
  ASSUME Consistent, NEW c \in Chats, Pin(c)
  PROVE  Consistent'
<1> DEFINE op == lock[c]
           s == op.sid
           next == IF op.req.kind = "recover" THEN NoOp ELSE AnnounceOrEnd(op)
<1>1. /\ op.pc = "pin" /\ Tried(op) /\ lock' = [lock EXCEPT ![c] = next]
      /\ \/ jobs' = ScheduleSession(jobs, s, op.cur.time) /\ missed' = missed \ {s}
         \/ UNCHANGED <<jobs, missed>>
      /\ UNCHANGED <<rows, queue, now, up>>
  BY DEF Pin, Hold, Release
<1>2. /\ op \in Op /\ s \in DOMAIN rows /\ s \in Nat /\ rows[s] \in Row /\ rows[s].chat = c
      /\ rows[s].status \in HolderMayHave(op.pc) /\ op.cur.time \in Nat
  BY <1>1, HolderFacts DEF Row
<1>3. rows[s].status \in OpenStatus
  BY <1>1, <1>2 DEF HolderMayHave
<1>4. NoOp.pc = "free"
  BY DEF NoOp
<1>5. next \in Op \cup {NoOp}
      /\ (next.pc # "free" => next.sid = s /\ rows[s].status \in HolderMayHave(next.pc))
  BY <1>2, <1>3, <1>4, AfterCardFacts
<1>6. /\ cards' \in Seq(Card) /\ pings' \in Seq(Nat) /\ Len(pings') = Len(pings)
      /\ budget' \in [BudgetKinds -> Nat]
  BY <1>1, <1>2, CallFacts, TypeParts
<1>7. /\ jobs' \subseteq Job /\ missed' \subseteq Nat
      /\ \A j \in jobs' : j \in jobs \/ j.sid = s
  BY <1>1, <1>2, JobOperations, TypeParts DEF JobKinds
<1>8. Surroundings /\ QueuesShrink
  BY <1>1, <1>6, <1>7, TypeParts, SameQueues DEF Surroundings
<1>9. rows' = [rows EXCEPT ![s] = rows[s]]
  BY <1>1, <1>2, TypeParts
<1> HIDE DEF next, op, s
<1>10. SessionStep(c, s, rows[s], next)
  BY <1>1, <1>2, <1>5, <1>6, <1>7, <1>8, <1>9 DEF SessionStep
<1> QED BY <1>10, RowStep

LEMMA CompleteUnpinStep ==
  ASSUME Consistent, NEW c \in Chats, CompleteUnpin(c)
  PROVE  Consistent'
<1> DEFINE op == lock[c]
           s == op.sid
           until == op.cur.time + RETRY_DELAYS[3]
           row == IF op.cur.status = "active" THEN MarkCompleting(rows[s], until) ELSE rows[s]
           next == [op EXCEPT !.pc = "close", !.cur = row]
<1>1. /\ op.pc = "unpin" /\ Tried(op)
      /\ rows' = [rows EXCEPT ![s] = row] /\ lock' = [lock EXCEPT ![c] = next]
      /\ UNCHANGED <<jobs, queue, missed, now, up>>
  BY DEF CompleteUnpin, Hold
<1>2. /\ op \in Op /\ s \in DOMAIN rows /\ rows[s] \in Row /\ rows[s].chat = c
      /\ rows[s].status \in HolderMayHave(op.pc) /\ op.cur.time \in Nat
  BY <1>1, HolderFacts DEF Row
<1>3. rows[s].status \in {"active", "completing"}
  BY <1>1, <1>2 DEF HolderMayHave
<1>4. until \in Nat
  BY <1>2 DEF RETRY_DELAYS
<1> HIDE DEF until
<1>5. /\ MarkCompleting(rows[s], until) \in Row
      /\ MarkCompleting(rows[s], until).chat = c
      /\ MarkCompleting(rows[s], until).status = "completing"
  BY <1>2, <1>3, <1>4, CompletingRow
<1>6. /\ row \in Row /\ row.chat = c /\ row.status \in {"active", "completing"}
      /\ row.status \in OpenStatus => rows[s].status \in OpenStatus
  BY <1>2, <1>3, <1>5 DEF OpenStatus
<1> HIDE DEF row
<1>7. next \in Op /\ next.sid = s /\ next.pc = "close"
  BY <1>2, <1>6 DEF Op, Pc
<1>8. row.status \in HolderMayHave(next.pc)
  BY <1>6, <1>7 DEF HolderMayHave
<1>9. /\ cards' \in Seq(Card) /\ pings' \in Seq(Nat) /\ Len(pings') = Len(pings)
      /\ budget' \in [BudgetKinds -> Nat]
  BY <1>1, <1>2, CallFacts, TypeParts
<1>10. Surroundings /\ QueuesShrink
  BY <1>1, <1>9, TypeParts, SameQueues DEF Surroundings
<1> HIDE DEF next, op, s
<1>11. SessionStep(c, s, row, next)
  BY <1>1, <1>2, <1>6, <1>7, <1>8, <1>9, <1>10 DEF SessionStep
<1> QED BY <1>11, RowStep

LEMMA CompleteCloseStep ==
  ASSUME Consistent, NEW c \in Chats, CompleteClose(c)
  PROVE  Consistent'
<1> DEFINE op == lock[c]
           s == op.sid
           row == IF op.cur.members = {} THEN MarkTerminal(rows[s], "completed") ELSE rows[s]
           ready == [op EXCEPT !.pc = "ready"]
           next == IF op.cur.members = {} THEN NoOp ELSE ready
<1>1. op.pc = "close" /\ Tried(op) /\ UNCHANGED <<jobs, queue, missed, now, up>>
  BY DEF CompleteClose
<1>2. /\ op \in Op /\ s \in DOMAIN rows /\ rows[s] \in Row /\ rows[s].chat = c
      /\ rows[s].status \in HolderMayHave(op.pc)
  BY <1>1, HolderFacts
<1>3. rows' = [rows EXCEPT ![s] = row] /\ lock' = [lock EXCEPT ![c] = next]
  BY <1>2, TypeParts DEF CompleteClose, Hold, Release
<1>4. NoOp.pc = "free" /\ ready \in Op /\ ready.sid = s /\ ready.pc = "ready"
  BY <1>2, OpAt DEF NoOp, Pc
<1>5. HolderMayHave(op.pc) = HolderMayHave("ready")
  BY <1>1 DEF HolderMayHave
<1>6. /\ row \in Row /\ row.chat = c
      /\ row.status \in OpenStatus => rows[s].status \in OpenStatus
      /\ next.pc # "free" => next.sid = s /\ row.status \in HolderMayHave(next.pc)
      /\ next \in Op \cup {NoOp}
  <2> HIDE DEF ready
  <2>1. CASE op.cur.members = {}
    BY <1>2, <1>4, <2>1, TerminalRow DEF EndStatus
  <2>2. CASE op.cur.members # {}
    BY <1>2, <1>4, <1>5, <2>2
  <2> QED BY <2>1, <2>2
<1>7. /\ cards' \in Seq(Card) /\ pings' \in Seq(Nat) /\ Len(pings') = Len(pings)
      /\ budget' \in [BudgetKinds -> Nat]
  BY <1>1, <1>2, CallFacts, TypeParts
<1>8. Surroundings /\ QueuesShrink
  BY <1>1, <1>7, TypeParts, SameQueues DEF Surroundings
<1> HIDE DEF next, row, op, s
<1>9. SessionStep(c, s, row, next)
  BY <1>1, <1>2, <1>3, <1>6, <1>7, <1>8 DEF SessionStep
<1> QED BY <1>9, RowStep

LEMMA ReadySentStep ==
  ASSUME Consistent, NEW c \in Chats, ReadySent(c)
  PROVE  Consistent'
<1> DEFINE op == lock[c]
           s == op.sid
           row == MarkTerminal(rows[s], "completed")
<1>1. /\ op.pc = "ready" /\ Succeeds(op)
      /\ rows' = [rows EXCEPT ![s] = row] /\ lock' = [lock EXCEPT ![c] = NoOp]
      /\ UNCHANGED <<jobs, queue, missed, now, up>>
  BY DEF ReadySent, Hold, Release
<1>2. op \in Op /\ s \in DOMAIN rows /\ rows[s] \in Row /\ rows[s].chat = c
  BY <1>1, HolderFacts
<1>3. /\ row \in Row /\ row.chat = c /\ row.status \notin OpenStatus /\ NoOp.pc = "free"
  BY <1>2, TerminalRow DEF EndStatus, NoOp
<1>4. /\ cards' \in Seq(Card) /\ pings' \in Seq(Nat) /\ Len(pings') = Len(pings)
      /\ budget' \in [BudgetKinds -> Nat]
  BY <1>1, <1>2, CallFacts, TypeParts
<1>5. Surroundings /\ QueuesShrink
  BY <1>1, <1>4, TypeParts, SameQueues DEF Surroundings
<1> HIDE DEF row, op, s
<1>6. SessionStep(c, s, row, NoOp)
  BY <1>1, <1>2, <1>3, <1>4, <1>5 DEF SessionStep
<1> QED BY <1>6, RowStep

LEMMA ReadyFailsStep ==
  ASSUME Consistent, NEW c \in Chats, ReadyFails(c)
  PROVE  Consistent'
<1> DEFINE op == lock[c]
           s == op.sid
           attempts == op.cur.attempts + 1
           next == Latest(op.cur.time + RETRY_DELAYS[attempts], op.since)
           row == IF attempts > Len(RETRY_DELAYS) THEN MarkTerminal(rows[s], "failed")
                  ELSE MarkRetry(rows[s], attempts, next)
<1>1. /\ op.pc = "ready" /\ Fails(op)
      /\ rows' = [rows EXCEPT ![s] = row] /\ lock' = [lock EXCEPT ![c] = NoOp]
      /\ UNCHANGED <<queue, now, up>>
      /\ \/ UNCHANGED <<jobs, missed>>
         \/ /\ ~(attempts > Len(RETRY_DELAYS))
            /\ jobs' = AddDate(jobs, "complete", s, next)
            /\ missed' = missed \ {s}
  BY DEF ReadyFails, Hold, Release
<1>2. /\ op \in Op /\ s \in DOMAIN rows /\ s \in Nat /\ rows[s] \in Row /\ rows[s].chat = c
      /\ op.cur \in Row /\ op.since \in Nat
  BY <1>1, HolderFacts
<1>3. attempts \in Nat /\ attempts > 0 /\ op.cur.time \in Nat
  BY <1>2 DEF Row
<1>4. ~(attempts > Len(RETRY_DELAYS)) => next \in Nat
  <2>1. Len(RETRY_DELAYS) = 3 /\ \A i \in 1..3 : RETRY_DELAYS[i] \in Nat
    BY DEF RETRY_DELAYS
  <2> QED BY <1>2, <1>3, <2>1 DEF Latest
<1> HIDE DEF attempts, next
<1>5. /\ row \in Row /\ row.chat = c
      /\ row.status \in OpenStatus => rows[s].status \in OpenStatus
  <2>1. CASE attempts > Len(RETRY_DELAYS)
    BY <1>2, <2>1, TerminalRow DEF EndStatus
  <2>2. CASE ~(attempts > Len(RETRY_DELAYS))
    <3>1. next \in Nat
      BY <1>4, <2>2
    <3>2. row = MarkRetry(rows[s], attempts, next)
      BY <2>2
    <3>3. /\ MarkRetry(rows[s], attempts, next) \in Row
          /\ MarkRetry(rows[s], attempts, next).chat = c
          /\ MarkRetry(rows[s], attempts, next).status = rows[s].status
      <4>1. rows[s] \in Row /\ rows[s].chat = c /\ attempts \in Nat
        BY <1>2, <1>3
      <4> HIDE DEF s, op, row
      <4> QED BY <4>1, <3>1, RetryRow
    <3> HIDE DEF row
    <3> QED BY <3>2, <3>3, Zenon
  <2> HIDE DEF row
  <2> QED BY <2>1, <2>2
<1>6. /\ jobs' \subseteq Job /\ missed' \subseteq Nat
      /\ \A j \in jobs' : j \in jobs \/ j.sid = s
  <2>1. CASE UNCHANGED <<jobs, missed>>
    BY <2>1, TypeParts
  <2>2. CASE /\ ~(attempts > Len(RETRY_DELAYS))
             /\ jobs' = AddDate(jobs, "complete", s, next)
             /\ missed' = missed \ {s}
    <3>1. next \in Nat /\ s \in Nat /\ "complete" \in JobKinds
      BY <1>2, <1>4, <2>2 DEF JobKinds
    <3> HIDE DEF s, row
    <3> QED BY <2>2, <3>1, JobOperations, TypeParts
  <2> QED BY <1>1, <2>1, <2>2
<1>7. /\ cards' \in Seq(Card) /\ pings' \in Seq(Nat) /\ Len(pings') = Len(pings)
      /\ budget' \in [BudgetKinds -> Nat]
  BY <1>1, <1>2, CallFacts, TypeParts
<1>8. Surroundings /\ QueuesShrink
  BY <1>1, <1>6, <1>7, TypeParts, SameQueues DEF Surroundings
<1>9. NoOp.pc = "free"
  BY DEF NoOp
<1> HIDE DEF row, op, s
<1>10. SessionStep(c, s, row, NoOp)
  BY <1>1, <1>2, <1>5, <1>6, <1>7, <1>8, <1>9 DEF SessionStep
<1> QED BY <1>10, RowStep

-----------------------------------------------------------------------------
(* The steps that take a free lock.                                        *)

\* The session of a queued request that is not a proposal.
LEMMA QueuedSession ==
  ASSUME Consistent, NEW c \in Chats, NEW kinds, Acquire(c, kinds), "propose" \notin kinds
  PROVE  LET s == Head(queue[c]).sid
         IN  /\ s \in DOMAIN rows /\ s \in Nat
             /\ rows[s] \in Row /\ rows[s].chat = c
             /\ rows = [rows EXCEPT ![s] = rows[s]]
<1>1. /\ Head(queue[c]).kind \in kinds /\ Head(queue[c]) = queue[c][1]
      /\ 1 \in DOMAIN queue[c]
  BY AcquireFrame, TypeParts
<1>2. Head(queue[c]).sid \in DOMAIN rows /\ rows[Head(queue[c]).sid].chat = c
  BY <1>1 DEF Consistent, References
<1> QED BY <1>2, TypeParts, TypeFacts

LEMMA NewOp ==
  ASSUME NEW req \in Request, NEW s \in Nat, NEW pc \in Pc,
         NEW old \in Row \cup {NoRow}, NEW cur \in Row, now \in Nat
  PROVE  /\ StartedOp(req, s, pc, old, cur) \in Op
         /\ StartedOp(req, s, pc, old, cur).sid = s
         /\ StartedOp(req, s, pc, old, cur).pc = pc
BY Zenon DEF StartedOp, Op

LEMMA StartRescheduleStep ==
  ASSUME Consistent, NEW c \in Chats, StartReschedule(c)
  PROVE  Consistent'
<1> DEFINE req == Head(queue[c])
<1>1. PICK s \in OpenIn(c) :
        /\ rows' = [rows EXCEPT ![s] = Reschedule(rows[s], req.user, req.time)]
        /\ lock' = [lock EXCEPT ![c] =
             StartedOp(req, s, "card", rows[s], Reschedule(rows[s], req.user, req.time))]
  BY DEF StartReschedule, Hold
<1> DEFINE row == Reschedule(rows[s], req.user, req.time)
           op == StartedOp(req, s, "card", rows[s], row)
<1>2. Acquire(c, {"propose"}) /\ UNCHANGED <<jobs, cards, pings, missed, now, up, budget>>
  BY DEF StartReschedule
<1>3. s \in DOMAIN rows /\ rows[s].chat = c /\ rows[s].status \in OpenStatus
  BY DEF OpenIn
<1>4. rows[s] \in Row /\ s \in Nat
  BY <1>3, TypeFacts DEF Consistent
<1>5. req \in Request /\ req.user \in Users /\ req.time \in Nat
  <2>1. req \in Request /\ req.kind = "propose"
    BY <1>2, AcquireFrame, TypeParts
  <2> HIDE DEF req
  <2> QED BY <2>1, RequestFields
<1>6. row \in Row /\ row.chat = c /\ row.status \in OpenStatus
  BY <1>3, <1>4, <1>5, RescheduledRow
<1> HIDE DEF row, req
<1> "card" \in Pc /\ now \in Nat /\ rows[s] \in Row \cup {NoRow}
  BY <1>4, TypeParts DEF Pc
<1>7. op \in Op /\ op.sid = s /\ op.pc = "card"
  BY <1>4, <1>5, <1>6, NewOp
<1>8. row.status \in HolderMayHave(op.pc)
  BY <1>6, <1>7 DEF HolderMayHave
<1>9. Surroundings /\ QueuesShrink
  BY <1>2, AcquireFrame, TypeParts DEF Surroundings, QueuesShrink
<1>10. rows' = [rows EXCEPT ![s] = row] /\ lock' = [lock EXCEPT ![c] = op]
  BY <1>1 DEF row, req
<1> HIDE DEF op
<1>11. SessionStep(c, s, row, op)
  BY <1>2, <1>3, <1>6, <1>7, <1>8, <1>9, <1>10 DEF SessionStep
<1> QED BY <1>11, RowStep

LEMMA StartTapStep ==
  ASSUME Consistent, NEW c \in Chats, StartTap(c)
  PROVE  Consistent'
<1> DEFINE req == Head(queue[c])
           s == req.sid
           row == IF req.kind = "join" THEN Join(rows[s], req.user) ELSE Leave(rows[s], req.user)
           op == StartedOp(req, s, "card", rows[s], rows[s])
<1>1. /\ Acquire(c, {"join", "leave"}) /\ UNCHANGED <<jobs, cards, pings, missed, now, up, budget>>
      /\ \/ /\ rows[s].status = "active"
            /\ rows' = [rows EXCEPT ![s] = row] /\ lock' = [lock EXCEPT ![c] = op]
         \/ UNCHANGED <<rows, lock>>
  BY DEF StartTap, Hold
<1>2. /\ s \in DOMAIN rows /\ s \in Nat /\ rows[s] \in Row /\ rows[s].chat = c
  BY <1>1, QueuedSession
<1>3. req \in Request /\ req.user \in Users
  <2>1. req \in Request /\ req.kind \in {"join", "leave"}
    BY <1>1, AcquireFrame, TypeParts
  <2> HIDE DEF req
  <2> QED BY <2>1, RequestFields
<1>4. Surroundings /\ QueuesShrink
  BY <1>1, AcquireFrame, TypeParts DEF Surroundings, QueuesShrink
<1>5. CASE UNCHANGED <<rows, lock>>
  BY <1>1, <1>4, <1>5, QuietStep DEF QueuesShrink
<1>6. CASE /\ rows[s].status = "active"
           /\ rows' = [rows EXCEPT ![s] = row] /\ lock' = [lock EXCEPT ![c] = op]
  <2>1. row \in Row /\ row.chat = c /\ row.status = "active"
    BY <1>2, <1>3, <1>6, ParticipantRow
  <2> HIDE DEF s, req, row
  <2> "card" \in Pc /\ now \in Nat /\ rows[s] \in Row \cup {NoRow}
    BY <1>2, TypeParts DEF Pc
  <2>2. op \in Op /\ op.sid = s /\ op.pc = "card"
    BY <1>2, <1>3, NewOp
  <2>3. row.status \in HolderMayHave(op.pc) /\ rows[s].status \in OpenStatus
    BY <1>6, <2>1, <2>2 DEF HolderMayHave, OpenStatus
  <2> HIDE DEF op
  <2>4. SessionStep(c, s, row, op)
    BY <1>1, <1>2, <1>4, <1>6, <2>1, <2>2, <2>3 DEF SessionStep
  <2> QED BY <2>4, RowStep
<1> QED BY <1>1, <1>5, <1>6

LEMMA StartRefreshStep ==
  ASSUME Consistent, NEW c \in Chats, StartRefresh(c)
  PROVE  Consistent'
<1> DEFINE req == Head(queue[c])
           s == req.sid
           op == StartedOp(req, s, "card", rows[s], rows[s])
<1>1. /\ Acquire(c, {"refresh"}) /\ UNCHANGED <<rows, cards, pings, missed, now, up, budget>>
      /\ \/ jobs' = ScheduleCountdown(jobs, s, rows[s].time)
         \/ jobs' = RemoveJob(jobs, "refresh", s)
      /\ \/ rows[s].status \in {"active"} /\ lock' = [lock EXCEPT ![c] = op]
         \/ UNCHANGED lock
  BY DEF StartRefresh, Hold
<1>2. /\ s \in DOMAIN rows /\ s \in Nat /\ rows[s] \in Row /\ rows[s].chat = c
      /\ rows = [rows EXCEPT ![s] = rows[s]]
  BY <1>1, QueuedSession
<1>3. req \in Request /\ rows[s].time \in Nat
  BY <1>1, <1>2, AcquireFrame, TypeParts DEF Row
<1> HIDE DEF s, req
<1>4. jobs' \in SUBSET Job /\ \A j \in jobs' : j \in jobs \/ j.sid = s
  BY <1>1, <1>2, <1>3, JobOperations, TypeParts DEF JobKinds
<1>5. Surroundings /\ QueuesShrink
  BY <1>1, <1>4, AcquireFrame, TypeParts DEF Surroundings, QueuesShrink
<1>6. CASE UNCHANGED lock
  <2>1. UNCHANGED <<rows, lock, pings>>
    BY <1>1, <1>6
  <2>2. \A j \in jobs' : j.sid \in DOMAIN rows
    BY <1>2, <1>4 DEF Consistent, References
  <2> QED BY <1>5, <2>1, <2>2, QuietStep DEF QueuesShrink
<1>7. CASE rows[s].status \in {"active"} /\ lock' = [lock EXCEPT ![c] = op]
  <2> "card" \in Pc /\ now \in Nat /\ {NoRow, rows[s]} \subseteq Row \cup {NoRow}
    BY <1>2, TypeParts DEF Pc
  <2>1. op \in Op /\ op.sid = s /\ op.pc = "card"
    BY <1>2, <1>3, NewOp
  <2>2. rows[s].status \in HolderMayHave(op.pc)
    BY <1>7, <2>1 DEF HolderMayHave, OpenStatus
  <2>3. rows' = [rows EXCEPT ![s] = rows[s]]
    BY <1>1, <1>2
  <2> HIDE DEF op
  <2>4. SessionStep(c, s, rows[s], op)
    BY <1>1, <1>2, <1>4, <1>5, <1>7, <2>1, <2>2, <2>3 DEF SessionStep
  <2> QED BY <2>4, RowStep
<1> QED BY <1>1, <1>6, <1>7

LEMMA StartRecoverStep ==
  ASSUME Consistent, NEW c \in Chats, StartRecover(c)
  PROVE  Consistent'
<1> DEFINE req == Head(queue[c])
           s == req.sid
           op == StartedOp(req, s, "card", NoRow, rows[s])
<1>1. /\ Acquire(c, {"recover"}) /\ UNCHANGED <<rows, cards, pings, missed, now, up, budget>>
      /\ UNCHANGED jobs
      /\ \/ rows[s].status \in {"creating"} /\ lock' = [lock EXCEPT ![c] = op]
         \/ UNCHANGED lock
  BY DEF StartRecover, Hold
<1>2. /\ s \in DOMAIN rows /\ s \in Nat /\ rows[s] \in Row /\ rows[s].chat = c
      /\ rows = [rows EXCEPT ![s] = rows[s]]
  BY <1>1, QueuedSession
<1>3. req \in Request /\ rows[s].time \in Nat
  BY <1>1, <1>2, AcquireFrame, TypeParts DEF Row
<1> HIDE DEF s, req
<1>4. jobs' \in SUBSET Job /\ \A j \in jobs' : j \in jobs \/ j.sid = s
  BY <1>1, <1>2, <1>3, JobOperations, TypeParts DEF JobKinds
<1>5. Surroundings /\ QueuesShrink
  BY <1>1, <1>4, AcquireFrame, TypeParts DEF Surroundings, QueuesShrink
<1>6. CASE UNCHANGED lock
  <2>1. UNCHANGED <<rows, lock, pings>>
    BY <1>1, <1>6
  <2>2. \A j \in jobs' : j.sid \in DOMAIN rows
    BY <1>2, <1>4 DEF Consistent, References
  <2> QED BY <1>5, <2>1, <2>2, QuietStep DEF QueuesShrink
<1>7. CASE rows[s].status \in {"creating"} /\ lock' = [lock EXCEPT ![c] = op]
  <2> "card" \in Pc /\ now \in Nat /\ {NoRow, rows[s]} \subseteq Row \cup {NoRow}
    BY <1>2, TypeParts DEF Pc
  <2>1. op \in Op /\ op.sid = s /\ op.pc = "card"
    BY <1>2, <1>3, NewOp
  <2>2. rows[s].status \in HolderMayHave(op.pc)
    BY <1>7, <2>1 DEF HolderMayHave, OpenStatus
  <2>3. rows' = [rows EXCEPT ![s] = rows[s]]
    BY <1>1, <1>2
  <2> HIDE DEF op
  <2>4. SessionStep(c, s, rows[s], op)
    BY <1>1, <1>2, <1>4, <1>5, <1>7, <2>1, <2>2, <2>3 DEF SessionStep
  <2> QED BY <2>4, RowStep
<1> QED BY <1>1, <1>6, <1>7

LEMMA StartCompleteStep ==
  ASSUME Consistent, NEW c \in Chats, StartComplete(c)
  PROVE  Consistent'
<1> DEFINE req == Head(queue[c])
           s == req.sid
           op == StartedOp(req, s, "unpin", NoRow, rows[s])
<1>1. /\ Acquire(c, {"complete"}) /\ UNCHANGED <<rows, cards, pings, missed, now, up, budget>>
      /\ jobs' = RemoveJob(jobs, "refresh", s) \/ UNCHANGED jobs
      /\ \/ rows[s].status \in {"active", "completing"} /\ lock' = [lock EXCEPT ![c] = op]
         \/ UNCHANGED lock
  BY DEF StartComplete, Hold
<1>2. /\ s \in DOMAIN rows /\ s \in Nat /\ rows[s] \in Row /\ rows[s].chat = c
      /\ rows = [rows EXCEPT ![s] = rows[s]]
  BY <1>1, QueuedSession
<1>3. req \in Request /\ rows[s].time \in Nat
  BY <1>1, <1>2, AcquireFrame, TypeParts DEF Row
<1> HIDE DEF s, req
<1>4. jobs' \in SUBSET Job /\ \A j \in jobs' : j \in jobs \/ j.sid = s
  BY <1>1, <1>2, <1>3, JobOperations, TypeParts DEF JobKinds
<1>5. Surroundings /\ QueuesShrink
  BY <1>1, <1>4, AcquireFrame, TypeParts DEF Surroundings, QueuesShrink
<1>6. CASE UNCHANGED lock
  <2>1. UNCHANGED <<rows, lock, pings>>
    BY <1>1, <1>6
  <2>2. \A j \in jobs' : j.sid \in DOMAIN rows
    BY <1>2, <1>4 DEF Consistent, References
  <2> QED BY <1>5, <2>1, <2>2, QuietStep DEF QueuesShrink
<1>7. CASE rows[s].status \in {"active", "completing"} /\ lock' = [lock EXCEPT ![c] = op]
  <2> "unpin" \in Pc /\ now \in Nat /\ {NoRow, rows[s]} \subseteq Row \cup {NoRow}
    BY <1>2, TypeParts DEF Pc
  <2>1. op \in Op /\ op.sid = s /\ op.pc = "unpin"
    BY <1>2, <1>3, NewOp
  <2>2. rows[s].status \in HolderMayHave(op.pc)
    BY <1>7, <2>1 DEF HolderMayHave, OpenStatus
  <2>3. rows' = [rows EXCEPT ![s] = rows[s]]
    BY <1>1, <1>2
  <2> HIDE DEF op
  <2>4. SessionStep(c, s, rows[s], op)
    BY <1>1, <1>2, <1>4, <1>5, <1>7, <2>1, <2>2, <2>3 DEF SessionStep
  <2> QED BY <2>4, RowStep
<1> QED BY <1>1, <1>6, <1>7

\* A new session: the only step that opens one, and only in a chat without.
LEMMA StartNewStep ==
  ASSUME Consistent, NEW c \in Chats, StartNew(c)
  PROVE  Consistent'
<1> DEFINE req == Head(queue[c])
           s == Len(rows) + 1
           row == Create(c, req.user, req.time)
           op == StartedOp(req, s, "shout", NoRow, row)
<1>1. /\ Acquire(c, {"propose"}) /\ OpenIn(c) = {}
      /\ rows' = Append(rows, row) /\ pings' = Append(pings, 0)
      /\ lock' = [lock EXCEPT ![c] = op]
      /\ UNCHANGED <<jobs, cards, missed, now, up, budget>>
  BY DEF StartNew, Hold
<1>2. req \in Request /\ req.user \in Users /\ req.time \in Nat
  <2>1. req \in Request /\ req.kind = "propose"
    BY <1>1, AcquireFrame, TypeParts
  <2> HIDE DEF req
  <2> QED BY <2>1, RequestFields
<1>3. row \in Row /\ row.chat = c /\ row.status = "creating"
  BY <1>2, NewRow
<1>4. Len(rows) \in Nat /\ DOMAIN rows = 1..Len(rows) /\ Len(pings) = Len(rows) /\ s \in Nat
  BY TypeFacts DEF Consistent, References
<1> HIDE DEF row, req
<1>5. /\ rows' \in Seq(Row) /\ Len(rows') = s /\ DOMAIN rows' = 1..s
      /\ \A t \in DOMAIN rows : rows'[t] = rows[t]
      /\ rows'[s] = row
  BY <1>1, <1>3, TypeParts, SeqAppend
<1>6. pings' \in Seq(Nat) /\ Len(pings') = s
  BY <1>1, <1>4, TypeParts, SeqAppend
<1> "shout" \in Pc /\ now \in Nat /\ NoRow \in Row \cup {NoRow}
  BY TypeParts DEF Pc
<1>7. op \in Op /\ op.sid = s /\ op.pc = "shout"
  <2>1. s \in Nat
    BY <1>4
  <2> HIDE DEF s
  <2> QED BY <1>2, <1>3, <2>1, NewOp
<1> HIDE DEF op
<1>8. /\ queue' \in [Chats -> Seq(Request)]
      /\ \A d \in Chats : \A i \in DOMAIN queue'[d] :
           \E k \in DOMAIN queue[d] : queue'[d][i] = queue[d][k]
  BY <1>1, AcquireFrame, TypeParts
<1>9. References'
  <2>1. DOMAIN rows \subseteq DOMAIN rows' /\ s \in DOMAIN rows'
    BY <1>4, <1>5
  <2>2. \A t \in DOMAIN rows : rows'[t].chat = rows[t].chat
    BY <1>5
  <2>3. Len(pings') = Len(rows') /\ \A j \in jobs' : j \in jobs
    BY <1>1, <1>5, <1>6
  <2> QED BY <1>8, <2>1, <2>2, <2>3, ReferencesFrame DEF Consistent
<1>10. LockProtects'
  <2> SUFFICES ASSUME NEW d \in Chats, lock'[d].pc # "free"
               PROVE  /\ lock'[d].sid \in DOMAIN rows'
                      /\ rows'[lock'[d].sid].chat = d
                      /\ rows'[lock'[d].sid].status \in HolderMayHave(lock'[d].pc)
    BY DEF LockProtects, Busy, HolderMayHave, OpenStatus
  <2>1. CASE d = c
    BY <1>1, <1>3, <1>4, <1>5, <1>7, <2>1, TypeParts DEF HolderMayHave, OpenStatus
  <2>2. CASE d # c
    <3>1. lock'[d] = lock[d] /\ lock[d].sid \in DOMAIN rows
      BY <1>1, <2>2, TypeParts DEF Consistent, LockProtects, Busy
    <3> QED BY <1>4, <1>5, <3>1 DEF Consistent, LockProtects, Busy
  <2> QED BY <2>1, <2>2
<1>11. OneOpenPerChat'
  <2>1. \A t \in DOMAIN rows : rows[t].chat = c => rows[t].status \notin OpenStatus
    BY <1>1 DEF OpenIn
  <2>2. \A t \in DOMAIN rows' : t = s \/ (t \in DOMAIN rows /\ rows'[t] = rows[t])
    BY <1>4, <1>5
  <2>3. rows'[s].chat = c
    BY <1>3, <1>5
  <2> QED BY <2>1, <2>2, <2>3 DEF Consistent, OneOpenPerChat, OpenStatus
<1>12. TypeOK'
  <2>1. lock' \in [Chats -> Op \cup {NoOp}]
    BY <1>1, <1>7, TypeParts
  <2>2. /\ jobs' \subseteq Job /\ cards' \in Seq(Card) /\ missed' \subseteq Nat
        /\ now' \in Nat /\ up' \in BOOLEAN /\ budget' \in [BudgetKinds -> Nat]
    BY <1>1, TypeParts
  <2> QED BY <1>5, <1>6, <1>8, <2>1, <2>2 DEF TypeOK
<1> QED BY <1>9, <1>10, <1>11, <1>12 DEF Consistent

LEMMA LockStepPreserves ==
  ASSUME Consistent, NEW c \in Chats, LockStep(c)
  PROVE  Consistent'
BY StartNewStep, StartRescheduleStep, StartTapStep, StartRefreshStep, StartRecoverStep,
   StartCompleteStep, ShoutStep, CardPublishedStep, CardFailsStep, UnpinOldStep, PinStep,
   AnnounceStep, CompleteUnpinStep, CompleteCloseStep, ReadySentStep, ReadyFailsStep
   DEF LockStep

-----------------------------------------------------------------------------
(* Users, jobs, the clock and the process.                                 *)

LEMMA ProposeCommandStep ==
  ASSUME Consistent, NEW c \in Chats, NEW u \in Users, NEW t \in 1..Horizon, ProposeCommand(c, u, t)
  PROVE  Consistent'
<1> DEFINE req == [kind |-> "propose", user |-> u, time |-> t]
<1>1. /\ Spend("command") /\ Enqueue(c, req)
      /\ UNCHANGED <<rows, jobs, lock, cards, pings, missed, now, up>>
  BY DEF ProposeCommand
<1>2. req \in Request /\ req.kind = "propose"
  BY BoundsAssumption DEF Request
<1> HIDE DEF req
<1>3. /\ queue' \in [Chats -> Seq(Request)]
      /\ \A d \in Chats : \A i \in DOMAIN queue'[d] :
           \/ \E k \in DOMAIN queue[d] : queue'[d][i] = queue[d][k]
           \/ d = c /\ queue'[d][i] = req
  BY <1>1, <1>2, EnqueueFrame, TypeParts
<1>4. budget' \in [BudgetKinds -> Nat]
  BY <1>1, SpendFacts, TypeParts DEF BudgetKinds
<1>5. Surroundings
  BY <1>1, <1>3, <1>4, TypeParts DEF Surroundings
<1> QED BY <1>1, <1>2, <1>3, <1>5, QuietStep

LEMMA TapStep ==
  ASSUME Consistent, NEW s \in DOMAIN rows, NEW u \in Users, NEW action \in {"join", "leave"},
         Tap(s, u, action)
  PROVE  Consistent'
<1> DEFINE c == rows[s].chat
           req == [kind |-> action, sid |-> s, user |-> u]
<1>1. /\ Spend("tap") /\ Enqueue(c, req)
      /\ UNCHANGED <<rows, jobs, lock, cards, pings, missed, now, up>>
  BY DEF Tap
<1>2. c \in Chats /\ s \in Nat
  BY TypeFacts DEF Consistent, Row
<1>3. req \in Request /\ req.sid = s
  BY <1>2 DEF Request
<1> HIDE DEF req
<1>4. /\ queue' \in [Chats -> Seq(Request)]
      /\ \A d \in Chats : \A i \in DOMAIN queue'[d] :
           \/ \E k \in DOMAIN queue[d] : queue'[d][i] = queue[d][k]
           \/ d = c /\ queue'[d][i] = req
  BY <1>1, <1>2, <1>3, EnqueueFrame, TypeParts
<1>5. budget' \in [BudgetKinds -> Nat]
  BY <1>1, SpendFacts, TypeParts DEF BudgetKinds
<1>6. Surroundings
  BY <1>1, <1>4, <1>5, TypeParts DEF Surroundings
<1> QED BY <1>1, <1>3, <1>4, <1>6, QuietStep

LEMMA FireJobStep ==
  ASSUME Consistent, NEW j \in jobs, FireJob(j)
  PROVE  Consistent'
<1> DEFINE s == j.sid
           c == rows[s].chat
           req == [kind |-> j.kind, sid |-> s]
<1>1. /\ jobs' = jobs \ {j} /\ UNCHANGED <<rows, lock, cards, pings, missed, now, up, budget>>
      /\ UNCHANGED queue \/ Enqueue(c, req)
  BY DEF FireJob
<1>2. s \in DOMAIN rows /\ c \in Chats /\ s \in Nat /\ j.kind \in JobKinds
  BY TypeFacts, TypeParts DEF Consistent, References, Row, Job
<1>3. req \in Request /\ req.sid = s
  BY <1>2 DEF Request
<1> HIDE DEF req
<1>4. /\ queue' \in [Chats -> Seq(Request)]
      /\ \A d \in Chats : \A i \in DOMAIN queue'[d] :
           \/ \E k \in DOMAIN queue[d] : queue'[d][i] = queue[d][k]
           \/ d = c /\ queue'[d][i] = req
  BY <1>1, <1>2, <1>3, EnqueueFrame, TypeParts
<1>5. Surroundings
  BY <1>1, <1>4, TypeParts DEF Surroundings
<1> QED BY <1>1, <1>2, <1>3, <1>4, <1>5, QuietStep

LEMMA DiscardJobStep ==
  ASSUME Consistent, NEW j \in jobs, DiscardJob(j)
  PROVE  Consistent'
<1>1. /\ jobs' = jobs \ {j} /\ missed' \subseteq missed \cup {j.sid}
      /\ UNCHANGED <<rows, lock, queue, cards, pings, now, up, budget>>
  BY DEF DiscardJob
<1>2. j.sid \in Nat
  BY TypeParts DEF Job
<1>3. Surroundings
  BY <1>1, <1>2, TypeParts DEF Surroundings
<1> QED BY <1>1, <1>3, QuietStep

LEMMA TickStep ==
  ASSUME Consistent, Tick
  PROVE  Consistent'
<1>1. now' = now + 1 /\ UNCHANGED <<rows, jobs, lock, queue, cards, pings, missed, up, budget>>
  BY DEF Tick
<1>2. Surroundings
  BY <1>1, TypeParts DEF Surroundings
<1> QED BY <1>1, <1>2, QuietStep

LEMMA DeleteCardStep ==
  ASSUME Consistent, NEW m \in DOMAIN cards, DeleteCard(m)
  PROVE  Consistent'
<1> DEFINE card == [cards[m] EXCEPT !.gone = TRUE, !.pinned = FALSE, !.buttons = FALSE]
<1>1. /\ Spend("delete") /\ cards' = [cards EXCEPT ![m] = card]
      /\ UNCHANGED <<rows, jobs, lock, queue, pings, missed, now, up>>
  BY DEF DeleteCard
<1>2. card \in Card
  BY TypeFacts DEF Consistent, Card
<1> HIDE DEF card
<1>3. cards' \in Seq(Card)
  BY <1>1, <1>2, SeqUpdate, TypeParts
<1>4. budget' \in [BudgetKinds -> Nat]
  BY <1>1, SpendFacts, TypeParts DEF BudgetKinds
<1>5. Surroundings
  BY <1>1, <1>3, <1>4, TypeParts DEF Surroundings
<1> QED BY <1>1, <1>5, QuietStep

LEMMA CrashStep ==
  ASSUME Consistent, Crash
  PROVE  Consistent'
<1>1. /\ Spend("crash") /\ UNCHANGED <<rows, now>> /\ up' = FALSE
      /\ jobs' = {} /\ missed' = {}
      /\ lock' = [c \in Chats |-> NoOp] /\ queue' = [c \in Chats |-> <<>>]
      /\ UNCHANGED <<cards, pings>> \/ \E c \in Chats : Busy(c) /\ TakesEffect(lock[c])
  BY DEF Crash
<1>2. cards' \in Seq(Card) /\ pings' \in Seq(Nat) /\ Len(pings') = Len(pings)
  <2>1. CASE UNCHANGED <<cards, pings>>
    BY <2>1, TypeParts
  <2>2. ASSUME NEW c \in Chats, Busy(c), TakesEffect(lock[c])
        PROVE  cards' \in Seq(Card) /\ pings' \in Seq(Nat) /\ Len(pings') = Len(pings)
    BY <2>2, HolderFacts, EffectFacts, TypeParts DEF Busy, TakesEffect
  <2> QED BY <1>1, <2>1, <2>2
<1>3. budget' \in [BudgetKinds -> Nat]
  BY <1>1, SpendFacts, TypeParts DEF BudgetKinds
<1>4. NoOp.pc = "free" /\ lock' \in [Chats -> Op \cup {NoOp}]
  BY <1>1 DEF NoOp
<1>5. queue' \in [Chats -> Seq(Request)] /\ \A d \in Chats : DOMAIN queue'[d] = {}
  BY <1>1
<1>6. TypeOK'
  BY <1>1, <1>2, <1>3, <1>4, <1>5, TypeParts DEF TypeOK
<1>7. References'
  BY <1>1, <1>2, <1>5 DEF Consistent, References
<1>8. LockProtects'
  BY <1>1, <1>4 DEF LockProtects, Busy
<1>9. OneOpenPerChat'
  BY <1>1 DEF Consistent, OneOpenPerChat
<1> QED BY <1>6, <1>7, <1>8, <1>9 DEF Consistent

\* Restoring a session never opens it, and only makes jobs for it.
LEMMA RestoredRowFacts ==
  ASSUME NEW r \in Row, now \in Nat
  PROVE  /\ RestoredRow(r) \in Row /\ RestoredRow(r).chat = r.chat
         /\ RestoredRow(r).status \in OpenStatus => r.status \in OpenStatus
         /\ RestoredRow(r).members = r.members
         /\ r.status \in EndStatus => RestoredRow(r) = r
<1>1. \A st \in {"expired", "failed"} :
        /\ MarkTerminal(r, st) \in Row /\ MarkTerminal(r, st).chat = r.chat
        /\ MarkTerminal(r, st).members = r.members
        /\ MarkTerminal(r, st).status \notin OpenStatus
  BY TerminalRow DEF EndStatus
<1>2. r.status \in EndStatus => r.status \notin OpenStatus /\ r.status # "completing"
  BY DEF EndStatus, OpenStatus
<1>3. CASE r.status \in OpenStatus /\ Overdue(r)
  BY <1>1, <1>2, <1>3 DEF RestoredRow, OpenStatus
<1>4. CASE r.status = "completing" /\ r.until < now
  BY <1>1, <1>2, <1>4 DEF RestoredRow, OpenStatus
<1>5. CASE /\ ~(r.status \in OpenStatus /\ Overdue(r))
           /\ ~(r.status = "completing" /\ r.until < now)
  BY <1>5 DEF RestoredRow
<1> QED BY <1>3, <1>4, <1>5

LEMMA RestoredJobsFacts ==
  ASSUME NEW s \in Nat, NEW r \in Row, now \in Nat
  PROVE  RestoredJobs(s, r) \in SUBSET Job /\ \A j \in RestoredJobs(s, r) : j.sid = s
<1>1. /\ r.time \in Nat /\ r.next \in Nat
      /\ Latest(r.time, now) \in Nat /\ Latest(r.next, now) \in Nat
  BY DEF Row, Latest
<1>2. {} \in SUBSET Job /\ "recover" \in JobKinds /\ "complete" \in JobKinds
  BY DEF JobKinds
<1> DEFINE x == ScheduleCountdown({}, s, r.time)
<1>3. x \in SUBSET Job /\ \A j \in x : j.sid = s
  BY <1>1, <1>2, JobOperations
<1> HIDE DEF x
<1>4. AddDate({}, "recover", s, now) \in SUBSET Job
      /\ \A j \in AddDate({}, "recover", s, now) : j.sid = s
  BY <1>2, JobOperations
<1>5. /\ AddDate(x, "complete", s, Latest(r.time, now)) \in SUBSET Job
      /\ \A j \in AddDate(x, "complete", s, Latest(r.time, now)) : j \in x \/ j.sid = s
  BY <1>1, <1>2, <1>3, JobOperations
<1>6. /\ AddDate({}, "complete", s, Latest(r.next, now)) \in SUBSET Job
      /\ \A j \in AddDate({}, "complete", s, Latest(r.next, now)) : j.sid = s
  BY <1>1, <1>2, JobOperations
<1>7. RestoredJobs(s, r) \in
        {AddDate({}, "recover", s, now), AddDate(x, "complete", s, Latest(r.time, now)),
         AddDate({}, "complete", s, Latest(r.next, now)), {}}
  BY DEF RestoredJobs, x
<1> QED BY <1>3, <1>4, <1>5, <1>6, <1>7

LEMMA MappedSeq ==
  ASSUME NEW S, NEW n \in Nat, NEW f \in [1..n -> S]
  PROVE  f \in Seq(S) /\ Len(f) = n /\ DOMAIN f = 1..n
BY LenProperties

LEMMA RestartStep ==
  ASSUME Consistent, StoppedIsEmpty, Restart
  PROVE  Consistent'
<1> DEFINE restored == [s \in DOMAIN rows |-> RestoredRow(rows[s])]
           Pinned(S) == [m \in DOMAIN cards |->
             [cards[m] EXCEPT !.pinned = @ \/ (Available(m) /\ \E s \in S : restored[s].msg = m)]]
           active == {s \in DOMAIN rows : restored[s].status = "active"}
           added == UNION {RestoredJobs(s, restored[s]) : s \in DOMAIN rows}
<1>1. /\ ~up /\ up' = TRUE /\ rows' = restored
      /\ jobs' = {[j EXCEPT !.late = @ /\ active # {}] : j \in added}
      /\ \/ cards' = Pinned(active) /\ UNCHANGED budget
         \/ \E s \in active : cards' = Pinned(active \ {s}) /\ Spend("reject")
      /\ UNCHANGED <<lock, queue, pings, missed, now>>
  BY DEF Restart
<1>2. \A s \in DOMAIN rows :
        /\ restored[s] \in Row /\ restored[s].chat = rows[s].chat
        /\ restored[s].status \in OpenStatus => rows[s].status \in OpenStatus
  BY RestoredRowFacts, TypeFacts, TypeParts
<1>3. Len(rows) \in Nat /\ DOMAIN rows = 1..Len(rows)
  BY TypeFacts, TypeParts
<1>4. restored \in Seq(Row) /\ Len(restored) = Len(rows) /\ DOMAIN restored = DOMAIN rows
  <2>1. restored \in [1..Len(rows) -> Row]
    BY <1>2, <1>3
  <2> HIDE DEF restored
  <2> QED BY <1>3, <2>1, MappedSeq
<1>5. \A j \in added : j \in Job /\ j.sid \in DOMAIN rows
  <2> SUFFICES ASSUME NEW s \in DOMAIN rows, NEW j \in RestoredJobs(s, restored[s])
               PROVE  j \in Job /\ j.sid \in DOMAIN rows
    OBVIOUS
  <2>1. s \in Nat /\ restored[s] \in Row /\ now \in Nat
    BY <1>2, <1>3, TypeParts
  <2> HIDE DEF restored
  <2> QED BY <2>1, RestoredJobsFacts
<1>6. \A j \in jobs' : j \in Job /\ j.sid \in DOMAIN rows
  <2>1. \A j \in Job, b \in BOOLEAN :
          [j EXCEPT !.late = b] \in Job /\ [j EXCEPT !.late = b].sid = j.sid
    BY DEF Job
  <2>2. \A j \in Job : (j.late /\ active # {}) \in BOOLEAN
    BY DEF Job
  <2> HIDE DEF added, active
  <2>4. ASSUME NEW j \in added
        PROVE  /\ [j EXCEPT !.late = @ /\ active # {}] \in Job
               /\ [j EXCEPT !.late = @ /\ active # {}].sid = j.sid
    <3>1. j \in Job
      BY <1>5
    <3>2. PICK b \in BOOLEAN : b = (j.late /\ active # {})
      BY <3>1, <2>2
    <3>3. [j EXCEPT !.late = @ /\ active # {}] = [j EXCEPT !.late = b]
      BY <3>2, Zenon
    <3>4. [j EXCEPT !.late = b] \in Job /\ [j EXCEPT !.late = b].sid = j.sid
      BY <2>1, <3>1
    <3> QED BY <3>3, <3>4, Zenon
  <2>5. jobs' = {[j EXCEPT !.late = @ /\ active # {}] : j \in added}
    BY <1>1
  <2> SUFFICES ASSUME NEW k \in jobs' PROVE k \in Job /\ k.sid \in DOMAIN rows
    OBVIOUS
  <2>6. PICK j \in added : k = [j EXCEPT !.late = @ /\ active # {}]
    BY <2>5, Zenon
  <2>7. k \in Job /\ k.sid = j.sid
    BY <2>4, <2>6, Zenon
  <2> QED BY <1>5, <2>7, Zenon
<1>7. \A S : Pinned(S) \in Seq(Card)
  <2> SUFFICES ASSUME NEW S PROVE Pinned(S) \in Seq(Card)
    OBVIOUS
  <2>1. \A m \in DOMAIN cards, b \in BOOLEAN : [cards[m] EXCEPT !.pinned = b] \in Card
    BY TypeFacts, TypeParts DEF Card
  <2>2. \A m \in DOMAIN cards :
          (cards[m].pinned \/ (Available(m) /\ \E s \in S : restored[s].msg = m)) \in BOOLEAN
    OBVIOUS
  <2>3. \A m \in DOMAIN cards : Pinned(S)[m] \in Card
    BY <2>1, <2>2, Zenon
  <2>4. Pinned(S) \in [1..Len(cards) -> Card] /\ Len(cards) \in Nat
    BY <2>3, TypeFacts, TypeParts
  <2> HIDE DEF Pinned
  <2> QED BY <2>4, MappedSeq
<1>8. cards' \in Seq(Card) /\ budget' \in [BudgetKinds -> Nat]
  <2>1. Spend("reject") => budget' \in [BudgetKinds -> Nat]
    BY SpendFacts, TypeParts DEF BudgetKinds
  <2> HIDE DEF active
  <2>2. PICK S : cards' = Pinned(S)
    BY <1>1, Zenon
  <2>3. cards' \in Seq(Card)
    <3>1. Pinned(S) \in Seq(Card)
      BY <1>7
    <3> QED BY <2>2, <3>1, Zenon
  <2>4. UNCHANGED budget \/ Spend("reject")
    BY <1>1, Zenon
  <2> QED BY <2>1, <2>3, <2>4, TypeParts
<1> HIDE DEF restored, active, added, Pinned
<1>9. TypeOK'
  <2>1. rows' \in Seq(Row) /\ jobs' \subseteq Job
    BY <1>1, <1>4, <1>6
  <2> QED BY <1>1, <1>8, <2>1, TypeParts DEF TypeOK
<1>10. References'
  <2>1. \A s \in DOMAIN rows : s \in DOMAIN rows' /\ rows'[s].chat = rows[s].chat
    BY <1>1, <1>2, <1>4
  <2>2. Len(pings') = Len(rows')
    BY <1>1, <1>4 DEF Consistent, References
  <2>3. \A c \in Chats : \A i \in DOMAIN queue'[c] : queue'[c][i] = queue[c][i]
    BY <1>1
  <2>4. DOMAIN rows \subseteq DOMAIN rows' /\ \A j \in jobs' : j.sid \in DOMAIN rows'
    BY <1>6, <2>1
  <2>5. \A c \in Chats : DOMAIN queue'[c] = DOMAIN queue[c]
    BY <1>1
  <2> QED BY <2>1, <2>2, <2>3, <2>4, <2>5, ReferencesFrame DEF Consistent
<1>11. LockProtects'
  BY <1>1 DEF StoppedIsEmpty, LockProtects, Busy
<1>12. OneOpenPerChat'
  <2>1. \A s \in DOMAIN rows' :
          /\ s \in DOMAIN rows /\ rows'[s].chat = rows[s].chat
          /\ rows'[s].status \in OpenStatus => rows[s].status \in OpenStatus
    BY <1>1, <1>2, <1>4
  <2> QED BY <2>1 DEF Consistent, OneOpenPerChat, OpenStatus
<1> QED BY <1>9, <1>10, <1>11, <1>12 DEF Consistent

-----------------------------------------------------------------------------
(* The invariant holds in every behaviour.                                 *)

LEMMA StoppedStep ==
  ASSUME Consistent, StoppedIsEmpty, [Next]_vars
  PROVE  StoppedIsEmpty'
<1> SUFFICES ASSUME Next PROVE StoppedIsEmpty'
  BY DEF vars, StoppedIsEmpty, Busy
<1>1. ASSUME NEW c \in Chats, LockStep(c)
      PROVE  up' = up /\ (Busy(c) \/ queue[c] # <<>>)
  BY <1>1 DEF LockStep, StartNew, StartReschedule, StartTap, StartRefresh, StartRecover,
              StartComplete, Acquire, Shout, CardPublished, CardFails, UnpinOld, Pin, Announce,
              CompleteUnpin, CompleteClose, ReadySent, ReadyFails, Busy
<1>2. ASSUME NEW c \in Chats, LockStep(c)
      PROVE  StoppedIsEmpty'
  <2>1. up
    BY <1>1, <1>2 DEF StoppedIsEmpty
  <2> QED BY <1>1, <1>2, <2>1 DEF StoppedIsEmpty
<1>3. ASSUME NEW j \in jobs, FireJob(j) \/ DiscardJob(j)
      PROVE  StoppedIsEmpty'
  BY <1>3 DEF FireJob, DiscardJob, StoppedIsEmpty
<1>4. ASSUME Restart PROVE StoppedIsEmpty'
  BY <1>4 DEF Restart, StoppedIsEmpty
<1>5. ASSUME Tick PROVE StoppedIsEmpty'
  BY <1>5 DEF Tick, StoppedIsEmpty, Busy
<1>6. ASSUME NEW c \in Chats, NEW u \in Users, NEW t \in 1..Horizon, ProposeCommand(c, u, t)
      PROVE  StoppedIsEmpty'
  BY <1>6 DEF ProposeCommand, StoppedIsEmpty
<1>7. ASSUME NEW s \in DOMAIN rows, NEW u \in Users, NEW a \in {"join", "leave"}, Tap(s, u, a)
      PROVE  StoppedIsEmpty'
  BY <1>7 DEF Tap, StoppedIsEmpty
<1>8. ASSUME NEW m \in DOMAIN cards, DeleteCard(m) PROVE StoppedIsEmpty'
  BY <1>8 DEF DeleteCard, StoppedIsEmpty, Busy
<1>9. ASSUME Crash PROVE StoppedIsEmpty'
  BY <1>9 DEF Crash, StoppedIsEmpty, Busy, NoOp
<1>10. ASSUME Idle PROVE StoppedIsEmpty'
  BY <1>10 DEF Idle, vars, StoppedIsEmpty, Busy
<1> QED BY <1>2, <1>3, <1>4, <1>5, <1>6, <1>7, <1>8, <1>9, <1>10
        DEF Next, SystemStep, EnvironmentStep

LEMMA ConsistentStep ==
  ASSUME IInv, [Next]_vars
  PROVE  Consistent'
<1> USE DEF IInv
<1>1. CASE UNCHANGED vars
  BY <1>1 DEF vars, Consistent, TypeOK, References, LockProtects, OneOpenPerChat, Busy
<1>2. CASE SystemStep
  BY <1>2, LockStepPreserves, FireJobStep, DiscardJobStep, RestartStep, TickStep DEF SystemStep
<1>3. CASE EnvironmentStep
  BY <1>3, ProposeCommandStep, TapStep, DeleteCardStep, CrashStep DEF EnvironmentStep
<1>4. CASE Idle
  BY <1>1, <1>4 DEF Idle
<1> QED BY <1>1, <1>2, <1>3, <1>4 DEF Next

LEMMA InitIInv == Init => IInv
<1> SUFFICES ASSUME Init PROVE IInv
  OBVIOUS
<1>1. TypeOK
  <2>1. \A S : <<>> \in Seq(S)
    OBVIOUS
  <2> QED BY <2>1, BudgetAssumption DEF Init, TypeOK, NoOp
<1>2. References
  BY DEF Init, References
<1>3. LockProtects /\ OneOpenPerChat
  BY DEF Init, LockProtects, OneOpenPerChat, Busy, NoOp
<1>4. StoppedIsEmpty
  BY DEF Init, StoppedIsEmpty
<1> QED BY <1>1, <1>2, <1>3, <1>4 DEF IInv, Consistent

\* The lock keeps stale coroutines out: in every state the session a coroutine works
\* on belongs to the locked chat and has a status its operation allows, ids in memory
\* name rows, and a chat has one open meeting.
THEOREM InvariantHolds == Spec => []IInv
<1>1. Init => IInv
  BY InitIInv
<1>2. IInv /\ [Next]_vars => IInv'
  BY ConsistentStep, StoppedStep DEF IInv
<1> QED BY <1>1, <1>2, PTL DEF Spec

\* Every variable keeps its type in every behaviour of the bot.
THEOREM TypeCorrect == Spec => []TypeOK
<1>1. IInv => TypeOK
  BY DEF IInv, Consistent
<1> QED BY <1>1, InvariantHolds, PTL

\* At most one meeting of a chat can be joined or moved, whatever the interleaving of
\* commands, taps, jobs, failures, crashes and restarts.
THEOREM OneOpenMeeting == Spec => []OneOpenPerChat
<1>1. IInv => OneOpenPerChat
  BY DEF IInv, Consistent
<1> QED BY <1>1, InvariantHolds, PTL

-----------------------------------------------------------------------------
(* What happened to a meeting stays.                                       *)

\* An ended session keeps its row, a closed one its participants.
HistoryKept ==
  \A s \in DOMAIN rows :
    /\ Ended(s) => rows'[s] = rows[s]
    /\ rows[s].status \notin OpenStatus => rows'[s].members = rows[s].members

LEMMA HistoryFrame ==
  ASSUME Consistent, NEW s \in DOMAIN rows, NEW r, rows' = [rows EXCEPT ![s] = r],
         rows[s].status \notin EndStatus,
         rows[s].status \notin OpenStatus => r.members = rows[s].members
  PROVE  HistoryKept
<1>1. DOMAIN rows = 1..Len(rows) /\ \A t \in DOMAIN rows : rows'[t] = IF t = s THEN r ELSE rows[t]
  BY LenProperties DEF Consistent, TypeOK
<1> QED BY <1>1 DEF HistoryKept, Ended

LEMMA SameHistory ==
  ASSUME UNCHANGED rows
  PROVE  HistoryKept
BY DEF HistoryKept

\* A coroutine that holds a lock for a session that can still be joined.
LEMMA OpenHolderHistory ==
  ASSUME Consistent, NEW c \in Chats, lock[c].pc # "free",
         lock[c].pc \notin {"unpin", "close", "ready"},
         NEW r, rows' = [rows EXCEPT ![lock[c].sid] = r]
  PROVE  HistoryKept
<1>1. lock[c].sid \in DOMAIN rows /\ rows[lock[c].sid].status \in OpenStatus
  BY HolderFacts DEF HolderMayHave
<1>2. rows[lock[c].sid].status \notin EndStatus
  BY <1>1 DEF OpenStatus, EndStatus
<1> QED BY <1>1, <1>2, HistoryFrame

\* A completion keeps the participants of its session.
LEMMA CompletionHistory ==
  ASSUME Consistent, NEW c \in Chats, lock[c].pc \in {"unpin", "close", "ready"},
         NEW r, rows' = [rows EXCEPT ![lock[c].sid] = r],
         r.members = rows[lock[c].sid].members
  PROVE  HistoryKept
<1>1. lock[c].pc # "free" /\ HolderMayHave(lock[c].pc) = {"active", "completing"}
  BY DEF HolderMayHave
<1>2. lock[c].sid \in DOMAIN rows /\ rows[lock[c].sid].status \in {"active", "completing"}
  BY <1>1, HolderFacts
<1>3. rows[lock[c].sid].status \notin EndStatus
  BY <1>2 DEF EndStatus
<1> QED BY <1>2, <1>3, HistoryFrame

LEMMA LockStepHistory ==
  ASSUME Consistent, NEW c \in Chats, LockStep(c)
  PROVE  HistoryKept
<1> DEFINE s == lock[c].sid
<1>1. CASE \/ StartRefresh(c) \/ StartRecover(c) \/ StartComplete(c) \/ Shout(c)
           \/ UnpinOld(c) \/ Pin(c) \/ Announce(c)
  <2>1. UNCHANGED rows
    BY <1>1 DEF StartRefresh, StartRecover, StartComplete, Shout, UnpinOld, Pin, Announce
  <2> QED BY <2>1, SameHistory
<1>2. CASE StartNew(c)
  <2>1. /\ Acquire(c, {"propose"})
        /\ rows' = Append(rows, Create(c, Head(queue[c]).user, Head(queue[c]).time))
    BY <1>2 DEF StartNew
  <2>2. Head(queue[c]).user \in Users /\ Head(queue[c]).time \in Nat
    <3>1. Head(queue[c]) \in Request /\ Head(queue[c]).kind \in {"propose"}
      BY <2>1, AcquireFrame, TypeParts
    <3> QED BY <3>1, RequestFields
  <2>3. \A t \in DOMAIN rows : rows'[t] = rows[t]
    BY <2>1, <2>2, NewRow, TypeParts, SeqAppend
  <2> QED BY <2>3 DEF HistoryKept
<1>3. CASE StartReschedule(c)
  <2>1. PICK t \in OpenIn(c) :
          rows' = [rows EXCEPT ![t] = Reschedule(rows[t], Head(queue[c]).user, Head(queue[c]).time)]
    BY <1>3 DEF StartReschedule
  <2>2. t \in DOMAIN rows /\ rows[t].status \in OpenStatus /\ rows[t].status \notin EndStatus
    BY DEF OpenIn, OpenStatus, EndStatus
  <2> QED BY <2>1, <2>2, HistoryFrame
<1>4. CASE StartTap(c)
  <2> DEFINE t == Head(queue[c]).sid
  <2>1. /\ Acquire(c, {"join", "leave"})
        /\ \/ rows[t].status = "active" /\ \E r : rows' = [rows EXCEPT ![t] = r]
           \/ UNCHANGED rows
    BY <1>4 DEF StartTap
  <2>2. t \in DOMAIN rows
    BY <2>1, QueuedSession
  <2>3. rows[t].status = "active" => rows[t].status \in OpenStatus /\ rows[t].status \notin EndStatus
    BY DEF OpenStatus, EndStatus
  <2> QED BY <2>1, <2>2, <2>3, HistoryFrame, SameHistory
<1>5. CASE CardPublished(c)
  <2>1. lock[c].pc = "card" /\ \E r : rows' = [rows EXCEPT ![s] = r]
    BY <1>5 DEF CardPublished
  <2> QED BY <2>1, OpenHolderHistory
<1>6. CASE CardFails(c)
  <2>1. lock[c].pc = "card" /\ \E r : rows' = [rows EXCEPT ![s] = r]
    BY <1>6 DEF CardFails
  <2> QED BY <2>1, OpenHolderHistory
<1>7. CASE CompleteUnpin(c)
  <2> DEFINE until == lock[c].cur.time + RETRY_DELAYS[3]
             row == IF lock[c].cur.status = "active" THEN MarkCompleting(rows[s], until)
                    ELSE rows[s]
  <2>1. lock[c].pc = "unpin" /\ rows' = [rows EXCEPT ![s] = row]
    BY <1>7 DEF CompleteUnpin
  <2>2. rows[s] \in Row /\ lock[c].cur.time \in Nat
    BY <2>1, HolderFacts DEF Row
  <2>3. until \in Nat
    BY <2>2 DEF RETRY_DELAYS
  <2> HIDE DEF until
  <2>4. row.members = rows[s].members
    BY <2>2, <2>3, CompletingRow
  <2> HIDE DEF row
  <2> QED BY <2>1, <2>4, CompletionHistory
<1>8. CASE CompleteClose(c) \/ ReadySent(c)
  <2>1. lock[c].pc \in {"close", "ready"}
    BY <1>8 DEF CompleteClose, ReadySent
  <2>2. rows' = [rows EXCEPT ![s] = MarkTerminal(rows[s], "completed")] \/ UNCHANGED rows
    BY <1>8 DEF CompleteClose, ReadySent
  <2>3. MarkTerminal(rows[s], "completed").members = rows[s].members
    BY <2>1, HolderFacts, TerminalRow DEF EndStatus
  <2> QED BY <2>1, <2>2, <2>3, CompletionHistory, SameHistory
<1>9. CASE ReadyFails(c)
  <2>1. lock[c].pc = "ready" /\ \E st : \E n, t :
          \/ rows' = [rows EXCEPT ![s] = MarkTerminal(rows[s], st)]
          \/ rows' = [rows EXCEPT ![s] = MarkRetry(rows[s], n, t)]
    BY <1>9 DEF ReadyFails
  <2>2. rows[s] \in Row
    BY <2>1, HolderFacts
  <2>3. \A st, n, t : /\ MarkTerminal(rows[s], st).members = rows[s].members
                      /\ MarkRetry(rows[s], n, t).members = rows[s].members
    BY <2>2 DEF MarkTerminal, MarkRetry, Row
  <2> QED BY <2>1, <2>3, CompletionHistory
<1> QED BY <1>1, <1>2, <1>3, <1>4, <1>5, <1>6, <1>7, <1>8, <1>9 DEF LockStep

LEMMA HistoryStep ==
  ASSUME Consistent, [Next]_vars
  PROVE  HistoryKept
<1>1. CASE \E c \in Chats : LockStep(c)
  BY <1>1, LockStepHistory
<1>2. CASE Restart
  <2>1. rows' = [s \in DOMAIN rows |-> RestoredRow(rows[s])]
    BY <1>2 DEF Restart
  <2>2. \A s \in DOMAIN rows : rows[s] \in Row
    BY TypeFacts, TypeParts
  <2> QED BY <2>1, <2>2, RestoredRowFacts, TypeParts DEF HistoryKept, Ended
<1>3. CASE \/ \E j \in jobs : FireJob(j) \/ DiscardJob(j)
           \/ Tick \/ EnvironmentStep \/ Idle \/ UNCHANGED vars
  <2>1. UNCHANGED rows
    BY <1>3 DEF FireJob, DiscardJob, Tick, EnvironmentStep, ProposeCommand, Tap, DeleteCard,
                Crash, Idle, vars
  <2> QED BY <2>1, SameHistory
<1> QED BY <1>1, <1>2, <1>3 DEF Next, SystemStep

\* A meeting that was completed, expired or given up is never revived or changed,
\* although mark_terminal and the compensations carry no status guard.
THEOREM TerminalRowsFinal == Spec => TerminalIsFinal
<1>1. IInv /\ [Next]_vars => [\A s \in DOMAIN rows : Ended(s) => rows'[s] = rows[s]]_vars
  BY HistoryStep DEF IInv, HistoryKept
<1> QED BY <1>1, InvariantHolds, PTL DEF Spec, TerminalIsFinal

\* Nobody joins or leaves a meeting once its completion has begun.
THEOREM ParticipantsFixed == Spec => ParticipantsFrozen
<1>1. IInv /\ [Next]_vars =>
        [\A s \in DOMAIN rows :
           rows[s].status \notin OpenStatus => rows'[s].members = rows[s].members]_vars
  BY HistoryStep DEF IInv, HistoryKept
<1> QED BY <1>1, InvariantHolds, PTL DEF Spec, ParticipantsFrozen

-----------------------------------------------------------------------------
(* CoffeeMeeting is implemented.                                           *)

\* The meetings, as CoffeeMeeting sees them.
Meetings == [s \in 1..Len(rows) |-> MeetingOf(s)]

Completing == {"unpin", "close", "ready"}

\* What steps do to one session s: its row becomes r, and n calls have reached its chat.
Changed(s, r, n) ==
  /\ s \in DOMAIN rows /\ r \in Row /\ r.chat = rows[s].chat /\ n \in Nat
  /\ rows' = [rows EXCEPT ![s] = r] /\ pings' = [pings EXCEPT ![s] = n]

\* Nothing the abstract meeting shows.
Stays(s, r, n) ==
  /\ Changed(s, r, n) /\ n = pings[s]
  /\ PhaseOf(r.status) = PhaseOf(rows[s].status) /\ r.members = rows[s].members

Attends(s, r, n) ==
  /\ Changed(s, r, n) /\ n = pings[s]
  /\ rows[s].status \in OpenStatus /\ r.status \in OpenStatus

Closes(s, r, n) ==
  /\ Changed(s, r, n) /\ n = pings[s]
  /\ rows[s].status \in OpenStatus /\ r.status = "completing" /\ r.members = rows[s].members

HoldsEmpty(s, r, n) ==
  /\ Changed(s, r, n) /\ n = pings[s]
  /\ rows[s].status = "completing" /\ r.status = "completed"
  /\ r.members = rows[s].members /\ r.members = {}

Calls(s, r, n) ==
  /\ Changed(s, r, n) /\ n = pings[s] + 1
  /\ rows[s].status = "completing" /\ r.status \in {"completing", "completed", "failed"}
  /\ r.members = rows[s].members
  /\ r.status = "completed" \/ \E k \in {"lost", "crash"} : budget' = [budget EXCEPT ![k] = @ - 1]

Drops(s, r, n) ==
  /\ Changed(s, r, n) /\ n = pings[s]
  /\ rows[s].status \notin EndStatus /\ r.status \in {"failed", "expired"}
  /\ r.members = rows[s].members

Moves(s, r, n) ==
  \/ Stays(s, r, n) \/ Attends(s, r, n) \/ Closes(s, r, n)
  \/ HoldsEmpty(s, r, n) \/ Calls(s, r, n) \/ Drops(s, r, n)

BudgetShrinks == \A k \in BudgetKinds : budget'[k] \in Nat /\ budget'[k] <= budget[k]

\* What every step of a coroutine has to show: its session moves, the budget is not
\* refilled, and the lock goes to an operation that knows the new row.
Known(op, r) ==
  op.pc \in Completing =>
    /\ op.cur = r
    /\ op.pc # "unpin" => op.cur.status = "completing"
    /\ op.pc = "ready" => op.cur.members # {}

CoroutineStep(c, s, r, n, op) ==
  /\ Moves(s, r, n) /\ rows[s].chat = c
  /\ BudgetShrinks
  /\ lock' = [lock EXCEPT ![c] = op] /\ op \in Op \cup {NoOp}
  /\ op.pc # "free" => op.sid = s /\ Known(op, r)

-----------------------------------------------------------------------------
(* What such a step preserves.                                             *)

LEMMA PhaseFacts ==
  /\ \A st \in OpenStatus : PhaseOf(st) = "open"
  /\ PhaseOf("completing") = "closing" /\ PhaseOf("completed") = "held"
  /\ PhaseOf("failed") = "dropped" /\ PhaseOf("expired") = "dropped"
  /\ \A st \in Status :
       /\ PhaseOf(st) = "held" <=> st = "completed"
       /\ PhaseOf(st) \in {"held", "dropped"} <=> st \in EndStatus
BY DEF PhaseOf, Status, OpenStatus, EndStatus

LEMMA ChangedFacts ==
  ASSUME Consistent, NEW s, NEW r, NEW n, Changed(s, r, n)
  PROVE  /\ Len(rows') = Len(rows) /\ DOMAIN rows' = DOMAIN rows /\ DOMAIN rows = 1..Len(rows)
         /\ s \in 1..Len(rows) /\ rows[s] \in Row /\ pings[s] \in Nat
         /\ \A t \in DOMAIN rows : rows'[t] = IF t = s THEN r ELSE rows[t]
         /\ \A t \in DOMAIN rows : pings'[t] = IF t = s THEN n ELSE pings[t]
         /\ \A t \in DOMAIN rows : rows[t] \in Row /\ pings[t] \in Nat
<1>1. rows \in Seq(Row) /\ pings \in Seq(Nat) /\ Len(pings) = Len(rows)
  BY DEF Consistent, TypeOK, References
<1>2. s \in DOMAIN rows /\ r \in Row /\ n \in Nat
      /\ rows' = [rows EXCEPT ![s] = r] /\ pings' = [pings EXCEPT ![s] = n]
  BY DEF Changed
<1>3. DOMAIN rows = 1..Len(rows) /\ DOMAIN pings = DOMAIN rows
  BY <1>1, LenProperties
<1>4. \A t \in DOMAIN rows : rows[t] \in Row /\ pings[t] \in Nat
  BY <1>1, <1>3, ElementOfSeq
<1> QED BY <1>1, <1>2, <1>3, <1>4, SeqUpdate

LEMMA StepMoves ==
  ASSUME Consistent, NEW s, NEW r, NEW n, Moves(s, r, n)
  PROVE  Changed(s, r, n)
BY DEF Moves, Stays, Attends, Closes, HoldsEmpty, Calls, Drops

LEMMA KnowsFrame ==
  ASSUME Consistent, CompletionIsCurrent,
         NEW c \in Chats, NEW s, NEW r, NEW n, NEW op, CoroutineStep(c, s, r, n, op)
  PROVE  CompletionIsCurrent'
<1>1. /\ s \in DOMAIN rows /\ rows[s].chat = c
      /\ \A t \in DOMAIN rows : rows'[t] = IF t = s THEN r ELSE rows[t]
      /\ lock' = [lock EXCEPT ![c] = op]
      /\ op.pc # "free" => op.sid = s /\ Known(op, r)
  BY StepMoves, ChangedFacts DEF CoroutineStep, Changed
<1>2. lock \in [Chats -> Op \cup {NoOp}]
  BY TypeParts
<1> SUFFICES ASSUME NEW d \in Chats, lock'[d].pc \in Completing
             PROVE  /\ lock'[d].cur = rows'[lock'[d].sid]
                    /\ lock'[d].pc # "unpin" => lock'[d].cur.status = "completing"
                    /\ lock'[d].pc = "ready" => lock'[d].cur.members # {}
  BY DEF CompletionIsCurrent, Completing
<1>3. CASE d = c
  BY <1>1, <1>2, <1>3 DEF Known, Completing
<1>4. CASE d # c
  <2>1. lock'[d] = lock[d] /\ lock[d].pc # "free"
    BY <1>1, <1>2, <1>4 DEF Completing
  <2>2. lock[d].sid \in DOMAIN rows /\ rows[lock[d].sid].chat = d
    BY <2>1, HolderFacts
  <2>3. lock[d].sid # s
    BY <1>1, <1>4, <2>2
  <2> QED BY <1>1, <2>1, <2>2, <2>3 DEF CompletionIsCurrent, Completing
<1> QED BY <1>3, <1>4

LEMMA SpentGrows ==
  ASSUME Consistent, CallsAccounted, BudgetShrinks
  PROVE  /\ \A k \in BudgetKinds : budget'[k] <= Budget[k]
         /\ Spent("lost")' >= Spent("lost") /\ Spent("crash")' >= Spent("crash")
         /\ {Spent("lost"), Spent("crash"), Spent("lost")', Spent("crash")'} \subseteq Nat
<1>1. /\ budget \in [BudgetKinds -> Nat] /\ Budget \in [BudgetKinds -> Nat]
      /\ {"lost", "crash"} \subseteq BudgetKinds
  BY TypeParts, BudgetAssumption DEF BudgetKinds
<1>2. \A k \in BudgetKinds : budget'[k] \in Nat /\ budget'[k] <= budget[k] /\ budget'[k] <= Budget[k]
  BY <1>1 DEF BudgetShrinks, CallsAccounted
<1> QED BY <1>1, <1>2 DEF Spent, CallsAccounted

LEMMA AccountsFrame ==
  ASSUME Consistent, CallsAccounted, CompletedMeansCalled, BudgetShrinks,
         NEW s, NEW r, NEW n, Moves(s, r, n)
  PROVE  CallsAccounted' /\ CompletedMeansCalled'
<1> USE DEF Moves, Stays, Attends, Closes, HoldsEmpty, Calls, Drops
<1>1. Changed(s, r, n)
  BY StepMoves
<1>2. /\ DOMAIN rows' = DOMAIN rows /\ s \in DOMAIN rows
      /\ \A t \in DOMAIN rows : rows'[t] = IF t = s THEN r ELSE rows[t]
      /\ \A t \in DOMAIN rows : pings'[t] = IF t = s THEN n ELSE pings[t]
      /\ \A t \in DOMAIN rows : pings[t] \in Nat
  BY <1>1, ChangedFacts
<1>3. /\ budget \in [BudgetKinds -> Nat] /\ Budget \in [BudgetKinds -> Nat]
      /\ {"lost", "crash"} \subseteq BudgetKinds
  BY TypeParts, BudgetAssumption DEF BudgetKinds
<1>4. \A k \in BudgetKinds : budget'[k] <= Budget[k]
  BY SpentGrows
<1>5. Spent("lost")' >= Spent("lost") /\ Spent("crash")' >= Spent("crash")
      /\ {Spent("lost"), Spent("crash"), Spent("lost")', Spent("crash")'} \subseteq Nat
  BY SpentGrows
<1>6. n \in Nat /\ (r.status = "completed" => n > 0 \/ r.members = {} \/ rows[s].status = "completed")
  <2>1. n \in Nat /\ rows[s].status \in Status /\ r.status \in Status /\ pings[s] \in Nat
    BY <1>1, ChangedFacts DEF Changed, Row
  <2>2. CASE Stays(s, r, n)
    BY <2>1, <2>2, PhaseFacts
  <2>3. CASE ~Stays(s, r, n)
    BY <2>1, <2>3 DEF OpenStatus
  <2> QED BY <2>1, <2>2, <2>3
<1>7. CallsAccounted'
  <2>1. ASSUME NEW t \in DOMAIN rows
        PROVE  pings'[t] <= Spent("lost")' + Spent("crash")'
                              + (IF rows'[t].status = "completed" THEN 1 ELSE 0)
    <3>1. pings[t] <= Spent("lost") + Spent("crash")
                        + (IF rows[t].status = "completed" THEN 1 ELSE 0)
      BY DEF CallsAccounted
    <3>2. CASE t # s
      BY <1>2, <1>5, <3>1, <3>2
    <3>3. CASE t = s /\ Calls(s, r, n)
      <4>1. rows[s].status # "completed" /\ pings'[s] = pings[s] + 1 /\ rows'[s] = r
        BY <1>2, <3>3
      <4>2. CASE r.status = "completed"
        BY <1>2, <1>5, <3>1, <3>3, <4>1, <4>2
      <4>3. ASSUME NEW k \in {"lost", "crash"}, budget' = [budget EXCEPT ![k] = @ - 1]
            PROVE  pings'[t] <= Spent("lost")' + Spent("crash")'
                                  + (IF rows'[t].status = "completed" THEN 1 ELSE 0)
        <5>1. Spent(k)' = Spent(k) + 1
          BY <1>3, <4>3 DEF Spent
        <5> QED BY <1>2, <1>5, <3>1, <3>3, <4>1, <5>1
      <4> QED BY <3>3, <4>2, <4>3
    <3>4. CASE t = s /\ ~Calls(s, r, n)
      <4>1. pings'[s] = pings[s] /\ rows'[s] = r
        BY <1>2, <3>4
      <4>2. rows[s].status = "completed" => r.status = "completed"
        <5>1. rows[s].status \in Status /\ r.status \in Status
          BY <1>1, ChangedFacts DEF Changed, Row
        <5>2. CASE Stays(s, r, n)
          BY <5>1, <5>2, PhaseFacts
        <5>3. CASE ~Stays(s, r, n)
          BY <3>4, <5>3 DEF OpenStatus, EndStatus
        <5> QED BY <5>2, <5>3
      <4> QED BY <1>2, <1>5, <3>1, <3>4, <4>1, <4>2
    <3> QED BY <3>2, <3>3, <3>4
  <2> QED BY <1>2, <1>4, <2>1 DEF CallsAccounted
<1>8. CompletedMeansCalled'
  <2> SUFFICES ASSUME NEW t \in DOMAIN rows, rows'[t].status = "completed", rows'[t].members # {}
               PROVE  pings'[t] > 0
    BY <1>2 DEF CompletedMeansCalled
  <2>1. CASE t # s
    BY <1>2, <2>1 DEF CompletedMeansCalled
  <2>2. CASE t = s /\ rows[s].status # "completed"
    BY <1>2, <1>6, <2>2
  <2>3. CASE t = s /\ rows[s].status = "completed"
    <3>1. r.members = rows[s].members /\ n = pings[s]
      BY <2>3 DEF OpenStatus, EndStatus
    <3> QED BY <1>2, <2>3, <3>1 DEF CompletedMeansCalled
  <2> QED BY <2>1, <2>2, <2>3
<1> QED BY <1>7, <1>8

\* A session that moves is a meeting that takes a step, or keeps still.
LEMMA MeetingFrame ==
  ASSUME Consistent, NEW s, NEW r, NEW n, Moves(s, r, n)
  PROVE  Promise!Next \/ UNCHANGED Meetings
<1> DEFINE new == [chat |-> rows[s].chat, phase |-> PhaseOf(r.status),
                   attendees |-> r.members, calls |-> n]
<1>1. Changed(s, r, n)
  BY StepMoves
<1>2. /\ Len(rows') = Len(rows) /\ s \in 1..Len(rows) /\ s \in DOMAIN Meetings
      /\ \A t \in 1..Len(rows) : rows'[t] = IF t = s THEN r ELSE rows[t]
      /\ \A t \in 1..Len(rows) : pings'[t] = IF t = s THEN n ELSE pings[t]
      /\ r.chat = rows[s].chat /\ DOMAIN rows = 1..Len(rows)
  <2>1. s \in 1..Len(rows) /\ DOMAIN Meetings = 1..Len(rows)
    BY <1>1, ChangedFacts DEF Meetings
  <2>2. r.chat = rows[s].chat
    BY <1>1 DEF Changed
  <2> QED BY <1>1, <2>1, <2>2, ChangedFacts
<1>3. Meetings' = [Meetings EXCEPT ![s] = new]
  <2>1. Meetings' = [t \in 1..Len(rows) |-> MeetingOf(t)']
    BY <1>2 DEF Meetings
  <2>2. \A t \in 1..Len(rows) : MeetingOf(t)' = IF t = s THEN new ELSE MeetingOf(t)
    BY <1>2 DEF MeetingOf
  <2> QED BY <2>1, <2>2 DEF Meetings
<1>4. Meetings[s] = [chat |-> rows[s].chat, phase |-> PhaseOf(rows[s].status),
                     attendees |-> rows[s].members, calls |-> pings[s]]
  BY <1>2 DEF Meetings, MeetingOf
<1>5. r.members \in SUBSET Users /\ n \in Nat
  BY <1>1 DEF Changed, Row
<1>6. CASE Stays(s, r, n)
  <2>1. new = Meetings[s]
    BY <1>4, <1>6 DEF Stays
  <2>2. Meetings' = Meetings
    BY <1>3, <2>1 DEF Meetings
  <2> QED BY <2>2
<1>7. CASE Attends(s, r, n)
  <2>1. Meetings[s].phase = "open" /\ new = [Meetings[s] EXCEPT !.attendees = r.members]
    BY <1>4, <1>7, PhaseFacts DEF Attends
  <2>2. Promise!ChangeAttendees(s, r.members)
    BY <1>3, <2>1 DEF Promise!ChangeAttendees, Meetings
  <2> QED BY <1>2, <1>5, <2>2 DEF Promise!Next, Meetings
<1>8. CASE Closes(s, r, n)
  <2>1. Meetings[s].phase = "open" /\ new = [Meetings[s] EXCEPT !.phase = "closing"]
    BY <1>4, <1>8, PhaseFacts DEF Closes
  <2>2. Promise!Close(s)
    BY <1>3, <2>1 DEF Promise!Close, Meetings
  <2> QED BY <1>2, <2>2 DEF Promise!Next, Meetings
<1>9. CASE HoldsEmpty(s, r, n)
  <2>1. /\ Meetings[s].phase = "closing" /\ Meetings[s].attendees = {}
        /\ new = [Meetings[s] EXCEPT !.phase = "held"]
    BY <1>4, <1>9, PhaseFacts DEF HoldsEmpty
  <2>2. Promise!HoldEmpty(s)
    BY <1>3, <2>1 DEF Promise!HoldEmpty, Meetings
  <2> QED BY <1>2, <2>2 DEF Promise!Next, Meetings
<1>10. CASE Calls(s, r, n)
  <2> SUFFICES ASSUME NEW q, q = PhaseOf(r.status)
               PROVE  Promise!Next
    OBVIOUS
  <2>1. /\ q \in {"closing", "held", "dropped"} /\ PhaseOf(rows[s].status) = "closing"
        /\ n = pings[s] + 1 /\ r.members = rows[s].members
    BY <1>10, PhaseFacts DEF Calls
  <2> DEFINE was == [chat |-> rows[s].chat, phase |-> "closing", attendees |-> r.members, calls |-> pings[s]]
  <2>2. Meetings[s] = was
    BY <1>4, <2>1
  <2>3. new = [was EXCEPT !.calls = n, !.phase = q]
    <3>1. new = [chat |-> rows[s].chat, phase |-> q, attendees |-> r.members, calls |-> n]
      OBVIOUS
    <3>2. [was EXCEPT !.calls = n, !.phase = q]
            = [chat |-> rows[s].chat, phase |-> q, attendees |-> r.members, calls |-> n]
      <4>1. [was EXCEPT !.calls = n]
              = [chat |-> rows[s].chat, phase |-> "closing", attendees |-> r.members, calls |-> n]
        OBVIOUS
      <4>2. [[chat |-> rows[s].chat, phase |-> "closing", attendees |-> r.members, calls |-> n]
                EXCEPT !.phase = q]
              = [chat |-> rows[s].chat, phase |-> q, attendees |-> r.members, calls |-> n]
        OBVIOUS
      <4>3. [was EXCEPT !.calls = n, !.phase = q] = [[was EXCEPT !.calls = n] EXCEPT !.phase = q]
        OBVIOUS
      <4> QED BY <4>1, <4>2, <4>3
    <3> HIDE DEF new, was
    <3> QED BY <3>1, <3>2
  <2> HIDE DEF new, was
  <2>4. Meetings' = [Meetings EXCEPT ![s].calls = Meetings[s].calls + 1, ![s].phase = q]
    <3>1. Meetings[s].calls + 1 = n
      BY <2>1, <2>2 DEF was
    <3> QED BY <1>2, <1>3, <2>2, <2>3, <3>1 DEF Meetings
  <2>5. Meetings[s].phase = "closing"
    BY <2>2 DEF was
  <2>6. Promise!Call(s, q)
    BY <2>4, <2>5 DEF Promise!Call, Meetings
  <2>7. q \in Promise!Phases \ {"open"}
    BY <2>1 DEF Promise!Phases
  <2> QED BY <1>2, <2>6, <2>7 DEF Promise!Next, Meetings
<1>11. CASE Drops(s, r, n)
  <2>1. /\ Meetings[s].phase \notin {"held", "dropped"}
        /\ new = [Meetings[s] EXCEPT !.phase = "dropped"]
    <3>1. rows[s].status \in Status
      BY <1>1, ChangedFacts DEF Row
    <3> QED BY <1>4, <1>11, <3>1, PhaseFacts DEF Drops
  <2>2. Meetings' = [m \in DOMAIN Meetings |->
                       IF m \in {s} THEN [Meetings[m] EXCEPT !.phase = "dropped"] ELSE Meetings[m]]
    BY <1>3, <2>1 DEF Meetings
  <2>3. Promise!Drop({s})
    BY <2>1, <2>2 DEF Promise!Drop, Promise!Ends, Meetings
  <2> QED BY <1>2, <2>3 DEF Promise!Next, Meetings
<1> QED BY <1>6, <1>7, <1>8, <1>9, <1>10, <1>11 DEF Moves

-----------------------------------------------------------------------------
(* Every step under a lock opens a meeting, moves one, or shows nothing.   *)

SessionMoves(c) == \E s, r, n, op : CoroutineStep(c, s, r, n, op)

Quiet ==
  /\ UNCHANGED <<rows, pings>> /\ BudgetShrinks
  /\ \A d \in Chats : lock'[d] = lock[d] \/ lock'[d].pc = "free"

LEMMA SameBudget ==
  ASSUME Consistent, UNCHANGED budget
  PROVE  BudgetShrinks
BY TypeParts DEF BudgetShrinks

LEMMA SpendShrinks ==
  ASSUME Consistent, NEW k \in BudgetKinds, Spend(k)
  PROVE  BudgetShrinks
BY TypeParts DEF BudgetShrinks, Spend

\* A call spends at most what it finds in the budget, and only the call to go is counted.
LEMMA CallEnds ==
  ASSUME Consistent, NEW op, Succeeds(op) \/ Fails(op) \/ Tried(op)
  PROVE  BudgetShrinks /\ (op.pc # "ready" => UNCHANGED pings)
<1>1. "reject" \in BudgetKinds /\ "lost" \in BudgetKinds
  BY DEF BudgetKinds
<1>2. BudgetShrinks
  BY <1>1, SpendShrinks, SameBudget DEF Succeeds, Fails, Tried
<1>3. op.pc # "ready" => PingsAfter(op) = pings
  BY DEF PingsAfter
<1> QED BY <1>2, <1>3 DEF Succeeds, Fails, Tried, TakesEffect

\* Sessions whose number of calls a step leaves alone.
LEMMA SamePings ==
  ASSUME Consistent, NEW s \in DOMAIN rows
  PROVE  /\ rows[s] \in Row /\ pings[s] \in Nat
         /\ pings = [pings EXCEPT ![s] = pings[s]] /\ rows = [rows EXCEPT ![s] = rows[s]]
<1>1. s \in DOMAIN pings
  BY TypeFacts DEF Consistent, References
<1>2. rows[s] \in Row /\ pings[s] \in Nat
  BY <1>1, TypeParts, ElementOfSeq, LenProperties
<1> QED BY <1>1, <1>2, TypeParts, LenProperties

\* A step that writes no row hands the lock to an operation on the same session.
LEMMA StaysPut ==
  ASSUME Consistent, NEW c \in Chats, NEW s \in DOMAIN rows, rows[s].chat = c,
         UNCHANGED rows, UNCHANGED pings, BudgetShrinks,
         NEW op \in Op \cup {NoOp}, lock' = [lock EXCEPT ![c] = op],
         op.pc # "free" => op.sid = s /\ Known(op, rows[s])
  PROVE  SessionMoves(c)
<1>1. Stays(s, rows[s], pings[s])
  BY SamePings DEF Stays, Changed
<1> QED BY <1>1 DEF SessionMoves, CoroutineStep, Moves

\* What a proposal, a tap, a countdown or a recovery waits for is no completion.
LEMMA NotCompleting ==
  /\ \A op, r : HolderMayHave(op.pc) = OpenStatus => Known(op, r)
  /\ \A op, r : op.pc \in Pc \ Completing => Known(op, r)
  /\ \A r : Known(NoOp, r)
  /\ \A r : \A op \in Op : Known(AnnounceOrEnd(op), r) /\ Known(ReplacePin(op), r)
<1>1. "creating" \in OpenStatus /\ "creating" \notin {"active", "completing"}
  BY DEF OpenStatus
<1>2. \A op, r : HolderMayHave(op.pc) = OpenStatus => Known(op, r)
  BY <1>1 DEF HolderMayHave, Known, Completing
<1>3. \A op, r : op.pc = "free" => Known(op, r)
  BY DEF Known, Completing
<1>4. \A op, r : op.pc \in Pc \ Completing => Known(op, r)
  BY DEF Known
<1>5. \A r : Known(NoOp, r)
  BY <1>3 DEF NoOp
<1> QED BY <1>2, <1>3, <1>4, <1>5, AfterCardFacts

LEMMA StartRescheduleMoves ==
  ASSUME Consistent, NEW c \in Chats, StartReschedule(c)
  PROVE  SessionMoves(c)
<1> DEFINE req == Head(queue[c])
<1>1. PICK s \in OpenIn(c) :
        /\ rows' = [rows EXCEPT ![s] = Reschedule(rows[s], req.user, req.time)]
        /\ lock' = [lock EXCEPT ![c] =
             StartedOp(req, s, "card", rows[s], Reschedule(rows[s], req.user, req.time))]
  BY DEF StartReschedule, Hold
<1> DEFINE row == Reschedule(rows[s], req.user, req.time)
           op == StartedOp(req, s, "card", rows[s], row)
<1>2. Acquire(c, {"propose"}) /\ UNCHANGED <<jobs, cards, pings, missed, now, up, budget>>
  BY DEF StartReschedule
<1>3. s \in DOMAIN rows /\ rows[s].chat = c /\ rows[s].status \in OpenStatus
  BY DEF OpenIn
<1>4. rows[s] \in Row /\ s \in Nat /\ pings[s] \in Nat /\ pings = [pings EXCEPT ![s] = pings[s]]
  BY <1>3, TypeFacts, SamePings DEF Consistent
<1>5. req \in Request /\ req.user \in Users /\ req.time \in Nat
  <2>1. req \in Request /\ req.kind = "propose"
    BY <1>2, AcquireFrame, TypeParts
  <2> HIDE DEF req
  <2> QED BY <2>1, RequestFields
<1>6. row \in Row /\ row.chat = c /\ row.status \in OpenStatus
  BY <1>3, <1>4, <1>5, RescheduledRow
<1>7. rows' = [rows EXCEPT ![s] = row] /\ lock' = [lock EXCEPT ![c] = op]
  BY <1>1
<1> HIDE DEF row, req
<1> "card" \in Pc /\ "card" \in Pc \ Completing /\ now \in Nat /\ rows[s] \in Row \cup {NoRow}
  BY <1>4, TypeParts DEF Pc, Completing
<1>8. op \in Op /\ op.sid = s /\ op.pc = "card"
  BY <1>4, <1>5, <1>6, NewOp
<1> HIDE DEF op
<1>9. Attends(s, row, pings[s])
  BY <1>2, <1>3, <1>4, <1>6, <1>7 DEF Attends, Changed
<1>10. Known(op, row) /\ BudgetShrinks
  BY <1>2, <1>8, NotCompleting, SameBudget
<1>11. CoroutineStep(c, s, row, pings[s], op)
  BY <1>3, <1>7, <1>8, <1>9, <1>10 DEF CoroutineStep, Moves
<1> QED BY <1>11 DEF SessionMoves

LEMMA StartTapMoves ==
  ASSUME Consistent, NEW c \in Chats, StartTap(c)
  PROVE  SessionMoves(c) \/ Quiet
<1> DEFINE req == Head(queue[c])
           s == req.sid
           row == IF req.kind = "join" THEN Join(rows[s], req.user) ELSE Leave(rows[s], req.user)
           op == StartedOp(req, s, "card", rows[s], rows[s])
<1>1. /\ Acquire(c, {"join", "leave"}) /\ UNCHANGED <<jobs, cards, pings, missed, now, up, budget>>
      /\ \/ /\ rows[s].status = "active"
            /\ rows' = [rows EXCEPT ![s] = row] /\ lock' = [lock EXCEPT ![c] = op]
         \/ UNCHANGED <<rows, lock>>
  BY DEF StartTap, Hold
<1>2. CASE UNCHANGED <<rows, lock>>
  BY <1>1, <1>2, SameBudget DEF Quiet
<1>3. CASE /\ rows[s].status = "active"
           /\ rows' = [rows EXCEPT ![s] = row] /\ lock' = [lock EXCEPT ![c] = op]
  <2>1. /\ s \in DOMAIN rows /\ s \in Nat /\ rows[s] \in Row /\ rows[s].chat = c
        /\ pings[s] \in Nat /\ pings = [pings EXCEPT ![s] = pings[s]]
    BY <1>1, QueuedSession, SamePings
  <2>2. req \in Request /\ req.user \in Users
    <3>1. req \in Request /\ req.kind \in {"join", "leave"}
      BY <1>1, AcquireFrame, TypeParts
    <3> HIDE DEF req
    <3> QED BY <3>1, RequestFields
  <2>3. row \in Row /\ row.chat = c /\ row.status = "active"
    BY <1>3, <2>1, <2>2, ParticipantRow
  <2> HIDE DEF s, req, row
  <2> "card" \in Pc /\ "card" \in Pc \ Completing /\ now \in Nat /\ rows[s] \in Row \cup {NoRow}
    BY <2>1, TypeParts DEF Pc, Completing
  <2>4. op \in Op /\ op.sid = s /\ op.pc = "card"
    BY <2>1, <2>2, NewOp
  <2> HIDE DEF op
  <2>5. Attends(s, row, pings[s])
    BY <1>1, <1>3, <2>1, <2>3 DEF Attends, Changed, OpenStatus
  <2>6. Known(op, row) /\ BudgetShrinks
    BY <1>1, <2>4, NotCompleting, SameBudget
  <2>7. CoroutineStep(c, s, row, pings[s], op)
    BY <1>3, <2>1, <2>4, <2>5, <2>6 DEF CoroutineStep, Moves
  <2> QED BY <2>7 DEF SessionMoves
<1> QED BY <1>1, <1>2, <1>3

\* A countdown, a recovery or a completion that takes the lock changes only the lock.
LEMMA StartJobMoves ==
  ASSUME Consistent, NEW c \in Chats, StartRefresh(c) \/ StartRecover(c) \/ StartComplete(c)
  PROVE  SessionMoves(c) \/ Quiet
<1> DEFINE req == Head(queue[c])
           s == req.sid
<1>1. /\ Acquire(c, {"refresh", "recover", "complete"}) /\ UNCHANGED <<rows, pings, budget>>
  BY DEF StartRefresh, StartRecover, StartComplete, Acquire
<1>2. \/ UNCHANGED lock
      \/ \E old \in {NoRow, rows[s]} :
            lock' = [lock EXCEPT ![c] = StartedOp(req, s, "card", old, rows[s])]
      \/ /\ rows[s].status \in {"active", "completing"}
         /\ lock' = [lock EXCEPT ![c] = StartedOp(req, s, "unpin", NoRow, rows[s])]
  BY DEF StartRefresh, StartRecover, StartComplete, Hold
<1>3. s \in DOMAIN rows /\ s \in Nat /\ rows[s] \in Row /\ rows[s].chat = c
  BY <1>1, QueuedSession
<1>4. req \in Request
  BY <1>1, AcquireFrame, TypeParts
<1> HIDE DEF s, req
<1>5. BudgetShrinks /\ now \in Nat /\ {"card", "unpin"} \subseteq Pc /\ "card" \in Pc \ Completing
  BY <1>1, SameBudget, TypeParts DEF Pc, Completing
<1>6. CASE UNCHANGED lock
  BY <1>1, <1>5, <1>6 DEF Quiet
<1>7. ASSUME NEW old \in {NoRow, rows[s]},
             lock' = [lock EXCEPT ![c] = StartedOp(req, s, "card", old, rows[s])]
      PROVE  SessionMoves(c)
  <2> DEFINE op == StartedOp(req, s, "card", old, rows[s])
  <2>1. op \in Op /\ op.sid = s /\ op.pc = "card"
    BY <1>3, <1>4, <1>5, NewOp
  <2> HIDE DEF op
  <2>2. Known(op, rows[s]) /\ lock' = [lock EXCEPT ![c] = op]
    BY <1>5, <1>7, <2>1, NotCompleting DEF op
  <2> QED BY <1>1, <1>3, <1>5, <2>1, <2>2, StaysPut
<1>8. ASSUME lock' = [lock EXCEPT ![c] = StartedOp(req, s, "unpin", NoRow, rows[s])]
      PROVE  SessionMoves(c)
  <2> DEFINE op == StartedOp(req, s, "unpin", NoRow, rows[s])
  <2>1. op \in Op /\ op.sid = s /\ op.pc = "unpin"
    BY <1>3, <1>4, <1>5, NewOp
  <2>2. op.cur = rows[s]
    BY DEF StartedOp
  <2> HIDE DEF op
  <2>3. Known(op, rows[s]) /\ lock' = [lock EXCEPT ![c] = op]
    BY <1>8, <2>1, <2>2 DEF op, Known
  <2> QED BY <1>1, <1>3, <1>5, <2>1, <2>3, StaysPut
<1> QED BY <1>2, <1>6, <1>7, <1>8

\* Calls whose result changes no row.
LEMMA ChatterMoves ==
  ASSUME Consistent, NEW c \in Chats, Shout(c) \/ UnpinOld(c) \/ Pin(c) \/ Announce(c)
  PROVE  SessionMoves(c)
<1> DEFINE s == lock[c].sid
           op == lock[c]
<1>1. /\ op.pc \in {"shout", "unpinOld", "pin", "announce"}
      /\ UNCHANGED rows
      /\ UNCHANGED <<pings, budget>> \/ Tried(op)
      /\ \E next \in {[op EXCEPT !.pc = "card"], [op EXCEPT !.pc = "pin"], NoOp, AnnounceOrEnd(op)} :
           lock' = [lock EXCEPT ![c] = next]
  BY DEF Shout, UnpinOld, Pin, Announce, Hold, Release
<1>2. op \in Op /\ s \in DOMAIN rows /\ rows[s].chat = c
  BY <1>1, HolderFacts
<1>3. BudgetShrinks /\ UNCHANGED pings
  BY <1>1, CallEnds, SameBudget
<1>4. /\ \A pc \in {"card", "pin"} : [op EXCEPT !.pc = pc] \in Op
             /\ [op EXCEPT !.pc = pc].sid = s /\ [op EXCEPT !.pc = pc].pc \in Pc \ Completing
      /\ AnnounceOrEnd(op) \in Op \cup {NoOp}
      /\ AnnounceOrEnd(op).pc # "free" => AnnounceOrEnd(op).sid = s
      /\ NoOp.pc = "free"
  <2>1. \A pc \in {"card", "pin"} : pc \in Pc /\ pc \in Pc \ Completing
    BY DEF Pc, Completing
  <2>2. \A pc \in {"card", "pin"} : [op EXCEPT !.pc = pc] \in Op
             /\ [op EXCEPT !.pc = pc].sid = s /\ [op EXCEPT !.pc = pc].pc = pc
    BY <1>2, <2>1, OpAt
  <2>3. NoOp.pc = "free"
    BY DEF NoOp
  <2> HIDE DEF op
  <2> QED BY <1>2, <2>1, <2>2, <2>3, AfterCardFacts
<1>5. ASSUME NEW next, lock' = [lock EXCEPT ![c] = next], next \in Op \cup {NoOp},
             next.pc # "free" => next.sid = s, Known(next, rows[s])
      PROVE  SessionMoves(c)
  BY <1>1, <1>2, <1>3, <1>5, StaysPut
<1> QED BY <1>1, <1>2, <1>4, <1>5, NotCompleting

\* The card is out: a proposal or a recovery opens its session, the rest saves its id.
LEMMA CardPublishedMoves ==
  ASSUME Consistent, NEW c \in Chats, CardPublished(c)
  PROVE  SessionMoves(c)
<1> DEFINE op == lock[c]
           s == op.sid
           saved == UpdateMessage(rows[s], PublishedId(op))
           row == IF op.req.kind \in {"propose", "recover"} THEN Activate(saved) ELSE saved
           worked == [op EXCEPT !.cur = row]
<1>1. /\ op.pc = "card" /\ Succeeds(op)
      /\ rows' = [rows EXCEPT ![s] = row] /\ lock' = [lock EXCEPT ![c] = ReplacePin(worked)]
  BY DEF CardPublished, Hold
<1>2. op \in Op /\ s \in DOMAIN rows /\ s \in Nat /\ rows[s] \in Row /\ rows[s].chat = c
      /\ rows[s].status \in OpenStatus
      /\ pings[s] \in Nat /\ pings = [pings EXCEPT ![s] = pings[s]]
  BY <1>1, HolderFacts, SamePings DEF HolderMayHave
<1>3. saved \in Row /\ saved.chat = c /\ saved.status \in OpenStatus
      /\ saved.members = rows[s].members
  BY <1>2, PublishedFacts, UpdatedRow, TypeParts
<1>4. row \in Row /\ row.chat = c /\ row.status \in OpenStatus /\ row.members = rows[s].members
  BY <1>3, ActivatedRow
<1> HIDE DEF row
<1>5. worked \in Op /\ worked.sid = s
  BY <1>2, <1>4, OpWith
<1>6. UNCHANGED pings /\ BudgetShrinks
  BY <1>1, CallEnds
<1> HIDE DEF worked, s, op
<1>7. Attends(s, row, pings[s])
  BY <1>1, <1>2, <1>4, <1>6 DEF Attends, Changed
<1>8. /\ ReplacePin(worked) \in Op \cup {NoOp} /\ Known(ReplacePin(worked), row)
      /\ ReplacePin(worked).pc # "free" => ReplacePin(worked).sid = s
  BY <1>5, AfterCardFacts, NotCompleting
<1>9. CoroutineStep(c, s, row, pings[s], ReplacePin(worked))
  BY <1>1, <1>2, <1>6, <1>7, <1>8 DEF CoroutineStep, Moves
<1> QED BY <1>9 DEF SessionMoves

\* The card is not out: a new session fails, any other gets its time and people back.
LEMMA CardFailsMoves ==
  ASSUME Consistent, NEW c \in Chats, CardFails(c)
  PROVE  SessionMoves(c)
<1> DEFINE op == lock[c]
           s == op.sid
           row == Compensated(op, rows[s])
<1>1. /\ op.pc = "card" /\ Fails(op)
      /\ rows' = [rows EXCEPT ![s] = row] /\ lock' = [lock EXCEPT ![c] = NoOp]
  BY DEF CardFails, Release, Hold
<1>2. op \in Op /\ s \in DOMAIN rows /\ rows[s] \in Row /\ rows[s].chat = c
      /\ rows[s].status \in OpenStatus
      /\ op.req \in Request /\ op.old \in Row \cup {NoRow}
      /\ pings[s] \in Nat /\ pings = [pings EXCEPT ![s] = pings[s]]
  BY <1>1, HolderFacts, SamePings DEF HolderMayHave
<1>3. \/ row = MarkTerminal(rows[s], "failed")
      \/ row \in Row /\ row.chat = c /\ row.status = rows[s].status
  <2>1. CASE op.req.kind = "recover" \/ op.old = NoRow
    BY <2>1 DEF Compensated
  <2>2. CASE op.req.kind = "propose" /\ op.old # NoRow
    <3> DEFINE back == Reschedule(rows[s], op.old.proposer, op.old.time)
    <3>1. op.old.proposer \in Users /\ op.old.time \in Nat
      BY <1>2, <2>2 DEF Row
    <3>2. op.req.user \in Users
      BY <1>2, <2>2, RequestFields
    <3>3. back \in Row /\ back.chat = c /\ back.status = rows[s].status
      BY <1>2, <3>1, RescheduledRow
    <3>4. /\ Leave(back, op.req.user) \in Row /\ Leave(back, op.req.user).chat = c
          /\ Leave(back, op.req.user).status = rows[s].status
      BY <3>2, <3>3, ParticipantRow
    <3>5. row \in {back, Leave(back, op.req.user)}
      BY <2>2 DEF Compensated
    <3> HIDE DEF row, back
    <3> QED BY <3>3, <3>4, <3>5
  <2>3. CASE op.req.kind \in {"join", "leave"} /\ op.old # NoRow
    <3>1. op.req.user \in Users
      BY <1>2, <2>3, RequestFields
    <3>2. row \in {Join(rows[s], op.req.user), Leave(rows[s], op.req.user)}
      BY <2>3 DEF Compensated
    <3> HIDE DEF row
    <3> QED BY <1>2, <3>1, <3>2, ParticipantRow
  <2>4. CASE op.req.kind \notin {"recover", "propose", "join", "leave"} /\ op.old # NoRow
    BY <1>2, <2>4 DEF Compensated
  <2> QED BY <2>1, <2>2, <2>3, <2>4
<1>4. UNCHANGED pings /\ BudgetShrinks
  BY <1>1, CallEnds
<1>5. Known(NoOp, row) /\ NoOp.pc = "free"
  BY NotCompleting DEF NoOp
<1>6. CASE row = MarkTerminal(rows[s], "failed")
  <2>1. row \in Row /\ row.chat = c /\ row.members = rows[s].members /\ row.status = "failed"
    BY <1>2, <1>6, TerminalRow DEF EndStatus
  <2>2. rows[s].status \notin EndStatus
    BY <1>2 DEF OpenStatus, EndStatus
  <2> HIDE DEF row, op, s
  <2>3. Drops(s, row, pings[s])
    BY <1>1, <1>2, <1>4, <2>1, <2>2 DEF Drops, Changed
  <2> QED BY <1>1, <1>2, <1>4, <1>5, <2>3 DEF SessionMoves, CoroutineStep, Moves
<1>7. CASE row \in Row /\ row.chat = c /\ row.status = rows[s].status
  <2> HIDE DEF row, op, s
  <2>1. Attends(s, row, pings[s])
    BY <1>1, <1>2, <1>4, <1>7 DEF Attends, Changed
  <2> QED BY <1>1, <1>2, <1>4, <1>5, <2>1 DEF SessionMoves, CoroutineStep, Moves
<1> QED BY <1>3, <1>6, <1>7

\* What a completion knows of its session.
LEMMA CompletionFacts ==
  ASSUME Consistent, CompletionIsCurrent, NEW c \in Chats, lock[c].pc \in Completing
  PROVE  /\ lock[c] \in Op /\ lock[c].sid \in DOMAIN rows /\ rows[lock[c].sid] \in Row
         /\ rows[lock[c].sid].chat = c /\ lock[c].cur = rows[lock[c].sid]
         /\ rows[lock[c].sid].status \in {"active", "completing"}
         /\ lock[c].pc # "unpin" => rows[lock[c].sid].status = "completing"
         /\ lock[c].pc = "ready" => rows[lock[c].sid].members # {}
         /\ pings[lock[c].sid] \in Nat
         /\ pings = [pings EXCEPT ![lock[c].sid] = pings[lock[c].sid]]
<1>1. lock[c].pc # "free" /\ HolderMayHave(lock[c].pc) = {"active", "completing"}
  BY DEF Completing, HolderMayHave
<1>2. /\ lock[c].cur = rows[lock[c].sid]
      /\ lock[c].pc # "unpin" => lock[c].cur.status = "completing"
      /\ lock[c].pc = "ready" => lock[c].cur.members # {}
  BY DEF Completing, CompletionIsCurrent
<1> QED BY <1>1, <1>2, HolderFacts, SamePings

LEMMA CompleteUnpinMoves ==
  ASSUME Consistent, CompletionIsCurrent, NEW c \in Chats, CompleteUnpin(c)
  PROVE  SessionMoves(c)
<1> DEFINE op == lock[c]
           s == op.sid
           until == op.cur.time + RETRY_DELAYS[3]
           row == IF op.cur.status = "active" THEN MarkCompleting(rows[s], until) ELSE rows[s]
           next == [op EXCEPT !.pc = "close", !.cur = row]
<1>1. /\ op.pc = "unpin" /\ Tried(op)
      /\ rows' = [rows EXCEPT ![s] = row] /\ lock' = [lock EXCEPT ![c] = next]
  BY DEF CompleteUnpin, Hold
<1>2. /\ op \in Op /\ s \in DOMAIN rows /\ rows[s] \in Row /\ rows[s].chat = c
      /\ op.cur = rows[s] /\ rows[s].status \in {"active", "completing"}
      /\ pings[s] \in Nat /\ pings = [pings EXCEPT ![s] = pings[s]]
  BY <1>1, CompletionFacts DEF Completing
<1>3. UNCHANGED pings /\ BudgetShrinks
  BY <1>1, CallEnds
<1>4. until \in Nat
  BY <1>2 DEF RETRY_DELAYS, Row
<1> HIDE DEF until
<1>5. row \in Row /\ row.chat = c /\ row.status = "completing" /\ row.members = rows[s].members
  BY <1>2, <1>4, CompletingRow
<1> HIDE DEF row
<1>6. next \in Op /\ next.sid = s /\ next.pc = "close" /\ next.cur = row
  BY <1>2, <1>5 DEF Op, Pc
<1> HIDE DEF next, s, op
<1>7. Known(next, row)
  BY <1>5, <1>6 DEF Known
<1>8. Stays(s, row, pings[s]) \/ Closes(s, row, pings[s])
  BY <1>1, <1>2, <1>3, <1>5 DEF Stays, Closes, Changed, OpenStatus
<1> QED BY <1>1, <1>2, <1>3, <1>6, <1>7, <1>8 DEF SessionMoves, CoroutineStep, Moves

LEMMA CompleteCloseMoves ==
  ASSUME Consistent, CompletionIsCurrent, NEW c \in Chats, CompleteClose(c)
  PROVE  SessionMoves(c)
<1> DEFINE op == lock[c]
           s == op.sid
           row == MarkTerminal(rows[s], "completed")
           next == [op EXCEPT !.pc = "ready"]
<1>1. /\ op.pc = "close" /\ Tried(op)
      /\ \/ /\ op.cur.members = {}
            /\ rows' = [rows EXCEPT ![s] = row] /\ lock' = [lock EXCEPT ![c] = NoOp]
         \/ op.cur.members # {} /\ UNCHANGED rows /\ lock' = [lock EXCEPT ![c] = next]
  BY DEF CompleteClose, Hold, Release
<1>2. /\ op \in Op /\ s \in DOMAIN rows /\ rows[s] \in Row /\ rows[s].chat = c
      /\ op.cur = rows[s] /\ rows[s].status = "completing"
      /\ pings[s] \in Nat /\ pings = [pings EXCEPT ![s] = pings[s]]
  BY <1>1, CompletionFacts DEF Completing
<1>3. UNCHANGED pings /\ BudgetShrinks
  BY <1>1, CallEnds
<1>4. /\ row \in Row /\ row.chat = c /\ row.status = "completed" /\ row.members = rows[s].members
      /\ Known(NoOp, row) /\ NoOp.pc = "free"
  BY <1>2, NotCompleting, TerminalRow DEF EndStatus, NoOp
<1>5. next \in Op /\ next.sid = s /\ next.pc = "ready" /\ next.cur = op.cur
  BY <1>2 DEF Op, Pc
<1> HIDE DEF row, next, s, op
<1>6. CASE op.cur.members = {} /\ rows' = [rows EXCEPT ![s] = row] /\ lock' = [lock EXCEPT ![c] = NoOp]
  <2>1. HoldsEmpty(s, row, pings[s])
    BY <1>2, <1>3, <1>4, <1>6 DEF HoldsEmpty, Changed
  <2> QED BY <1>2, <1>3, <1>4, <1>6, <2>1 DEF SessionMoves, CoroutineStep, Moves
<1>7. CASE op.cur.members # {} /\ UNCHANGED rows /\ lock' = [lock EXCEPT ![c] = next]
  <2>1. Known(next, rows[s])
    BY <1>2, <1>5, <1>7 DEF Known
  <2> QED BY <1>2, <1>3, <1>5, <1>7, <2>1, StaysPut
<1> QED BY <1>1, <1>6, <1>7

LEMMA ReadySentMoves ==
  ASSUME Consistent, CompletionIsCurrent, NEW c \in Chats, ReadySent(c)
  PROVE  SessionMoves(c)
<1> DEFINE op == lock[c]
           s == op.sid
           row == MarkTerminal(rows[s], "completed")
<1>1. /\ op.pc = "ready" /\ Succeeds(op)
      /\ rows' = [rows EXCEPT ![s] = row] /\ lock' = [lock EXCEPT ![c] = NoOp]
  BY DEF ReadySent, Hold, Release
<1>2. /\ s \in DOMAIN rows /\ rows[s] \in Row /\ rows[s].chat = c
      /\ rows[s].status = "completing" /\ pings[s] \in Nat
  BY <1>1, CompletionFacts DEF Completing
<1>3. pings' = [pings EXCEPT ![s] = pings[s] + 1] /\ BudgetShrinks
  <2>1. PingsAfter(op) = [pings EXCEPT ![s] = pings[s] + 1]
    BY <1>1 DEF PingsAfter
  <2> QED BY <1>1, <2>1, CallEnds DEF Succeeds, TakesEffect
<1>4. /\ row \in Row /\ row.chat = c /\ row.status = "completed" /\ row.members = rows[s].members
      /\ Known(NoOp, row) /\ NoOp.pc = "free"
  BY <1>2, NotCompleting, TerminalRow DEF EndStatus, NoOp
<1> HIDE DEF row, s, op
<1>5. Calls(s, row, pings[s] + 1)
  BY <1>1, <1>2, <1>3, <1>4 DEF Calls, Changed
<1> QED BY <1>1, <1>2, <1>3, <1>4, <1>5 DEF SessionMoves, CoroutineStep, Moves

LEMMA ReadyFailsMoves ==
  ASSUME Consistent, CompletionIsCurrent, NEW c \in Chats, ReadyFails(c)
  PROVE  SessionMoves(c)
<1> DEFINE op == lock[c]
           s == op.sid
           attempts == op.cur.attempts + 1
           next == Latest(op.cur.time + RETRY_DELAYS[attempts], op.since)
           row == IF attempts > Len(RETRY_DELAYS) THEN MarkTerminal(rows[s], "failed")
                  ELSE MarkRetry(rows[s], attempts, next)
<1>1. /\ op.pc = "ready" /\ Fails(op)
      /\ rows' = [rows EXCEPT ![s] = row] /\ lock' = [lock EXCEPT ![c] = NoOp]
  BY DEF ReadyFails, Hold, Release
<1>2. /\ s \in DOMAIN rows /\ rows[s] \in Row /\ rows[s].chat = c
      /\ op \in Op /\ op.cur = rows[s] /\ rows[s].status = "completing"
      /\ pings[s] \in Nat /\ pings = [pings EXCEPT ![s] = pings[s]]
  BY <1>1, CompletionFacts DEF Completing
<1>3. /\ attempts \in Nat /\ (~(attempts > Len(RETRY_DELAYS)) => next \in Nat)
  <2>1. op.cur.time \in Nat /\ op.cur.attempts \in Nat /\ op.since \in Nat
    BY <1>2 DEF Op, Row
  <2>2. Len(RETRY_DELAYS) = 3 /\ \A i \in 1..3 : RETRY_DELAYS[i] \in Nat
    BY DEF RETRY_DELAYS
  <2> QED BY <2>1, <2>2 DEF Latest
<1> HIDE DEF attempts, next
<1>4. /\ row \in Row /\ row.chat = c /\ row.members = rows[s].members
      /\ row.status \in {"completing", "failed"}
  <2> HIDE DEF s, op
  <2>1. CASE attempts > Len(RETRY_DELAYS)
    BY <1>2, <2>1, TerminalRow DEF EndStatus
  <2>2. CASE ~(attempts > Len(RETRY_DELAYS))
    <3>1. row = MarkRetry(rows[s], attempts, next) /\ next \in Nat
      BY <1>3, <2>2
    <3> HIDE DEF row
    <3> QED BY <1>2, <1>3, <3>1, RetryRow
  <2> QED BY <2>1, <2>2
<1>5. \/ pings' = pings
      \/ /\ pings' = [pings EXCEPT ![s] = pings[s] + 1]
         /\ budget' = [budget EXCEPT !["lost"] = @ - 1]
  <2>1. PingsAfter(op) = [pings EXCEPT ![s] = pings[s] + 1]
    BY <1>1 DEF PingsAfter
  <2> QED BY <1>1, <2>1 DEF Fails, Spend, TakesEffect
<1>6. BudgetShrinks /\ Known(NoOp, row) /\ NoOp.pc = "free"
  BY <1>1, CallEnds, NotCompleting DEF NoOp
<1> HIDE DEF row, s, op
<1>7. CASE pings' = pings
  <2>1. CASE row.status = "completing"
    <3>1. Stays(s, row, pings[s])
      BY <1>1, <1>2, <1>4, <1>7, <2>1 DEF Stays, Changed
    <3> QED BY <1>1, <1>2, <1>4, <1>6, <3>1 DEF SessionMoves, CoroutineStep, Moves
  <2>2. CASE row.status = "failed"
    <3>1. Drops(s, row, pings[s])
      BY <1>1, <1>2, <1>4, <1>7, <2>2 DEF Drops, Changed, EndStatus
    <3> QED BY <1>1, <1>2, <1>4, <1>6, <3>1 DEF SessionMoves, CoroutineStep, Moves
  <2> QED BY <1>4, <2>1, <2>2
<1>8. CASE /\ pings' = [pings EXCEPT ![s] = pings[s] + 1]
           /\ budget' = [budget EXCEPT !["lost"] = @ - 1]
  <2>1. Calls(s, row, pings[s] + 1)
    BY <1>1, <1>2, <1>4, <1>8 DEF Calls, Changed
  <2> QED BY <1>1, <1>2, <1>4, <1>6, <2>1 DEF SessionMoves, CoroutineStep, Moves
<1> QED BY <1>5, <1>7, <1>8

LEMMA LockStepMoves ==
  ASSUME Consistent, CompletionIsCurrent, NEW c \in Chats, LockStep(c)
  PROVE  StartNew(c) \/ SessionMoves(c) \/ Quiet
BY StartRescheduleMoves, StartTapMoves, StartJobMoves, ChatterMoves, CardPublishedMoves,
   CardFailsMoves, CompleteUnpinMoves, CompleteCloseMoves, ReadySentMoves, ReadyFailsMoves
   DEF LockStep

-----------------------------------------------------------------------------
(* The steps that are no coroutine's.                                      *)

LEMMA QuietFrame ==
  ASSUME PromiseInv, Quiet
  PROVE  CompletionIsCurrent' /\ CallsAccounted' /\ CompletedMeansCalled' /\ UNCHANGED Meetings
<1> USE DEF PromiseInv, IInv, Quiet
<1>1. CompletionIsCurrent'
  BY DEF CompletionIsCurrent
<1>2. CallsAccounted'
  <2>1. \A s \in DOMAIN rows :
          pings[s] <= Spent("lost") + Spent("crash")
                        + (IF rows[s].status = "completed" THEN 1 ELSE 0)
    BY DEF CallsAccounted
  <2>2. \A s \in DOMAIN rows : pings[s] \in Nat
    BY SamePings
  <2> QED BY <2>1, <2>2, SpentGrows DEF CallsAccounted
<1>3. CompletedMeansCalled'
  BY DEF CompletedMeansCalled
<1>4. UNCHANGED Meetings
  BY DEF Meetings, MeetingOf
<1> QED BY <1>1, <1>2, <1>3, <1>4

LEMMA StartNewFrame ==
  ASSUME PromiseInv, NEW c \in Chats, StartNew(c)
  PROVE  CompletionIsCurrent' /\ CallsAccounted' /\ CompletedMeansCalled' /\ Promise!Next
<1> USE DEF PromiseInv, IInv
<1> PICK s : s = Len(rows) + 1
  OBVIOUS
<1> DEFINE req == Head(queue[c])
           row == Create(c, req.user, req.time)
<1>1. /\ Acquire(c, {"propose"}) /\ OpenIn(c) = {}
      /\ rows' = Append(rows, row) /\ pings' = Append(pings, 0)
      /\ lock' = [lock EXCEPT ![c] = StartedOp(req, s, "shout", NoRow, row)]
      /\ UNCHANGED budget
  BY Zenon DEF StartNew, Hold
<1>2. req.user \in Users /\ req.time \in Nat
  <2>1. req \in Request /\ req.kind = "propose"
    BY <1>1, AcquireFrame, TypeParts
  <2> HIDE DEF req
  <2> QED BY <2>1, RequestFields
<1>3. row \in Row /\ row.chat = c /\ row.status = "creating" /\ row.members = {req.user}
  BY <1>2, NewRow DEF Create
<1>4. /\ Len(rows) \in Nat /\ DOMAIN rows = 1..Len(rows)
      /\ Len(pings) = Len(rows) /\ DOMAIN pings = 1..Len(rows)
      /\ rows \in Seq(Row) /\ pings \in Seq(Nat)
  BY TypeFacts, TypeParts DEF Consistent, References
<1> HIDE DEF row
<1>5. /\ DOMAIN rows' = 1..s /\ Len(rows') = s /\ rows'[s] = row
      /\ \A t \in DOMAIN rows : rows'[t] = rows[t]
      /\ pings'[s] = 0 /\ \A t \in DOMAIN rows : pings'[t] = pings[t]
  BY <1>1, <1>3, <1>4, SeqAppend
<1>6. \A t \in 1..s : t = s \/ t \in DOMAIN rows
  BY <1>4
<1>7. CompletionIsCurrent'
  <2> SUFFICES ASSUME NEW d \in Chats, lock'[d].pc \in Completing
               PROVE  /\ lock'[d].cur = rows'[lock'[d].sid]
                      /\ lock'[d].pc # "unpin" => lock'[d].cur.status = "completing"
                      /\ lock'[d].pc = "ready" => lock'[d].cur.members # {}
    BY DEF CompletionIsCurrent, Completing
  <2>1. lock'[d] = lock[d]
    BY <1>1, TypeParts DEF StartedOp, Completing
  <2>2. lock[d].sid \in DOMAIN rows
    BY <2>1, CompletionFacts
  <2> QED BY <1>5, <2>1, <2>2 DEF CompletionIsCurrent, Completing
<1>8. CallsAccounted'
  <2>1. BudgetShrinks
    BY <1>1, SameBudget
  <2>2. ASSUME NEW t \in 1..s
        PROVE  pings'[t] <= Spent("lost")' + Spent("crash")'
                              + (IF rows'[t].status = "completed" THEN 1 ELSE 0)
    <3>1. CASE t = s
      BY <1>5, <2>1, <3>1, SpentGrows
    <3>2. CASE t \in DOMAIN rows
      <4>1. pings[t] <= Spent("lost") + Spent("crash")
                          + (IF rows[t].status = "completed" THEN 1 ELSE 0)
        BY <3>2 DEF CallsAccounted
      <4> QED BY <1>5, <2>1, <3>2, <4>1, SpentGrows, SamePings
    <3> QED BY <1>6, <3>1, <3>2
  <2> QED BY <1>5, <2>1, <2>2, SpentGrows DEF CallsAccounted
<1>9. CompletedMeansCalled'
  BY <1>3, <1>5, <1>6 DEF CompletedMeansCalled
<1>10. Promise!Propose(c, req.user)
  <2>1. Meetings' = Append(Meetings, [chat |-> c, phase |-> "open", attendees |-> {req.user}, calls |-> 0])
    <3> DEFINE new == [chat |-> c, phase |-> "open", attendees |-> {req.user}, calls |-> 0]
    <3>1. MeetingOf(s)' = new
      BY <1>3, <1>5, PhaseFacts DEF MeetingOf, OpenStatus
    <3>2. \A t \in DOMAIN rows : MeetingOf(t)' = MeetingOf(t)
      BY <1>5 DEF MeetingOf
    <3>3. Meetings' = [t \in 1..s |-> MeetingOf(t)']
      BY <1>5 DEF Meetings
    <3>4. \A t \in DOMAIN rows : MeetingOf(t)' = Meetings[t]
      BY <1>4, <3>2 DEF Meetings
    <3> HIDE DEF new
    <3>5. Meetings' = [t \in 1..s |-> IF t = s THEN new ELSE Meetings[t]]
      BY <1>6, <3>1, <3>3, <3>4
    <3>6. Len(Meetings) = Len(rows)
      <4>1. Meetings \in Seq({MeetingOf(t) : t \in 1..Len(rows)})
        BY <1>4 DEF Meetings
      <4> QED BY <1>4, <4>1, LenProperties DEF Meetings
    <3> QED BY <1>4, <3>5, <3>6 DEF new
  <2>2. \A t \in DOMAIN Meetings : Meetings[t].chat = c => Meetings[t].phase # "open"
    <3>1. \A t \in DOMAIN rows : rows[t].chat = c => rows[t].status \in Status \ OpenStatus
      <4>1. \A t \in DOMAIN rows : rows[t] \in Row
        BY TypeFacts DEF Consistent
      <4>2. \A t \in DOMAIN rows : rows[t].chat = c => rows[t].status \notin OpenStatus
        BY <1>1 DEF OpenIn
      <4> QED BY <4>1, <4>2 DEF Row
    <3>2. \A st \in Status \ OpenStatus : PhaseOf(st) # "open"
      BY PhaseFacts DEF Status, OpenStatus, EndStatus
    <3> QED BY <1>4, <3>1, <3>2 DEF Meetings, MeetingOf
  <2> QED BY <2>1, <2>2 DEF Promise!Propose, Meetings
<1> QED BY <1>2, <1>7, <1>8, <1>9, <1>10 DEF Promise!Next

\* A crash may come after the call to go reached the chat and before the bot knows.
LEMMA CrashFrame ==
  ASSUME PromiseInv, Crash
  PROVE  /\ CompletionIsCurrent' /\ CallsAccounted' /\ CompletedMeansCalled'
         /\ Promise!Next \/ UNCHANGED Meetings
<1> USE DEF PromiseInv, IInv
<1>1. /\ Spend("crash") /\ UNCHANGED rows /\ lock' = [c \in Chats |-> NoOp]
      /\ UNCHANGED pings \/ \E c \in Chats : Busy(c) /\ TakesEffect(lock[c])
  BY DEF Crash
<1>2. BudgetShrinks /\ budget' = [budget EXCEPT !["crash"] = @ - 1]
  BY <1>1, TypeParts DEF BudgetShrinks, Spend, BudgetKinds
<1>3. \A d \in Chats : lock'[d].pc = "free"
  BY <1>1 DEF NoOp
<1>4. CASE UNCHANGED pings
  <2>1. Quiet
    BY <1>1, <1>2, <1>3, <1>4 DEF Quiet
  <2> QED BY <2>1, QuietFrame
<1>5. ASSUME NEW c \in Chats, Busy(c), TakesEffect(lock[c]), ~UNCHANGED pings
      PROVE  /\ CompletionIsCurrent' /\ CallsAccounted' /\ CompletedMeansCalled'
             /\ Promise!Next \/ UNCHANGED Meetings
  <2> DEFINE s == lock[c].sid
  <2>1. lock[c].pc = "ready" /\ pings' = [pings EXCEPT ![s] = pings[s] + 1]
    BY <1>5 DEF TakesEffect, PingsAfter
  <2>2. /\ s \in DOMAIN rows /\ rows[s] \in Row /\ rows[s].status = "completing"
        /\ pings[s] \in Nat /\ rows = [rows EXCEPT ![s] = rows[s]]
    BY <2>1, CompletionFacts, SamePings DEF Completing
  <2>3. Calls(s, rows[s], pings[s] + 1)
    BY <1>1, <1>2, <2>1, <2>2 DEF Calls, Changed
  <2>4. Moves(s, rows[s], pings[s] + 1)
    BY <2>3 DEF Moves
  <2>5. CompletionIsCurrent'
    BY <1>3 DEF CompletionIsCurrent
  <2> QED BY <1>2, <2>4, <2>5, AccountsFrame, MeetingFrame
<1> QED BY <1>1, <1>4, <1>5

\* A restart gives up the sessions it finds too late, and touches no other.
LEMMA RestartFrame ==
  ASSUME PromiseInv, Restart
  PROVE  CompletionIsCurrent' /\ CallsAccounted' /\ CompletedMeansCalled' /\ Promise!Next
<1> USE DEF PromiseInv, IInv
<1>1. /\ ~up /\ rows' = [s \in DOMAIN rows |-> RestoredRow(rows[s])]
      /\ UNCHANGED <<lock, pings>>
      /\ UNCHANGED budget \/ Spend("reject")
  BY DEF Restart
<1>2. BudgetShrinks
  BY <1>1, SpendShrinks, SameBudget DEF BudgetKinds
<1>3. \A c \in Chats : lock'[c].pc = "free"
  BY <1>1 DEF StoppedIsEmpty, Busy
<1>4. /\ DOMAIN rows = 1..Len(rows) /\ Len(rows) \in Nat
      /\ \A s \in DOMAIN rows : rows[s] \in Row /\ pings[s] \in Nat
  BY TypeFacts, SamePings DEF Consistent
<1>5. ASSUME NEW s \in DOMAIN rows
      PROVE  \/ rows'[s] = rows[s]
             \/ /\ rows[s].status \notin EndStatus
                /\ rows'[s].status \in {"failed", "expired"}
                /\ rows'[s].chat = rows[s].chat /\ rows'[s].members = rows[s].members
  <2>1. \A st \in {"failed", "expired"} :
          /\ MarkTerminal(rows[s], st).status = st
          /\ MarkTerminal(rows[s], st).chat = rows[s].chat
          /\ MarkTerminal(rows[s], st).members = rows[s].members
    BY <1>4, TerminalRow DEF EndStatus
  <2>2. \/ RestoredRow(rows[s]) = rows[s]
        \/ /\ rows[s].status \in OpenStatus \cup {"completing"}
           /\ \E st \in {"failed", "expired"} : RestoredRow(rows[s]) = MarkTerminal(rows[s], st)
    BY DEF RestoredRow
  <2>3. \A st \in OpenStatus \cup {"completing"} : st \notin EndStatus
    BY DEF OpenStatus, EndStatus
  <2> QED BY <1>1, <2>1, <2>2, <2>3
<1>6. DOMAIN rows' = DOMAIN rows /\ Len(rows') = Len(rows)
  BY <1>1, <1>4
<1>7. CompletionIsCurrent'
  BY <1>3 DEF CompletionIsCurrent
<1>8. CallsAccounted'
  <2>1. ASSUME NEW s \in DOMAIN rows
        PROVE  pings'[s] <= Spent("lost")' + Spent("crash")'
                              + (IF rows'[s].status = "completed" THEN 1 ELSE 0)
    <3>1. pings[s] <= Spent("lost") + Spent("crash")
                        + (IF rows[s].status = "completed" THEN 1 ELSE 0)
      BY DEF CallsAccounted
    <3>2. rows'[s].status = "completed" <=> rows[s].status = "completed"
      BY <1>5 DEF EndStatus
    <3> QED BY <1>1, <1>2, <1>4, <3>1, <3>2, SpentGrows
  <2> QED BY <1>2, <1>6, <2>1, SpentGrows DEF CallsAccounted
<1>9. CompletedMeansCalled'
  BY <1>1, <1>5, <1>6 DEF CompletedMeansCalled
<1> DEFINE dropped == {s \in DOMAIN rows : rows'[s] # rows[s]}
<1>10. Promise!Drop(dropped)
  <2>1. \A s \in DOMAIN Meetings : s \in DOMAIN rows
    BY <1>4 DEF Meetings
  <2>2. \A s \in dropped : Meetings[s].phase \notin {"held", "dropped"}
    <3>1. \A s \in dropped : rows[s].status \in Status \ EndStatus
      BY <1>4, <1>5 DEF Row
    <3>2. \A st \in Status \ EndStatus : PhaseOf(st) \notin {"held", "dropped"}
      BY PhaseFacts
    <3> QED BY <1>4, <3>1, <3>2 DEF Meetings, MeetingOf
  <2>3. ASSUME NEW s \in DOMAIN Meetings
        PROVE  MeetingOf(s)' = IF s \in dropped THEN [Meetings[s] EXCEPT !.phase = "dropped"]
                               ELSE Meetings[s]
    <3>1. s \in DOMAIN rows /\ Meetings[s] = MeetingOf(s)
      BY <2>1 DEF Meetings
    <3>2. CASE s \in dropped
      <4>1. PhaseOf(rows'[s].status) = "dropped"
        BY <1>5, <3>1, <3>2, PhaseFacts
      <4>2. rows'[s].chat = rows[s].chat /\ rows'[s].members = rows[s].members
        BY <1>5, <3>1
      <4> QED BY <1>1, <3>1, <3>2, <4>1, <4>2 DEF MeetingOf
    <3>3. CASE s \notin dropped
      BY <1>1, <3>1, <3>3 DEF MeetingOf
    <3> QED BY <3>2, <3>3
  <2> HIDE DEF dropped
  <2>4. Meetings' = [s \in DOMAIN Meetings |->
                       IF s \in dropped THEN [Meetings[s] EXCEPT !.phase = "dropped"] ELSE Meetings[s]]
    <3>1. Meetings' = [s \in 1..Len(rows) |-> MeetingOf(s)'] /\ DOMAIN Meetings = 1..Len(rows)
      BY <1>6 DEF Meetings
    <3> QED BY <2>3, <3>1
  <2> QED BY <2>2, <2>4 DEF Promise!Drop, Promise!Ends, Meetings
<1>11. dropped \in SUBSET DOMAIN Meetings
  BY <1>4 DEF Meetings
<1> QED BY <1>7, <1>8, <1>9, <1>10, <1>11 DEF Promise!Next, Meetings

LEMMA OtherStepsQuiet ==
  ASSUME PromiseInv,
         \/ \E j \in jobs : FireJob(j) \/ DiscardJob(j)
         \/ \E c \in Chats, u \in Users, t \in 1..Horizon : ProposeCommand(c, u, t)
         \/ \E s \in DOMAIN rows, u \in Users, a \in {"join", "leave"} : Tap(s, u, a)
         \/ \E m \in DOMAIN cards : DeleteCard(m)
         \/ Tick \/ Idle \/ UNCHANGED vars
  PROVE  Quiet
<1>1. Consistent
  BY DEF PromiseInv, IInv
<1>2. UNCHANGED <<rows, pings, lock>>
      /\ (UNCHANGED budget \/ \E k \in {"command", "tap", "delete"} : Spend(k))
  BY DEF FireJob, DiscardJob, ProposeCommand, Tap, DeleteCard, Tick, Idle, vars
<1>3. BudgetShrinks
  BY <1>1, <1>2, SpendShrinks, SameBudget DEF BudgetKinds
<1> QED BY <1>2, <1>3 DEF Quiet

LEMMA PromiseStep ==
  ASSUME PromiseInv, [Next]_vars
  PROVE  /\ CompletionIsCurrent' /\ CallsAccounted' /\ CompletedMeansCalled'
         /\ Promise!Next \/ UNCHANGED Meetings
<1>1. Consistent /\ CompletionIsCurrent /\ CallsAccounted /\ CompletedMeansCalled
  BY DEF PromiseInv, IInv
<1>2. ASSUME NEW c \in Chats, NEW s, NEW r, NEW n, NEW op, CoroutineStep(c, s, r, n, op)
      PROVE  /\ CompletionIsCurrent' /\ CallsAccounted' /\ CompletedMeansCalled'
             /\ Promise!Next \/ UNCHANGED Meetings
  <2>1. Moves(s, r, n) /\ BudgetShrinks
    BY <1>2 DEF CoroutineStep
  <2> QED BY <1>1, <1>2, <2>1, KnowsFrame, AccountsFrame, MeetingFrame
<1>3. CASE \E c \in Chats : LockStep(c)
  BY <1>1, <1>2, <1>3, LockStepMoves, StartNewFrame, QuietFrame DEF SessionMoves
<1>4. CASE Restart \/ Crash
  BY <1>4, RestartFrame, CrashFrame
<1>5. CASE Quiet
  BY <1>5, QuietFrame
<1> QED BY <1>3, <1>4, <1>5, OtherStepsQuiet DEF Next, SystemStep, EnvironmentStep

\* A completion knows the row it works on, each call is paid for, and a meeting is
\* completed only after its call: in every reachable state.
THEOREM PromiseInvariant == Spec => []PromiseInv
<1>1. Init => PromiseInv
  <2>1. Init => CompletionIsCurrent
    BY DEF Init, CompletionIsCurrent, NoOp
  <2>2. Init => CallsAccounted /\ CompletedMeansCalled
    BY BudgetAssumption DEF Init, CallsAccounted, CompletedMeansCalled
  <2> QED BY <2>1, <2>2, InitIInv DEF PromiseInv
<1>2. PromiseInv /\ [Next]_vars => PromiseInv'
  <2> SUFFICES ASSUME PromiseInv, [Next]_vars PROVE PromiseInv'
    OBVIOUS
  <2>1. IInv'
    BY ConsistentStep, StoppedStep DEF PromiseInv, IInv
  <2> QED BY <2>1, PromiseStep DEF PromiseInv
<1> QED BY <1>1, <1>2, PTL DEF Spec

\* The participants of a meeting are called once, and once more at most for every
\* answer of Telegram that got lost and every crash.
THEOREM CallsBounded == Spec => []CalledAtMostOnce
<1>1. PromiseInv => CalledAtMostOnce
  <2> SUFFICES ASSUME PromiseInv, NEW s \in DOMAIN rows
               PROVE  pings[s] <= 1 + Spent("lost") + Spent("crash")
    BY DEF CalledAtMostOnce
  <2>1. pings[s] <= Spent("lost") + Spent("crash")
                      + (IF rows[s].status = "completed" THEN 1 ELSE 0)
    BY DEF PromiseInv, CallsAccounted
  <2>2. /\ budget \in [BudgetKinds -> Nat] /\ Budget \in [BudgetKinds -> Nat]
        /\ {"lost", "crash"} \subseteq BudgetKinds /\ pings[s] \in Nat
    BY TypeParts, SamePings, BudgetAssumption DEF BudgetKinds, PromiseInv, IInv
  <2>3. Spent("lost") \in Int /\ Spent("crash") \in Int
    BY <2>2 DEF Spent
  <2> QED BY <2>1, <2>2, <2>3
<1> QED BY <1>1, PromiseInvariant, PTL

\* A completed meeting with participants has been called.
THEOREM CompletionsCalled == Spec => []CompletedMeansCalled
<1>1. PromiseInv => CompletedMeansCalled
  BY DEF PromiseInv
<1> QED BY <1>1, PromiseInvariant, PTL

\* The bot with its locks, jobs, retries, crashes and restarts does only what
\* CoffeeMeeting allows: a chat has one open meeting, closed ones keep their attendees,
\* ends are final, and nobody's meeting is held without a call.
THEOREM SessionsImplementMeetings == Spec => KeepsPromise
<1>1. Init => Promise!Init
  BY DEF Init, Promise!Init
<1>2. PromiseInv /\ [Next]_vars => [Promise!Next]_Meetings
  BY PromiseStep
<1>3. PromiseInv /\ [Next]_vars => [Promise!Next]_([s \in 1..Len(rows) |-> MeetingOf(s)])
  BY <1>2 DEF Meetings
<1> QED BY <1>1, <1>3, PromiseInvariant, PTL DEF Spec, KeepsPromise, Promise!Spec
=============================================================================
