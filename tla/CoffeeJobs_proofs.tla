-------------------------- MODULE CoffeeJobs_proofs --------------------------
(***************************************************************************)
(* The jobs of coffee meetings, for all chats, users, bounds and budgets:  *)
(* no meeting is forgotten, and none is completed by a job that is due     *)
(* before its time.                                                        *)
(***************************************************************************)
EXTENDS CoffeeSession_proofs

\* The operation op, which holds a lock, and the row r of its session.  What op read of the
\* row is still so; what it wrote before its card is out is known from the row before, old;
\* and each kind of operation awaits the calls of its own kind.
WroteRow(op, r) ==
  LET u == op.req.user IN
  CASE op.req.kind = "propose" -> r = Reschedule(op.old, u, op.req.time)
    [] op.req.kind = "join" -> r = Join(op.old, u) /\ u \notin op.old.members
    [] op.req.kind = "leave" -> r = Leave(op.old, u) /\ u \in op.old.members
    [] OTHER -> r = op.old /\ op.req.kind = "refresh"

Completion == {"unpin", "close", "ready"}

Fits(op, r) ==
  /\ op.cur.msg = r.msg /\ op.cur.time = r.time /\ op.cur.chat = r.chat
  /\ op.pc \in Completion <=> op.req.kind = "complete"
  /\ op.pc \in Completion => op.cur = r /\ (op.pc # "unpin" => r.status = "completing")
  /\ op.req.kind = "recover" => op.old = NoRow /\ op.pc \in {"card", "pin"}
  /\ op.pc = "shout" => op.old = NoRow
  /\ op.pc \in {"shout", "card"} /\ op.old = NoRow =>
       r.status = "creating" /\ op.req.kind \in {"propose", "recover"}
  /\ op.pc = "card" /\ op.old # NoRow => WroteRow(op, r)
  /\ op.pc \in {"unpinOld", "pin", "announce"} => r.status = "active"
  /\ op.req.kind \in {"join", "leave", "refresh"} => r.status = "active"

HoldersFit == \A c \in Chats : Busy(c) => Fits(lock[c], rows[lock[c].sid])

\* Faults are counted for good, and a bot that is down has crashed.
Counted ==
  /\ \A k \in BudgetKinds : budget[k] <= Budget[k]
  /\ ~up => Spent("crash") > 0

-----------------------------------------------------------------------------
(* Jobs.                                                                   *)

\* The kind of job that takes a session of status st further.
KindFor(st) == IF st = "creating" THEN "recover" ELSE "complete"

Stored(s) == \E j \in jobs : j.sid = s /\ j.kind = KindFor(rows[s].status)

WaitsFor(q, kind, s) == \E i \in DOMAIN q : q[i].kind = kind /\ q[i].sid = s

Waits(s) == WaitsFor(queue[rows[s].chat], KindFor(rows[s].status), s)

\* The operation op will end session s, or give it a job: a completion, a recovery, and the
\* proposal that created it until its card is out.
Carries(op, s) ==
  /\ op.pc # "free" /\ op.sid = s
  /\ \/ op.req.kind \in {"complete", "recover"}
     \/ op.pc \in {"shout", "card"} /\ op.old = NoRow

\* NoMeetingForgotten, with the kind of job that the status needs.
Cared(s) ==
  Ended(s) \/ s \in missed \/ Stored(s) \/ Waits(s) \/ Carries(lock[rows[s].chat], s)

NoneForgotten == up => \A s \in DOMAIN rows : Cared(s)

\* The row of s as it was before the operation that is about to publish its card.
Reschedules(op, s) == op.pc = "card" /\ op.sid = s /\ op.old # NoRow

Before(s) ==
  LET op == lock[rows[s].chat] IN IF Reschedules(op, s) THEN op.old ELSE rows[s]

\* JobNotBeforeMeeting in every state: while a new time is not yet announced the job has the
\* old one; a session in creation has no such job.
JobOnTime(s) ==
  \A j \in jobs : j.sid = s /\ j.kind = "complete" =>
    /\ rows[s].status # "creating"
    /\ rows[s].status = "active" =>
         j.at = Before(s).time \/ (j.at > Before(s).time /\ Spent("crash") > 0)

JobsOnTime == \A s \in DOMAIN rows : JobOnTime(s)

JobsInv == IInv /\ HoldersFit /\ Counted /\ NoneForgotten /\ JobsOnTime

-----------------------------------------------------------------------------
(* The shape of a step under a lock: session s of chat c gets the row r,   *)
(* and the lock goes to op.                                                *)

Step(c, s, r, op) ==
  /\ s \in DOMAIN rows /\ s \in Nat /\ rows[s] \in Row /\ rows[s].chat = c
  /\ r \in Row /\ r.chat = c
  /\ rows' = [rows EXCEPT ![s] = r]
  /\ op \in Op \cup {NoOp} /\ lock' = [lock EXCEPT ![c] = op]
  /\ op.pc # "free" => op.sid = s /\ Fits(op, r)
  /\ Busy(c) => lock[c].sid = s

LEMMA RowNotNone == ASSUME NEW r \in Row PROVE r # NoRow
BY DEF Row, NoRow, Status, OpenStatus, EndStatus

LEMMA StepFacts ==
  ASSUME Consistent, NEW c \in Chats, NEW s, NEW r, NEW op, Step(c, s, r, op)
  PROVE  /\ DOMAIN rows' = DOMAIN rows
         /\ rows'[s] = r /\ \A t \in DOMAIN rows : t # s => rows'[t] = rows[t]
         /\ lock'[c] = op /\ \A d \in Chats : d # c => lock'[d] = lock[d]
         /\ \A t \in DOMAIN rows : rows[t].chat \in Chats /\ rows'[t].chat = rows[t].chat
         /\ \A d \in Chats : d # c /\ Busy(d) => lock[d].sid \in DOMAIN rows \ {s}
<1>1. rows \in Seq(Row) /\ lock \in [Chats -> Op \cup {NoOp}]
  BY TypeParts
<1>2. s \in DOMAIN rows /\ r \in Row /\ r.chat = c /\ rows[s].chat = c
      /\ rows' = [rows EXCEPT ![s] = r] /\ lock' = [lock EXCEPT ![c] = op]
  BY DEF Step
<1>3. DOMAIN rows' = DOMAIN rows /\ \A t \in DOMAIN rows : rows'[t] = IF t = s THEN r ELSE rows[t]
  BY <1>1, <1>2, SeqUpdate
<1>4. \A t \in DOMAIN rows : rows[t].chat \in Chats
  BY TypeFacts, TypeParts DEF Row
<1>5. \A d \in Chats : d # c /\ Busy(d) => lock[d].sid \in DOMAIN rows \ {s}
  BY <1>2 DEF Consistent, LockProtects
<1> QED BY <1>1, <1>2, <1>3, <1>4, <1>5

LEMMA HoldersFrame ==
  ASSUME Consistent, HoldersFit, NEW c \in Chats, NEW s, NEW r, NEW op, Step(c, s, r, op)
  PROVE  HoldersFit'
<1> SUFFICES ASSUME NEW d \in Chats, lock'[d].pc # "free"
             PROVE  Fits(lock'[d], rows'[lock'[d].sid])
  BY DEF HoldersFit, Busy
<1>1. CASE d = c
  <2>1. lock'[d] = op /\ rows'[s] = r
    BY <1>1, StepFacts
  <2>2. op.sid = s /\ Fits(op, r)
    BY <2>1 DEF Step
  <2> QED BY <2>1, <2>2
<1>2. CASE d # c
  <2>1. lock'[d] = lock[d] /\ lock[d].sid \in DOMAIN rows \ {s} /\ Fits(lock[d], rows[lock[d].sid])
    BY <1>2, StepFacts DEF HoldersFit, Busy
  <2>2. rows'[lock[d].sid] = rows[lock[d].sid]
    BY <2>1, StepFacts
  <2> QED BY <2>1, <2>2
<1> QED BY <1>1, <1>2

-----------------------------------------------------------------------------
(* The operations that take a lock.                                        *)

LEMMA StartedFields ==
  ASSUME NEW req, NEW s, NEW pc, NEW old, NEW cur
  PROVE  LET op == StartedOp(req, s, pc, old, cur)
         IN  op.req = req /\ op.sid = s /\ op.pc = pc /\ op.old = old /\ op.cur = cur
BY DEF StartedOp

LEMMA FreeLock ==
  ASSUME Consistent, NEW c \in Chats, ~Busy(c)
  PROVE  lock[c] = NoOp /\ NoOp.pc = "free" /\ [lock EXCEPT ![c] = lock[c]] = lock
<1>1. lock \in [Chats -> Op \cup {NoOp}]
  BY TypeParts
<1>2. \A op \in Op : op.pc # "free"
  BY DEF Op, Pc
<1> QED BY <1>1, <1>2 DEF Busy, NoOp

\* A request that changes nothing leaves the lock free.
LEMMA NoOpShape ==
  ASSUME Consistent, NEW c \in Chats, NEW kinds, Acquire(c, kinds), "propose" \notin kinds,
         UNCHANGED <<rows, lock>>
  PROVE  Step(c, Head(queue[c]).sid, rows[Head(queue[c]).sid], NoOp)
<1>1. PICK s : s = Head(queue[c]).sid
  OBVIOUS
<1>2. s \in DOMAIN rows /\ s \in Nat /\ rows[s] \in Row /\ rows[s].chat = c
      /\ rows = [rows EXCEPT ![s] = rows[s]]
  BY <1>1, QueuedSession
<1>3. ~Busy(c) /\ lock[c] = NoOp /\ [lock EXCEPT ![c] = lock[c]] = lock /\ NoOp.pc = "free"
  BY AcquireFrame, TypeParts, FreeLock
<1>4. Step(c, s, rows[s], NoOp)
  BY <1>2, <1>3 DEF Step
<1> QED BY <1>1, <1>4

LEMMA StartRescheduleShape ==
  ASSUME Consistent, NEW c \in Chats, StartReschedule(c)
  PROVE  LET req == Head(queue[c]) IN
         \E s \in OpenIn(c) :
           LET r == Reschedule(rows[s], req.user, req.time)
           IN  Step(c, s, r, StartedOp(req, s, "card", rows[s], r))
<1>1. PICK req : req = Head(queue[c])
  OBVIOUS
<1>2. PICK s \in OpenIn(c) :
        /\ rows' = [rows EXCEPT ![s] = Reschedule(rows[s], req.user, req.time)]
        /\ lock' = [lock EXCEPT ![c] =
             StartedOp(req, s, "card", rows[s], Reschedule(rows[s], req.user, req.time))]
  BY <1>1 DEF StartReschedule, Hold
<1>3. PICK r : r = Reschedule(rows[s], req.user, req.time)
  OBVIOUS
<1>4. PICK op : op = StartedOp(req, s, "card", rows[s], r)
  OBVIOUS
<1>5. req \in Request /\ req.kind = "propose" /\ ~Busy(c)
  BY <1>1, AcquireFrame, TypeParts DEF StartReschedule
<1>6. s \in DOMAIN rows /\ rows[s].chat = c /\ rows[s] \in Row /\ s \in Nat
  BY TypeFacts DEF OpenIn, Consistent
<1>7. r \in Row /\ r.chat = c
  BY <1>3, <1>5, <1>6, RescheduledRow, RequestFields
<1>8. op \in Op /\ op.req = req /\ op.sid = s /\ op.pc = "card" /\ op.old = rows[s] /\ op.cur = r
  <2>1. "card" \in Pc /\ now \in Nat /\ rows[s] \in Row \cup {NoRow}
    BY <1>6, TypeParts DEF Pc
  <2> QED BY <1>4, <1>5, <1>6, <1>7, <2>1, NewOp, StartedFields
<1>9. rows[s] # NoRow
  BY <1>6, RowNotNone
<1>10. Fits(op, r)
  BY <1>3, <1>5, <1>8, <1>9 DEF Fits, Completion, WroteRow
<1>11. Step(c, s, r, op)
  BY <1>2, <1>3, <1>4, <1>5, <1>6, <1>7, <1>8, <1>10 DEF Step
<1> QED BY <1>1, <1>3, <1>4, <1>11

\* The row a tap writes.
Tapped(req, r) == IF req.kind = "join" THEN Join(r, req.user) ELSE Leave(r, req.user)

LEMMA StartTapShape ==
  ASSUME Consistent, NEW c \in Chats, StartTap(c)
  PROVE  LET req == Head(queue[c])
             s == req.sid
         IN  \/ Step(c, s, rows[s], NoOp)
             \/ /\ Step(c, s, Tapped(req, rows[s]), StartedOp(req, s, "card", rows[s], rows[s]))
                /\ rows[s].status = "active"
<1>1. PICK req : req = Head(queue[c])
  OBVIOUS
<1>2. PICK s : s = req.sid
  OBVIOUS
<1>3. /\ Acquire(c, {"join", "leave"})
      /\ \/ /\ rows[s].status = "active" /\ (req.user \in rows[s].members) = (req.kind = "leave")
            /\ rows' = [rows EXCEPT ![s] = Tapped(req, rows[s])]
            /\ lock' = [lock EXCEPT ![c] = StartedOp(req, s, "card", rows[s], rows[s])]
         \/ UNCHANGED <<rows, lock>>
  BY <1>1, <1>2 DEF StartTap, Hold, Tapped
<1>4. CASE UNCHANGED <<rows, lock>>
  BY <1>1, <1>2, <1>3, <1>4, NoOpShape
<1>5. CASE /\ rows[s].status = "active" /\ (req.user \in rows[s].members) = (req.kind = "leave")
           /\ rows' = [rows EXCEPT ![s] = Tapped(req, rows[s])]
           /\ lock' = [lock EXCEPT ![c] = StartedOp(req, s, "card", rows[s], rows[s])]
  <2>1. PICK r : r = Tapped(req, rows[s])
    OBVIOUS
  <2>2. PICK op : op = StartedOp(req, s, "card", rows[s], rows[s])
    OBVIOUS
  <2>3. req \in Request /\ req.kind \in {"join", "leave"} /\ req.user \in Users /\ ~Busy(c)
    <3>1. req \in Request /\ req.kind \in {"join", "leave"} /\ ~Busy(c)
      BY <1>1, <1>3, AcquireFrame, TypeParts
    <3> QED BY <3>1, RequestFields
  <2>4. s \in DOMAIN rows /\ rows[s].chat = c /\ rows[s] \in Row /\ s \in Nat /\ rows[s] # NoRow
    BY <1>1, <1>2, <1>3, QueuedSession, RowNotNone
  <2>5. /\ r \in Row /\ r.chat = c /\ r.status = "active"
        /\ r.msg = rows[s].msg /\ r.time = rows[s].time
    BY <1>5, <2>1, <2>3, <2>4, ParticipantRow DEF Tapped, Join, Leave, Row
  <2>6. op \in Op /\ op.req = req /\ op.sid = s /\ op.pc = "card" /\ op.old = rows[s] /\ op.cur = rows[s]
    <3>1. "card" \in Pc /\ now \in Nat /\ rows[s] \in Row \cup {NoRow}
      BY <2>4, TypeParts DEF Pc
    <3> QED BY <2>2, <2>3, <2>4, <3>1, NewOp, StartedFields
  <2>7. WroteRow(op, r)
    BY <1>5, <2>1, <2>3, <2>6 DEF WroteRow, Tapped
  <2>8. Fits(op, r)
    BY <2>3, <2>4, <2>5, <2>6, <2>7 DEF Fits, Completion
  <2>9. Step(c, s, r, op)
    BY <1>5, <2>1, <2>2, <2>3, <2>4, <2>5, <2>6, <2>8 DEF Step
  <2> QED BY <1>1, <1>2, <1>5, <2>1, <2>2, <2>9
<1> QED BY <1>3, <1>4, <1>5

\* A countdown, a recovery or a completion: it works on the row as it is, or has nothing to do.
LEMMA StartJobShape ==
  ASSUME Consistent, NEW c \in Chats, NEW kind \in JobKinds, NEW pc, NEW old,
         Acquire(c, {kind}), UNCHANGED rows,
         LET req == Head(queue[c])
             s == req.sid
         IN  /\ lock' = [lock EXCEPT ![c] = StartedOp(req, s, pc, old, rows[s])]
             /\ \/ kind = "refresh" /\ pc = "card" /\ old = rows[s] /\ rows[s].status = "active"
                \/ kind = "recover" /\ pc = "card" /\ old = NoRow /\ rows[s].status = "creating"
                \/ kind = "complete" /\ pc = "unpin" /\ old = NoRow
  PROVE  LET req == Head(queue[c])
             s == req.sid
         IN  Step(c, s, rows[s], StartedOp(req, s, pc, old, rows[s]))
<1>1. PICK req : req = Head(queue[c])
  OBVIOUS
<1>2. PICK s : s = req.sid
  OBVIOUS
<1>3. PICK op : op = StartedOp(req, s, pc, old, rows[s])
  OBVIOUS
<1>4. req \in Request /\ req.kind = kind /\ ~Busy(c)
  BY <1>1, AcquireFrame, TypeParts
<1>5. s \in DOMAIN rows /\ rows[s].chat = c /\ rows[s] \in Row /\ s \in Nat /\ rows[s] # NoRow
      /\ rows = [rows EXCEPT ![s] = rows[s]]
  <2>1. "propose" \notin {kind}
    BY DEF JobKinds
  <2> QED BY <1>1, <1>2, <2>1, QueuedSession, RowNotNone
<1>6. /\ lock' = [lock EXCEPT ![c] = op]
      /\ \/ kind = "refresh" /\ pc = "card" /\ old = rows[s] /\ rows[s].status = "active"
         \/ kind = "recover" /\ pc = "card" /\ old = NoRow /\ rows[s].status = "creating"
         \/ kind = "complete" /\ pc = "unpin" /\ old = NoRow
  BY <1>1, <1>2, <1>3
<1>7. op \in Op /\ op.req = req /\ op.sid = s /\ op.pc = pc /\ op.old = old /\ op.cur = rows[s]
  <2>1. pc \in Pc /\ now \in Nat /\ old \in Row \cup {NoRow}
    BY <1>5, <1>6, TypeParts DEF Pc
  <2> QED BY <1>3, <1>4, <1>5, <2>1, NewOp, StartedFields
<1>8. Fits(op, rows[s])
  BY <1>4, <1>5, <1>6, <1>7 DEF Fits, Completion, WroteRow
<1>9. Step(c, s, rows[s], op)
  BY <1>4, <1>5, <1>6, <1>7, <1>8 DEF Step
<1> QED BY <1>1, <1>2, <1>3, <1>9
-----------------------------------------------------------------------------
(* What is left to show of a step under a lock is what it means for its    *)
(* own session.                                                            *)

\* No other session loses or gets a job, a waiting coroutine or a place in missed.
OthersKept(s) ==
  /\ \A j \in jobs' : j \in jobs \/ j.sid = s
  /\ \A j \in jobs : j \in jobs' \/ j.sid = s
  /\ \A t \in missed : t \in missed' \/ t = s
  /\ \A d \in Chats, kind \in JobKinds, t \in DOMAIN rows :
       t # s /\ WaitsFor(queue[d], kind, t) => WaitsFor(queue'[d], kind, t)
  /\ up' = up

\* The part of JobsInv that is not IInv.
JobsKept == HoldersFit' /\ Counted' /\ NoneForgotten' /\ JobsOnTime'

LEMMA KindForIsJob ==
  ASSUME NEW st
  PROVE  KindFor(st) \in JobKinds /\ KindFor(st) \in {"recover", "complete"}
BY DEF KindFor, JobKinds

LEMMA CountedFrame ==
  ASSUME TypeOK, Counted, BudgetShrinks, up' = up
  PROVE  /\ Counted' /\ \A k \in BudgetKinds : Spent(k)' \in Int /\ Spent(k)' >= Spent(k)
<1>1. \A k \in BudgetKinds : budget[k] \in Nat /\ Budget[k] \in Nat
  BY BudgetAssumption DEF TypeOK
<1>2. \A k \in BudgetKinds : Spent(k)' \in Int /\ Spent(k)' >= Spent(k) /\ Spent(k) \in Int
  BY <1>1 DEF Spent, BudgetShrinks
<1>3. \A k \in BudgetKinds : budget'[k] <= Budget[k]
  BY <1>1 DEF Counted, BudgetShrinks
<1>4. ~up => Spent("crash")' > 0
  <2>1. "crash" \in BudgetKinds
    BY DEF BudgetKinds
  <2> QED BY <1>2, <2>1 DEF Counted
<1> QED BY <1>2, <1>3, <1>4 DEF Counted

\* Sessions whose row, jobs and lock a step leaves alone stay cared for and on time.
LEMMA OtherSession ==
  ASSUME JobsInv, NEW t \in DOMAIN rows,
         rows'[t] = rows[t], rows[t].chat \in Chats,
         \A j \in jobs' : j.sid = t => j \in jobs,
         \A j \in jobs : j.sid = t => j \in jobs' \/ t \in missed'
                                    \/ WaitsFor(queue'[rows[t].chat], j.kind, t),
         t \in missed => t \in missed',
         \A kind \in JobKinds : WaitsFor(queue[rows[t].chat], kind, t)
                                => WaitsFor(queue'[rows[t].chat], kind, t),
         \/ lock'[rows[t].chat] = lock[rows[t].chat]
         \/ /\ lock[rows[t].chat].pc = "free" \/ lock[rows[t].chat].sid # t
            /\ lock'[rows[t].chat].pc = "free" \/ lock'[rows[t].chat].sid # t,
         Spent("crash") > 0 => Spent("crash")' > 0
  PROVE  /\ Cared(t) => Cared(t)'
         /\ JobOnTime(t)'
<1>1. Before(t)' = Before(t)
  BY DEF Before, Reschedules
<1>2. JobOnTime(t)
  BY DEF JobsInv, JobsOnTime
<1>3. JobOnTime(t)'
  BY <1>1, <1>2 DEF JobOnTime
<1>4. ASSUME Cared(t) PROVE Cared(t)'
  <2>1. CASE Ended(t)
    BY <2>1 DEF Ended, Cared
  <2>2. CASE t \in missed
    BY <2>2 DEF Cared
  <2>3. CASE Stored(t)
    <3>1. PICK j \in jobs : j.sid = t /\ j.kind = KindFor(rows[t].status)
      BY <2>3 DEF Stored
    <3>2. CASE j \in jobs'
      BY <3>1, <3>2 DEF Stored, Cared
    <3>3. CASE t \in missed'
      BY <3>3 DEF Cared
    <3>4. CASE WaitsFor(queue'[rows[t].chat], j.kind, t)
      BY <3>1, <3>4 DEF Waits, Cared
    <3> QED BY <3>1, <3>2, <3>3, <3>4
  <2>4. CASE Waits(t)
    BY <2>4, KindForIsJob DEF Waits, Cared
  <2>5. CASE Carries(lock[rows[t].chat], t)
    BY <2>5 DEF Carries, Cared
  <2> QED BY <1>4, <2>1, <2>2, <2>3, <2>4, <2>5 DEF Cared
<1> QED BY <1>3, <1>4

LEMMA JobsFrame ==
  ASSUME JobsInv, NEW c \in Chats, NEW s, NEW r, NEW op, Step(c, s, r, op),
         OthersKept(s), BudgetShrinks,
         up => Cared(s)', JobOnTime(s)'
  PROVE  JobsKept
<1> Consistent /\ HoldersFit
  BY DEF JobsInv, IInv
<1>1. HoldersFit'
  BY HoldersFrame
<1>2. up' = up /\ Counted' /\ (Spent("crash") > 0 => Spent("crash")' > 0)
  <2>1. Counted' /\ Spent("crash")' \in Int /\ Spent("crash")' >= Spent("crash")
    BY CountedFrame, TypeParts DEF OthersKept, JobsInv, BudgetKinds
  <2>2. Spent("crash") \in Int
    BY BudgetAssumption, TypeParts DEF Spent, BudgetKinds
  <2> QED BY <2>1, <2>2 DEF OthersKept
<1>3. ASSUME NEW t \in DOMAIN rows, t # s
      PROVE  (Cared(t) => Cared(t)') /\ JobOnTime(t)'
  <2>1. rows'[t] = rows[t] /\ rows[t].chat \in Chats
    BY <1>3, StepFacts
  <2>2. /\ \A j \in jobs' : j.sid = t => j \in jobs
        /\ \A j \in jobs : j.sid = t => j \in jobs'
        /\ t \in missed => t \in missed'
        /\ \A kind \in JobKinds : WaitsFor(queue[rows[t].chat], kind, t)
                                  => WaitsFor(queue'[rows[t].chat], kind, t)
    BY <1>3, <2>1 DEF OthersKept
  <2>3. \/ lock'[rows[t].chat] = lock[rows[t].chat]
        \/ /\ lock[rows[t].chat].pc = "free" \/ lock[rows[t].chat].sid # t
           /\ lock'[rows[t].chat].pc = "free" \/ lock'[rows[t].chat].sid # t
    <3>1. CASE rows[t].chat # c
      BY <2>1, <3>1, StepFacts
    <3>2. CASE rows[t].chat = c
      <4>1. lock'[c] = op
        BY StepFacts
      <4> QED BY <1>3, <3>2, <4>1 DEF Step, Busy
    <3> QED BY <3>1, <3>2
  <2> QED BY <1>2, <2>1, <2>2, <2>3, OtherSession
<1>4. DOMAIN rows' = DOMAIN rows
  BY StepFacts
<1>5. NoneForgotten'
  BY <1>2, <1>3, <1>4 DEF NoneForgotten, JobsInv
<1>6. JobsOnTime'
  BY <1>3, <1>4 DEF JobsOnTime
<1> QED BY <1>1, <1>2, <1>5, <1>6 DEF JobsKept

\* Taking the lock removes the head of the chat's queue and nothing else.
LEMMA DequeueKeeps ==
  ASSUME Consistent, NEW c \in Chats, NEW kinds, Acquire(c, kinds),
         NEW d \in Chats, NEW kind, NEW t, WaitsFor(queue[d], kind, t),
         kind \notin kinds \/ Head(queue[c]).sid # t
  PROVE  WaitsFor(queue'[d], kind, t)
<1>1. PICK i \in DOMAIN queue[d] : queue[d][i].kind = kind /\ queue[d][i].sid = t
  BY DEF WaitsFor
<1>2. /\ queue \in [Chats -> Seq(Request)] /\ queue[c] \in Seq(Request) /\ queue[c] # <<>>
      /\ Head(queue[c]).kind \in kinds /\ queue' = [queue EXCEPT ![c] = Tail(queue[c])]
  BY TypeParts DEF Acquire
<1>3. CASE d # c
  BY <1>1, <1>2, <1>3 DEF WaitsFor
<1>4. CASE d = c
  <2>1. queue[c][1] = Head(queue[c]) /\ i # 1
    BY <1>1, <1>2, <1>4, SeqTail
  <2>2. /\ i \in 1..Len(queue[c]) /\ Len(queue[c]) \in Nat
        /\ Len(Tail(queue[c])) = Len(queue[c]) - 1
        /\ \A k \in 1..Len(Tail(queue[c])) : Tail(queue[c])[k] = queue[c][k + 1]
        /\ DOMAIN Tail(queue[c]) = 1..Len(Tail(queue[c]))
    BY <1>1, <1>2, <1>4, HeadTailProperties, LenProperties
  <2>3. i - 1 \in DOMAIN Tail(queue[c]) /\ Tail(queue[c])[i - 1] = queue[c][i]
    BY <2>1, <2>2
  <2>4. queue'[d] = Tail(queue[c])
    BY <1>2, <1>4
  <2> QED BY <1>1, <1>4, <2>3, <2>4 DEF WaitsFor
<1> QED BY <1>3, <1>4

\* Those who wait for another session's job go on waiting.
LEMMA DequeueOthers ==
  ASSUME Consistent, NEW c \in Chats, NEW kinds, Acquire(c, kinds), NEW s,
         s = Head(queue[c]).sid \/ kinds \cap JobKinds = {}
  PROVE  /\ \A d \in Chats, kind \in JobKinds, t \in DOMAIN rows :
              t # s /\ WaitsFor(queue[d], kind, t) => WaitsFor(queue'[d], kind, t)
         /\ \A d \in Chats, kind \in JobKinds, t \in DOMAIN rows :
              kind \notin kinds /\ WaitsFor(queue[d], kind, t) => WaitsFor(queue'[d], kind, t)
<1>1. ASSUME NEW d \in Chats, NEW kind \in JobKinds, NEW t \in DOMAIN rows,
             kind \notin kinds \/ t # s, WaitsFor(queue[d], kind, t)
      PROVE  WaitsFor(queue'[d], kind, t)
  <2>1. kind \notin kinds \/ Head(queue[c]).sid # t
    BY <1>1
  <2> QED BY <1>1, <2>1, DequeueKeeps
<1> QED BY <1>1

\* A coroutine joins a queue at its end.
LEMMA EnqueueKeeps ==
  ASSUME Consistent, NEW c \in Chats, NEW req \in Request, Enqueue(c, req)
  PROVE  /\ \A d \in Chats : \A kind, t : WaitsFor(queue[d], kind, t) => WaitsFor(queue'[d], kind, t)
         /\ \A kind, t : req.kind = kind /\ req.sid = t => WaitsFor(queue'[c], kind, t)
<1>1. /\ queue \in [Chats -> Seq(Request)] /\ queue[c] \in Seq(Request)
      /\ queue' = [queue EXCEPT ![c] = Append(queue[c], req)]
  BY TypeParts DEF Enqueue
<1>2. /\ DOMAIN Append(queue[c], req) = 1..(Len(queue[c]) + 1)
      /\ \A i \in DOMAIN queue[c] : Append(queue[c], req)[i] = queue[c][i]
      /\ Append(queue[c], req)[Len(queue[c]) + 1] = req
      /\ DOMAIN queue[c] = 1..Len(queue[c]) /\ Len(queue[c]) \in Nat
  BY <1>1, SeqAppend, LenProperties
<1>3. queue'[c] = Append(queue[c], req) /\ \A d \in Chats : d # c => queue'[d] = queue[d]
  BY <1>1
<1>4. ASSUME NEW d \in Chats, NEW kind, NEW t, WaitsFor(queue[d], kind, t)
      PROVE  WaitsFor(queue'[d], kind, t)
  <2>1. PICK i \in DOMAIN queue[d] : queue[d][i].kind = kind /\ queue[d][i].sid = t
    BY <1>4 DEF WaitsFor
  <2>2. i \in DOMAIN queue'[d] /\ queue'[d][i] = queue[d][i]
    BY <1>2, <1>3, <2>1
  <2> QED BY <2>1, <2>2 DEF WaitsFor
<1>5. Len(queue[c]) + 1 \in DOMAIN queue'[c] /\ queue'[c][Len(queue[c]) + 1] = req
  BY <1>2, <1>3
<1> QED BY <1>4, <1>5 DEF WaitsFor

LEMMA BudgetKept ==
  ASSUME TypeOK,
         \/ UNCHANGED budget
         \/ \E k \in BudgetKinds : Spend(k)
         \/ \E op : Succeeds(op) \/ Fails(op) \/ Tried(op)
  PROVE  BudgetShrinks
<1>1. \A k \in BudgetKinds : budget[k] \in Nat
  BY DEF TypeOK
<1>2. UNCHANGED budget => BudgetShrinks
  BY <1>1 DEF BudgetShrinks
<1>3. ASSUME NEW k \in BudgetKinds, Spend(k) PROVE BudgetShrinks
  BY <1>1, <1>3 DEF BudgetShrinks, Spend, TypeOK
<1>4. "reject" \in BudgetKinds /\ "lost" \in BudgetKinds
  BY DEF BudgetKinds
<1> QED BY <1>2, <1>3, <1>4 DEF Succeeds, Fails, Tried

\* A step that gives its own session no new carer must leave it the ones it has.
LEMMA OwnCare ==
  ASSUME NEW s \in DOMAIN rows, Cared(s), ~Carries(lock[rows[s].chat], s),
         rows'[s].chat = rows[s].chat, rows'[s].status = rows[s].status,
         s \in missed => s \in missed',
         \A j \in jobs : j.sid = s /\ j.kind # "refresh" => j \in jobs',
         WaitsFor(queue[rows[s].chat], KindFor(rows[s].status), s)
           => WaitsFor(queue'[rows[s].chat], KindFor(rows[s].status), s)
  PROVE  Cared(s)'
<1>1. CASE Ended(s)
  BY <1>1 DEF Ended, Cared
<1>2. CASE s \in missed
  BY <1>2 DEF Cared
<1>3. CASE Stored(s)
  BY <1>3, KindForIsJob DEF Stored, Cared
<1>4. CASE Waits(s)
  BY <1>4 DEF Waits, Cared
<1> QED BY <1>1, <1>2, <1>3, <1>4 DEF Cared

\* A job is on time as long as the time to announce, or announced, stays.
LEMMA OwnTime ==
  ASSUME JobsInv, NEW s \in DOMAIN rows, BudgetShrinks, up' = up,
         \A j \in jobs' : j.sid = s /\ j.kind = "complete" => j \in jobs,
         \/ rows'[s].status \notin OpenStatus
         \/ rows'[s].status = rows[s].status /\ Before(s).time' = Before(s).time
  PROVE  JobOnTime(s)'
<1>1. JobOnTime(s) /\ TypeOK /\ Counted
  BY DEF JobsInv, JobsOnTime, IInv, Consistent
<1>2. Spent("crash") > 0 => Spent("crash")' > 0
  <2>1. Spent("crash")' \in Int /\ Spent("crash")' >= Spent("crash")
    BY <1>1, CountedFrame DEF BudgetKinds
  <2>2. Spent("crash") \in Int
    BY <1>1, BudgetAssumption DEF TypeOK, Spent, BudgetKinds
  <2> QED BY <2>1, <2>2
<1> QED BY <1>1, <1>2 DEF JobOnTime, OpenStatus

LEMMA InvParts ==
  ASSUME JobsInv
  PROVE  /\ Consistent /\ TypeOK /\ HoldersFit /\ Counted /\ StoppedIsEmpty
         /\ \A s \in DOMAIN rows : (up => Cared(s)) /\ JobOnTime(s)
BY DEF JobsInv, IInv, Consistent, NoneForgotten, JobsOnTime

\* A request that finds nothing to do.
LEMMA IdleRequestJobs ==
  ASSUME JobsInv, NEW c \in Chats, NEW kind, kind # "propose", Acquire(c, {kind}),
         UNCHANGED <<rows, lock, missed, up, budget>>,
         \/ kind \in {"join", "leave"} /\ UNCHANGED jobs
         \/ kind = "refresh" /\ jobs' = RemoveJob(jobs, "refresh", Head(queue[c]).sid)
         \/ /\ UNCHANGED jobs
            /\ Ended(Head(queue[c]).sid) \/ kind # KindFor(rows[Head(queue[c]).sid].status)
  PROVE  JobsKept
<1>1. PICK s : s = Head(queue[c]).sid
  OBVIOUS
<1>2. Step(c, s, rows[s], NoOp) /\ s \in DOMAIN rows /\ s \in Nat /\ rows[s].chat = c
  BY <1>1, InvParts, NoOpShape, QueuedSession
<1>3. lock[c] = NoOp /\ NoOp.pc = "free"
  BY InvParts, AcquireFrame, FreeLock
<1>4. /\ \A j \in jobs' : j \in jobs
      /\ \A j \in jobs : j \in jobs' \/ (j.sid = s /\ j.kind = "refresh")
  BY <1>1 DEF RemoveJob
<1>5. OthersKept(s)
  BY <1>1, <1>4, InvParts, DequeueOthers DEF OthersKept
<1>6. BudgetShrinks
  BY InvParts, BudgetKept
<1>7. ASSUME up PROVE Cared(s)'
  <2>1. CASE Ended(s)
    BY <2>1 DEF Cared, Ended
  <2>2. CASE ~Ended(s)
    <3>1. KindFor(rows[s].status) \notin {kind}
      BY <1>1, <2>2, KindForIsJob DEF Ended
    <3>2. WaitsFor(queue[c], KindFor(rows[s].status), s) => WaitsFor(queue'[c], KindFor(rows[s].status), s)
      <4>1. PICK need : need = KindFor(rows[s].status)
        OBVIOUS
      <4>2. need \in JobKinds /\ need \notin {kind}
        BY <3>1, <4>1, KindForIsJob
      <4>3. WaitsFor(queue[c], need, s) => WaitsFor(queue'[c], need, s)
        BY <1>1, <1>2, <4>2, InvParts, DequeueOthers
      <4> QED BY <4>1, <4>3
    <3>3. ~Carries(lock[c], s)
      BY <1>3 DEF Carries
    <3> QED BY <1>2, <1>4, <1>7, <3>2, <3>3, InvParts, OwnCare
  <2> QED BY <2>1, <2>2
<1>8. JobOnTime(s)'
  <2>1. Before(s)' = Before(s)
    BY DEF Before, Reschedules
  <2> QED BY <1>2, <1>4, <1>6, <2>1, OwnTime
<1> QED BY <1>2, <1>5, <1>6, <1>7, <1>8, JobsFrame
-----------------------------------------------------------------------------
(* What the scheduler holds after it was asked for a job.                  *)

LEMMA AddDateJobs ==
  ASSUME NEW js, NEW kind, NEW s, NEW at
  PROVE  /\ \A j \in AddDate(js, kind, s, at) :
              /\ j \in js \/ (j.kind = kind /\ j.sid = s)
              /\ j.kind = kind /\ j.sid = s => j.at = at
         /\ \A j \in js : j \in AddDate(js, kind, s, at) \/ (j.kind = kind /\ j.sid = s)
         /\ \E j \in AddDate(js, kind, s, at) : j.kind = kind /\ j.sid = s
<1>1. PICK new : new = [kind |-> kind, sid |-> s, at |-> at, late |-> at <= now]
  OBVIOUS
<1>2. new.kind = kind /\ new.sid = s /\ new.at = at
  BY <1>1
<1>3. AddDate(js, kind, s, at) = {j \in js : ~(j.kind = kind /\ j.sid = s)} \cup {new}
  BY <1>1 DEF AddDate, RemoveJob
<1> QED BY <1>2, <1>3

LEMMA CountdownJobs ==
  ASSUME NEW js, NEW s, NEW t
  PROVE  /\ \A j \in ScheduleCountdown(js, s, t) : j \in js \/ (j.kind = "refresh" /\ j.sid = s)
         /\ \A j \in js : j \in ScheduleCountdown(js, s, t) \/ (j.kind = "refresh" /\ j.sid = s)
<1>1. CASE NextCountdown(t) = NULL
  BY <1>1 DEF ScheduleCountdown, RemoveJob
<1>2. CASE NextCountdown(t) # NULL
  <2>1. ScheduleCountdown(js, s, t) = AddDate(js, "refresh", s, NextCountdown(t))
    BY <1>2 DEF ScheduleCountdown
  <2> QED BY <2>1, AddDateJobs
<1> QED BY <1>1, <1>2

\* A scheduled session has a completion job, at its time, and others lose nothing.
LEMMA SessionJobs ==
  ASSUME NEW js, NEW s, NEW t
  PROVE  /\ \A j \in ScheduleSession(js, s, t) :
              /\ j \in js \/ j.sid = s
              /\ j.kind = "complete" /\ j.sid = s => j.at = t
         /\ \A j \in js : j \in ScheduleSession(js, s, t) \/ j.sid = s
         /\ \E j \in ScheduleSession(js, s, t) : j.kind = "complete" /\ j.sid = s
<1>1. PICK mid : mid = AddDate(js, "complete", s, t)
  OBVIOUS
<1>2. /\ \A j \in mid : /\ j \in js \/ (j.kind = "complete" /\ j.sid = s)
                        /\ j.kind = "complete" /\ j.sid = s => j.at = t
      /\ \A j \in js : j \in mid \/ (j.kind = "complete" /\ j.sid = s)
      /\ \E j \in mid : j.kind = "complete" /\ j.sid = s
  BY <1>1, AddDateJobs
<1>3. /\ \A j \in ScheduleSession(js, s, t) : j \in mid \/ (j.kind = "refresh" /\ j.sid = s)
      /\ \A j \in mid : j \in ScheduleSession(js, s, t) \/ (j.kind = "refresh" /\ j.sid = s)
  BY <1>1, CountdownJobs DEF ScheduleSession
<1> QED BY <1>2, <1>3

-----------------------------------------------------------------------------
(* Jobs in the steps that take a lock.                                     *)

\* A proposal, a tap or a countdown leaves its session the carer it has.
LEMMA TakenJobs ==
  ASSUME JobsInv, NEW c \in Chats, NEW kinds, Acquire(c, kinds), NEW s,
         kinds \cap {"recover", "complete"} = {},
         s = Head(queue[c]).sid \/ kinds \cap JobKinds = {},
         NEW r, NEW op, Step(c, s, r, op),
         op.pc = "card", op.sid = s, op.old = rows[s], r.status = rows[s].status,
         UNCHANGED <<missed, up, budget>>,
         \A j \in jobs' : j \in jobs \/ (j.kind = "refresh" /\ j.sid = s),
         \A j \in jobs : j \in jobs' \/ (j.kind = "refresh" /\ j.sid = s)
  PROVE  JobsKept
<1>1. s \in DOMAIN rows /\ rows[s] \in Row /\ rows[s] # NoRow /\ rows[s].chat = c /\ r.chat = c
  BY RowNotNone DEF Step
<1>2. lock[c] = NoOp /\ NoOp.pc = "free"
  BY InvParts, AcquireFrame, FreeLock
<1>3. rows'[s] = r /\ lock'[c] = op
  BY InvParts, StepFacts
<1>4. OthersKept(s)
  BY InvParts, DequeueOthers DEF OthersKept
<1>5. BudgetShrinks
  BY InvParts, BudgetKept
<1>6. ASSUME up PROVE Cared(s)'
  <2>1. WaitsFor(queue[c], KindFor(rows[s].status), s) => WaitsFor(queue'[c], KindFor(rows[s].status), s)
    <3>1. PICK need : need = KindFor(rows[s].status)
      OBVIOUS
    <3>2. need \in JobKinds /\ need \notin kinds
      BY <3>1, KindForIsJob
    <3>3. WaitsFor(queue[c], need, s) => WaitsFor(queue'[c], need, s)
      BY <1>1, <3>2, InvParts, DequeueOthers
    <3> QED BY <3>1, <3>3
  <2>2. ~Carries(lock[c], s)
    BY <1>2 DEF Carries
  <2>3. Cared(s)
    BY <1>1, <1>6, InvParts
  <2> QED BY <1>1, <1>3, <2>1, <2>2, <2>3, OwnCare
<1>7. JobOnTime(s)'
  <2>1. Before(s) = rows[s]
    BY <1>1, <1>2 DEF Before, Reschedules
  <2>2. Before(s)' = rows[s]
    BY <1>1, <1>3 DEF Before, Reschedules
  <2> QED BY <1>1, <1>3, <1>5, <2>1, <2>2, OwnTime
<1> QED BY <1>4, <1>5, <1>6, <1>7, JobsFrame

LEMMA StartRescheduleJobs ==
  ASSUME JobsInv, NEW c \in Chats, StartReschedule(c)
  PROVE  JobsKept
<1>1. PICK req : req = Head(queue[c])
  OBVIOUS
<1>2. PICK s, r :
        /\ s \in OpenIn(c) /\ r = Reschedule(rows[s], req.user, req.time)
        /\ Step(c, s, r, StartedOp(req, s, "card", rows[s], r))
  BY <1>1, InvParts, StartRescheduleShape
<1>3. PICK op : op = StartedOp(req, s, "card", rows[s], r)
  OBVIOUS
<1>4. op.pc = "card" /\ op.sid = s /\ op.old = rows[s]
  BY <1>3, StartedFields
<1>5. Acquire(c, {"propose"}) /\ UNCHANGED <<jobs, missed, up, budget>>
  BY DEF StartReschedule
<1>6. r.status = rows[s].status
  <2>1. req \in Request /\ req.kind = "propose"
    BY <1>1, <1>5, InvParts, AcquireFrame
  <2>2. rows[s] \in Row
    BY <1>2 DEF Step
  <2> QED BY <1>2, <2>1, <2>2, RequestFields, RescheduledRow
<1>7. Step(c, s, r, op)
  BY <1>2, <1>3
<1> QED BY <1>4, <1>5, <1>6, <1>7, TakenJobs DEF JobKinds

LEMMA StartTapJobs ==
  ASSUME JobsInv, NEW c \in Chats, StartTap(c)
  PROVE  JobsKept
<1>1. PICK req : req = Head(queue[c])
  OBVIOUS
<1>2. PICK s : s = req.sid
  OBVIOUS
<1>3. Acquire(c, {"join", "leave"}) /\ UNCHANGED <<jobs, missed, up, budget>>
  BY DEF StartTap
<1>4. \/ UNCHANGED <<rows, lock>>
      \/ /\ Step(c, s, Tapped(req, rows[s]), StartedOp(req, s, "card", rows[s], rows[s]))
         /\ rows[s].status = "active"
  <2>1. \/ Step(c, s, rows[s], NoOp)
        \/ /\ Step(c, s, Tapped(req, rows[s]), StartedOp(req, s, "card", rows[s], rows[s]))
           /\ rows[s].status = "active"
    BY <1>1, <1>2, InvParts, StartTapShape
  <2>2. Step(c, s, rows[s], NoOp) => UNCHANGED <<rows, lock>>
    <3>1. lock[c] = NoOp /\ [lock EXCEPT ![c] = lock[c]] = lock
      BY <1>3, InvParts, AcquireFrame, FreeLock
    <3>2. s \in DOMAIN rows => [rows EXCEPT ![s] = rows[s]] = rows
      BY InvParts, TypeParts
    <3> QED BY <3>1, <3>2 DEF Step
  <2> QED BY <2>1, <2>2
<1>5. CASE UNCHANGED <<rows, lock>>
  <2>1. PICK kind \in {"join", "leave"} : Acquire(c, {kind})
    BY <1>3 DEF Acquire
  <2> QED BY <1>3, <1>5, <2>1, IdleRequestJobs
<1>6. CASE /\ Step(c, s, Tapped(req, rows[s]), StartedOp(req, s, "card", rows[s], rows[s]))
           /\ rows[s].status = "active"
  <2>1. PICK r, op : r = Tapped(req, rows[s]) /\ op = StartedOp(req, s, "card", rows[s], rows[s])
    OBVIOUS
  <2>2. op.pc = "card" /\ op.sid = s /\ op.old = rows[s]
    BY <2>1, StartedFields
  <2>3. r.status = rows[s].status
    <3>1. req \in Request /\ req.kind \in {"join", "leave"}
      BY <1>1, <1>3, InvParts, AcquireFrame
    <3>2. rows[s] \in Row
      BY <1>6 DEF Step
    <3> QED BY <2>1, <3>1, <3>2, RequestFields, ParticipantRow DEF Tapped
  <2>4. Step(c, s, r, op)
    BY <1>6, <2>1
  <2> QED BY <1>1, <1>2, <1>3, <2>2, <2>3, <2>4, TakenJobs DEF JobKinds
<1> QED BY <1>4, <1>5, <1>6
LEMMA StartRefreshJobs ==
  ASSUME JobsInv, NEW c \in Chats, StartRefresh(c)
  PROVE  JobsKept
<1>1. PICK req : req = Head(queue[c])
  OBVIOUS
<1>2. PICK s : s = req.sid
  OBVIOUS
<1>3. /\ Acquire(c, {"refresh"}) /\ UNCHANGED <<rows, missed, up, budget>>
      /\ \/ /\ rows[s].status = "active" /\ jobs' = ScheduleCountdown(jobs, s, rows[s].time)
            /\ lock' = [lock EXCEPT ![c] = StartedOp(req, s, "card", rows[s], rows[s])]
         \/ jobs' = RemoveJob(jobs, "refresh", s) /\ UNCHANGED lock
  BY <1>1, <1>2 DEF StartRefresh, Hold
<1>4. CASE jobs' = RemoveJob(jobs, "refresh", s) /\ UNCHANGED lock
  BY <1>1, <1>2, <1>3, <1>4, IdleRequestJobs
<1>5. CASE /\ rows[s].status = "active" /\ jobs' = ScheduleCountdown(jobs, s, rows[s].time)
           /\ lock' = [lock EXCEPT ![c] = StartedOp(req, s, "card", rows[s], rows[s])]
  <2>1. PICK old, op : old = rows[s] /\ op = StartedOp(req, s, "card", old, rows[s])
    OBVIOUS
  <2>2. op.pc = "card" /\ op.sid = s /\ op.old = rows[s]
    BY <2>1, StartedFields
  <2>3. Step(c, s, rows[s], op)
    <3>1. Step(c, s, rows[s], StartedOp(req, s, "card", rows[s], rows[s]))
      BY <1>1, <1>2, <1>3, <1>5, InvParts, StartJobShape DEF JobKinds
    <3> QED BY <2>1, <3>1
  <2>4. /\ \A j \in jobs' : j \in jobs \/ (j.kind = "refresh" /\ j.sid = s)
        /\ \A j \in jobs : j \in jobs' \/ (j.kind = "refresh" /\ j.sid = s)
    BY <1>5, CountdownJobs
  <2> QED BY <1>1, <1>2, <1>3, <2>2, <2>3, <2>4, TakenJobs
<1> QED BY <1>3, <1>4, <1>5

\* The job is done when the operation it started is.
LEMMA CarriedJobs ==
  ASSUME JobsInv, NEW c \in Chats, NEW kind \in {"recover", "complete"}, Acquire(c, {kind}),
         NEW s, s = Head(queue[c]).sid, NEW op, Step(c, s, rows[s], op),
         op.req.kind = kind, op.pc # "free", op.sid = s, op.pc = "card" => op.old = NoRow,
         UNCHANGED <<missed, up, budget>>,
         UNCHANGED jobs \/ jobs' = RemoveJob(jobs, "refresh", s)
  PROVE  JobsKept
<1>1. s \in DOMAIN rows /\ rows[s].chat = c
  BY DEF Step
<1>2. lock[c] = NoOp /\ NoOp.pc = "free"
  BY InvParts, AcquireFrame, FreeLock
<1>3. rows'[s] = rows[s] /\ lock'[c] = op
  BY InvParts, StepFacts
<1>4. /\ \A j \in jobs' : j \in jobs
      /\ \A j \in jobs : j \in jobs' \/ (j.kind = "refresh" /\ j.sid = s)
  BY DEF RemoveJob
<1>5. OthersKept(s)
  BY <1>4, InvParts, DequeueOthers DEF OthersKept
<1>6. BudgetShrinks
  BY InvParts, BudgetKept
<1>7. Cared(s)'
  BY <1>1, <1>3 DEF Cared, Carries
<1>8. JobOnTime(s)'
  <2>1. Before(s) = rows[s]
    BY <1>1, <1>2 DEF Before, Reschedules
  <2>2. Before(s)' = rows[s]
    BY <1>1, <1>3 DEF Before, Reschedules
  <2> QED BY <1>1, <1>3, <1>4, <1>6, <2>1, <2>2, OwnTime
<1> QED BY <1>5, <1>6, <1>7, <1>8, JobsFrame

LEMMA StartRecoverJobs ==
  ASSUME JobsInv, NEW c \in Chats, StartRecover(c)
  PROVE  JobsKept
<1>1. PICK req : req = Head(queue[c])
  OBVIOUS
<1>2. PICK s : s = req.sid
  OBVIOUS
<1>3. /\ Acquire(c, {"recover"}) /\ UNCHANGED <<rows, jobs, missed, up, budget>>
      /\ \/ /\ rows[s].status = "creating"
            /\ lock' = [lock EXCEPT ![c] = StartedOp(req, s, "card", NoRow, rows[s])]
         \/ rows[s].status # "creating" /\ UNCHANGED lock
  BY <1>1, <1>2 DEF StartRecover, Hold
<1>4. CASE rows[s].status # "creating" /\ UNCHANGED lock
  BY <1>1, <1>2, <1>3, <1>4, IdleRequestJobs DEF KindFor
<1>5. CASE /\ rows[s].status = "creating"
           /\ lock' = [lock EXCEPT ![c] = StartedOp(req, s, "card", NoRow, rows[s])]
  <2>1. PICK op : op = StartedOp(req, s, "card", NoRow, rows[s])
    OBVIOUS
  <2>2. op.pc = "card" /\ op.sid = s /\ op.old = NoRow /\ op.req = req
    BY <2>1, StartedFields
  <2>3. Step(c, s, rows[s], op)
    <3>1. Step(c, s, rows[s], StartedOp(req, s, "card", NoRow, rows[s]))
      BY <1>1, <1>2, <1>3, <1>5, InvParts, StartJobShape DEF JobKinds
    <3> QED BY <2>1, <3>1
  <2>4. req.kind = "recover"
    BY <1>1, <1>3, InvParts, AcquireFrame
  <2> QED BY <1>1, <1>2, <1>3, <2>2, <2>3, <2>4, CarriedJobs
<1> QED BY <1>3, <1>4, <1>5

LEMMA StartCompleteJobs ==
  ASSUME JobsInv, NEW c \in Chats, StartComplete(c)
  PROVE  JobsKept
<1>1. PICK req : req = Head(queue[c])
  OBVIOUS
<1>2. PICK s : s = req.sid
  OBVIOUS
<1>3. /\ Acquire(c, {"complete"}) /\ UNCHANGED <<rows, missed, up, budget>>
      /\ \/ /\ jobs' = RemoveJob(jobs, "refresh", s)
            /\ lock' = [lock EXCEPT ![c] = StartedOp(req, s, "unpin", NoRow, rows[s])]
         \/ rows[s].status \notin {"active", "completing"} /\ UNCHANGED <<jobs, lock>>
  BY <1>1, <1>2 DEF StartComplete, Hold
<1>4. CASE rows[s].status \notin {"active", "completing"} /\ UNCHANGED <<jobs, lock>>
  <2>1. rows[s] \in Row
    BY <1>1, <1>2, <1>3, InvParts, QueuedSession
  <2>2. Ended(s) \/ rows[s].status = "creating"
    BY <1>4, <2>1 DEF Row, Status, OpenStatus, Ended
  <2> QED BY <1>1, <1>2, <1>3, <1>4, <2>2, IdleRequestJobs DEF KindFor
<1>5. CASE /\ jobs' = RemoveJob(jobs, "refresh", s)
           /\ lock' = [lock EXCEPT ![c] = StartedOp(req, s, "unpin", NoRow, rows[s])]
  <2>1. PICK op : op = StartedOp(req, s, "unpin", NoRow, rows[s])
    OBVIOUS
  <2>2. op.pc = "unpin" /\ op.sid = s /\ op.old = NoRow /\ op.req = req
    BY <2>1, StartedFields
  <2>3. Step(c, s, rows[s], op)
    <3>1. Step(c, s, rows[s], StartedOp(req, s, "unpin", NoRow, rows[s]))
      BY <1>1, <1>2, <1>3, <1>5, InvParts, StartJobShape DEF JobKinds
    <3> QED BY <2>1, <3>1
  <2>4. req.kind = "complete"
    BY <1>1, <1>3, InvParts, AcquireFrame
  <2> QED BY <1>1, <1>2, <1>3, <1>5, <2>2, <2>3, <2>4, CarriedJobs
<1> QED BY <1>3, <1>4, <1>5
\* A new session and the operation that creates it.
NewSession(c, s, row, op) ==
  /\ s \notin DOMAIN rows /\ DOMAIN rows' = DOMAIN rows \cup {s}
  /\ rows'[s] = row /\ \A t \in DOMAIN rows : rows'[t] = rows[t] /\ rows[t].chat \in Chats
  /\ lock'[c] = op /\ lock[c].pc = "free" /\ \A d \in Chats : d # c => lock'[d] = lock[d]
  /\ \A d \in Chats : Busy(d) => lock[d].sid \in DOMAIN rows
  /\ row \in Row /\ row.chat = c /\ row.status = "creating" /\ row.msg = NULL
  /\ op.pc = "shout" /\ op.sid = s /\ op.old = NoRow /\ op.cur = row /\ Fits(op, row)

LEMMA StartNewShape ==
  ASSUME Consistent, NEW c \in Chats, StartNew(c)
  PROVE  LET req == Head(queue[c])
             s == Len(rows) + 1
             row == Create(c, req.user, req.time)
         IN  NewSession(c, s, row, StartedOp(req, s, "shout", NoRow, row))
<1>1. PICK req : req = Head(queue[c])
  OBVIOUS
<1>2. PICK s : s = Len(rows) + 1
  OBVIOUS
<1>3. PICK row : row = Create(c, req.user, req.time)
  OBVIOUS
<1>4. PICK op : op = StartedOp(req, s, "shout", NoRow, row)
  OBVIOUS
<1>5. /\ Acquire(c, {"propose"}) /\ rows' = Append(rows, row)
      /\ lock' = [lock EXCEPT ![c] = op]
  BY <1>1, <1>2, <1>3, <1>4 DEF StartNew, Hold
<1>6. req \in Request /\ req.kind = "propose" /\ req.user \in Users /\ req.time \in Nat
  <2>1. req \in Request /\ req.kind = "propose"
    BY <1>1, <1>5, AcquireFrame, TypeParts
  <2> QED BY <2>1, RequestFields
<1>7. row \in Row /\ row.chat = c /\ row.status = "creating" /\ row.msg = NULL
  BY <1>3, <1>6, NewRow DEF Create
<1>8. /\ s \notin DOMAIN rows /\ DOMAIN rows' = DOMAIN rows \cup {s} /\ rows'[s] = row
      /\ \A t \in DOMAIN rows : rows'[t] = rows[t] /\ rows[t].chat \in Chats
  <2>1. rows \in Seq(Row) /\ Len(rows) \in Nat /\ DOMAIN rows = 1..Len(rows)
    BY TypeFacts, TypeParts
  <2>2. /\ DOMAIN rows' = 1..s /\ rows'[s] = row /\ \A t \in DOMAIN rows : rows'[t] = rows[t]
    BY <1>2, <1>5, <1>7, <2>1, SeqAppend
  <2>3. \A t \in DOMAIN rows : rows[t].chat \in Chats
    BY TypeFacts, TypeParts DEF Row
  <2> QED BY <1>2, <2>1, <2>2, <2>3
<1>9. lock[c].pc = "free" /\ lock'[c] = op /\ \A d \in Chats : d # c => lock'[d] = lock[d]
  BY <1>5, AcquireFrame, TypeParts DEF Busy
<1>10. \A d \in Chats : Busy(d) => lock[d].sid \in DOMAIN rows
  BY DEF Consistent, LockProtects
<1>11. op.req = req /\ op.pc = "shout" /\ op.sid = s /\ op.old = NoRow /\ op.cur = row
  BY <1>4, StartedFields
<1>12. Fits(op, row)
  BY <1>6, <1>7, <1>11 DEF Fits, Completion
<1>13. NewSession(c, s, row, op)
  BY <1>7, <1>8, <1>9, <1>10, <1>11, <1>12 DEF NewSession
<1> QED BY <1>1, <1>2, <1>3, <1>4, <1>13

LEMMA StartNewJobs ==
  ASSUME JobsInv, NEW c \in Chats, StartNew(c)
  PROVE  JobsKept
<1>1. PICK s, row, op : NewSession(c, s, row, op)
  BY InvParts, StartNewShape
<1>2. /\ Acquire(c, {"propose"}) /\ UNCHANGED <<jobs, missed, up, budget>>
  BY DEF StartNew
<1>3. HoldersFit'
  <2> SUFFICES ASSUME NEW d \in Chats, lock'[d].pc # "free"
               PROVE  Fits(lock'[d], rows'[lock'[d].sid])
    BY DEF HoldersFit, Busy
  <2>1. CASE d = c
    <3>1. lock'[d] = op /\ op.sid = s /\ rows'[s] = row
      BY <1>1, <2>1 DEF NewSession
    <3>2. Fits(op, row)
      BY <1>1 DEF NewSession
    <3> QED BY <3>1, <3>2
  <2>2. CASE d # c
    <3>1. lock'[d] = lock[d] /\ Busy(d)
      BY <1>1, <2>2 DEF NewSession, Busy
    <3>2. rows'[lock[d].sid] = rows[lock[d].sid] /\ Fits(lock[d], rows[lock[d].sid])
      BY <1>1, <3>1, InvParts DEF NewSession, HoldersFit
    <3> QED BY <3>1, <3>2
  <2> QED BY <2>1, <2>2
<1>4. BudgetShrinks
  BY <1>2, InvParts, BudgetKept
<1>5. Counted' /\ (Spent("crash") > 0 => Spent("crash")' > 0)
  BY <1>2, <1>4, InvParts, CountedFrame DEF Spent
<1>6. \A d \in Chats, kind \in JobKinds, t \in DOMAIN rows :
        WaitsFor(queue[d], kind, t) => WaitsFor(queue'[d], kind, t)
  BY <1>2, InvParts, DequeueOthers DEF JobKinds
<1>7. ASSUME NEW t \in DOMAIN rows
      PROVE  (Cared(t) => Cared(t)') /\ JobOnTime(t)'
  <2>1. rows'[t] = rows[t] /\ rows[t].chat \in Chats /\ t # s
    BY <1>1 DEF NewSession
  <2>2. \/ lock'[rows[t].chat] = lock[rows[t].chat]
        \/ lock[rows[t].chat].pc = "free" /\ lock'[rows[t].chat].sid # t
    BY <1>1, <2>1 DEF NewSession
  <2> QED BY <1>2, <1>5, <1>6, <2>1, <2>2, OtherSession
<1>8. Cared(s)'
  BY <1>1 DEF NewSession, Cared, Carries
<1>9. JobOnTime(s)'
  <2>1. \A j \in jobs' : j.sid # s
    BY <1>1, <1>2, InvParts DEF NewSession, Consistent, References
  <2> QED BY <2>1 DEF JobOnTime
<1>10. \A t \in DOMAIN rows' : t = s \/ t \in DOMAIN rows
  BY <1>1 DEF NewSession
<1>11. NoneForgotten'
  BY <1>2, <1>7, <1>8, <1>10, InvParts DEF NoneForgotten
<1>12. JobsOnTime'
  BY <1>7, <1>9, <1>10 DEF JobsOnTime
<1> QED BY <1>3, <1>5, <1>11, <1>12 DEF JobsKept
-----------------------------------------------------------------------------
(* The shape of the steps of a holder.                                     *)

LEMMA AtFields ==
  ASSUME NEW op \in Op, NEW pc \in Pc, NEW at, at = [op EXCEPT !.pc = pc]
  PROVE  /\ at \in Op /\ at.pc = pc /\ at.sid = op.sid /\ at.req = op.req
         /\ at.old = op.old /\ at.cur = op.cur /\ at.since = op.since
BY DEF Op

LEMMA WithFields ==
  ASSUME NEW op \in Op, NEW r \in Row, NEW with, with = [op EXCEPT !.cur = r]
  PROVE  /\ with \in Op /\ with.pc = op.pc /\ with.sid = op.sid /\ with.req = op.req
         /\ with.old = op.old /\ with.cur = r
BY DEF Op

LEMMA HolderStep ==
  ASSUME Consistent, NEW c \in Chats, lock[c].pc # "free", NEW s, s = lock[c].sid,
         NEW r \in Row, r.chat = c, rows' = [rows EXCEPT ![s] = r],
         NEW next \in Op \cup {NoOp}, lock' = [lock EXCEPT ![c] = next],
         next.pc # "free" => next.sid = s /\ Fits(next, r)
  PROVE  Step(c, s, r, next)
BY HolderFacts DEF Step

\* A step that writes no row.
LEMMA SameRowStep ==
  ASSUME Consistent, NEW c \in Chats, lock[c].pc # "free", NEW s, s = lock[c].sid,
         UNCHANGED rows,
         NEW next \in Op \cup {NoOp}, lock' = [lock EXCEPT ![c] = next],
         next.pc # "free" => next.sid = s /\ Fits(next, rows[s])
  PROVE  Step(c, s, rows[s], next)
<1>1. s \in DOMAIN rows /\ rows[s] \in Row /\ rows[s].chat = c
  BY HolderFacts
<1>2. rows' = [rows EXCEPT ![s] = rows[s]]
  BY <1>1, TypeParts
<1> QED BY <1>1, <1>2, HolderStep

\* What a holder has and its session is.
LEMMA HolderFits ==
  ASSUME Consistent, HoldersFit, NEW c \in Chats, lock[c].pc # "free"
  PROVE  /\ Fits(lock[c], rows[lock[c].sid]) /\ lock[c] \in Op
         /\ lock[c].sid \in DOMAIN rows /\ rows[lock[c].sid] \in Row
         /\ rows[lock[c].sid].chat = c /\ lock[c].cur \in Row
         /\ lock[c].old \in Row \cup {NoRow}
         /\ lock[c].pc \notin Completion => rows[lock[c].sid].status \in OpenStatus
BY HolderFacts DEF HoldersFit, Busy, HolderMayHave, Completion

LEMMA ShoutShape ==
  ASSUME Consistent, HoldersFit, NEW c \in Chats, Shout(c)
  PROVE  \E s, next :
           /\ s = lock[c].sid /\ Step(c, s, rows[s], next)
           /\ next.pc = "card" /\ next.old = NoRow /\ next.req = lock[c].req
           /\ lock[c].pc = "shout" /\ lock[c].old = NoRow /\ rows[s].status = "creating"
<1>1. PICK s, op, next : s = lock[c].sid /\ op = lock[c] /\ next = [op EXCEPT !.pc = "card"]
  OBVIOUS
<1>2. op.pc = "shout" /\ UNCHANGED rows /\ lock' = [lock EXCEPT ![c] = next]
  BY <1>1 DEF Shout, Hold
<1>3. Fits(op, rows[s]) /\ op \in Op /\ op.cur \in Row
  BY <1>1, <1>2, HolderFits
<1>4. /\ next \in Op /\ next.pc = "card" /\ next.sid = s /\ next.req = op.req
      /\ next.old = op.old /\ next.cur = op.cur
  <2>1. "card" \in Pc
    BY DEF Pc
  <2> QED BY <1>1, <1>3, <2>1, AtFields
<1>5. op.old = NoRow /\ rows[s].status = "creating"
  BY <1>2, <1>3 DEF Fits
<1>6. Fits(next, rows[s])
  BY <1>2, <1>3, <1>4, <1>5 DEF Fits, Completion
<1>7. Step(c, s, rows[s], next)
  BY <1>1, <1>2, <1>4, <1>6, SameRowStep
<1> QED BY <1>1, <1>2, <1>4, <1>5, <1>7

\* Where an operation goes after its card.
LEMMA ReplacePinFields ==
  ASSUME NEW op \in Op, NEW next, next = ReplacePin(op)
  PROVE  /\ next \in Op \cup {NoOp}
         /\ next.pc \in {"free", "announce", "pin", "unpinOld"}
         /\ next.pc # "free" =>
              next.sid = op.sid /\ next.req = op.req /\ next.old = op.old /\ next.cur = op.cur
         /\ op.old.msg = op.cur.msg => next.pc \in {"free", "announce"}
         /\ op.old.msg # op.cur.msg => next.pc = IF op.old.msg = NULL THEN "pin" ELSE "unpinOld"
<1>1. op.cur \in Row /\ NoOp.pc = "free"
  BY DEF Op, NoOp
<1>2. ASSUME NEW pc \in {"announce", "pin", "unpinOld"}
      PROVE  \A at : at = [op EXCEPT !.pc = pc] =>
               /\ at \in Op /\ at.pc = pc /\ at.sid = op.sid /\ at.req = op.req
               /\ at.old = op.old /\ at.cur = op.cur
  <2>1. pc \in Pc
    BY DEF Pc
  <2> QED BY <2>1, AtFields
<1>3. CASE op.old.msg = op.cur.msg
  <2>1. next \in {[op EXCEPT !.pc = "announce"], NoOp}
    BY <1>3 DEF ReplacePin, AnnounceOrEnd
  <2> QED BY <1>1, <1>2, <1>3, <2>1
<1>4. CASE op.old.msg # op.cur.msg
  <2>1. PICK pc \in {"pin", "unpinOld"} : pc = IF op.old.msg = NULL THEN "pin" ELSE "unpinOld"
    OBVIOUS
  <2>2. next = [op EXCEPT !.pc = pc]
    BY <1>4, <2>1 DEF ReplacePin
  <2> QED BY <1>2, <1>4, <2>1, <2>2
<1> QED BY <1>3, <1>4
\* The card is out: the session has its message, is active, and its lock goes on to the pin.
LEMMA CardPublishedShape ==
  ASSUME Consistent, HoldersFit, NEW c \in Chats, CardPublished(c)
  PROVE  \E s, r, op, next :
           /\ op = lock[c] /\ op.pc = "card" /\ op \in Op /\ s = op.sid /\ Step(c, s, r, next)
           /\ r.msg = PublishedId(op) /\ r.msg # NULL /\ r.time = rows[s].time
           /\ r.status = "active" /\ r.members = rows[s].members
           /\ rows[s].status = "creating" => op.req.kind \in {"propose", "recover"}
           /\ rows[s].status \in OpenStatus
           /\ IF op.req.kind = "propose"
              THEN jobs' = ScheduleSession(jobs, s, r.time) /\ missed' = missed \ {s}
              ELSE UNCHANGED <<jobs, missed>>
           /\ next.pc \in {"free", "announce", "pin", "unpinOld"}
           /\ next.pc # "free" =>
                next.old = op.old /\ next.req = op.req /\ next.cur = r /\ next.sid = s
           /\ op.old.msg = r.msg => next.pc \in {"free", "announce"}
           /\ op.old.msg # r.msg => next.pc = IF op.old.msg = NULL THEN "pin" ELSE "unpinOld"
<1>1. PICK s, op : op = lock[c] /\ s = op.sid
  OBVIOUS
<1>2. PICK saved : saved = UpdateMessage(rows[s], PublishedId(op))
  OBVIOUS
<1>3. PICK r : r = IF op.req.kind \in {"propose", "recover"} THEN Activate(saved) ELSE saved
  OBVIOUS
<1>4. PICK with : with = [op EXCEPT !.cur = r]
  OBVIOUS
<1>5. PICK next : next = ReplacePin(with)
  OBVIOUS
<1>6. /\ op.pc = "card" /\ rows' = [rows EXCEPT ![s] = r] /\ lock' = [lock EXCEPT ![c] = next]
      /\ IF op.req.kind = "propose"
         THEN jobs' = ScheduleSession(jobs, s, r.time) /\ missed' = missed \ {s}
         ELSE UNCHANGED <<jobs, missed>>
  BY <1>1, <1>2, <1>3, <1>4, <1>5 DEF CardPublished, Hold
<1>7. /\ op \in Op /\ s \in DOMAIN rows /\ rows[s] \in Row /\ rows[s].chat = c
      /\ op.cur \in Row /\ op.old \in Row \cup {NoRow}
      /\ rows[s].status \in OpenStatus /\ Fits(op, rows[s])
  BY <1>1, <1>6, HolderFits DEF Completion
<1>8. PublishedId(op) \in Nat /\ PublishedId(op) # NULL
  <2>1. TypeOK /\ op.sid \in DOMAIN rows
    BY <1>1, <1>7, TypeParts
  <2>2. PublishedId(op) \in Nat /\ Len(cards) \in Nat
    BY <1>7, <2>1, PublishedFacts, TypeFacts
  <2> QED BY <2>2 DEF PublishedId, Available, NULL
<1>9. /\ saved \in Row /\ saved.chat = c /\ saved.status = rows[s].status
      /\ saved.msg = PublishedId(op) /\ saved.time = rows[s].time /\ saved.members = rows[s].members
  BY <1>2, <1>7, <1>8, UpdatedRow DEF UpdateMessage, Row
<1>10. /\ op.req.kind \notin {"propose", "recover"} => rows[s].status = "active"
       /\ op.req.kind # "complete"
  <2>1. CASE op.old # NoRow
    BY <1>6, <1>7, <2>1 DEF Fits, Completion, WroteRow
  <2>2. CASE op.old = NoRow
    BY <1>6, <1>7, <2>2 DEF Fits, Completion
  <2> QED BY <2>1, <2>2
<1>11. /\ r \in Row /\ r.chat = c /\ r.status = "active" /\ r.msg = PublishedId(op)
       /\ r.time = rows[s].time /\ r.members = rows[s].members
  <2>1. CASE op.req.kind \in {"propose", "recover"}
    <3>1. r = Activate(saved)
      BY <1>3, <2>1
    <3> QED BY <1>7, <1>9, <3>1, ActivatedRow DEF Activate, Row, OpenStatus
  <2>2. CASE op.req.kind \notin {"propose", "recover"}
    BY <1>3, <1>9, <1>10, <2>2
  <2> QED BY <2>1, <2>2
<1>12. /\ with \in Op /\ with.sid = s /\ with.req = op.req /\ with.old = op.old /\ with.cur = r
  BY <1>1, <1>4, <1>7, <1>11, WithFields
<1>13. /\ next \in Op \cup {NoOp}
       /\ next.pc \in {"free", "announce", "pin", "unpinOld"}
       /\ next.pc # "free" =>
            next.sid = s /\ next.req = op.req /\ next.old = op.old /\ next.cur = r
       /\ op.old.msg = r.msg => next.pc \in {"free", "announce"}
       /\ op.old.msg # r.msg => next.pc = IF op.old.msg = NULL THEN "pin" ELSE "unpinOld"
  BY <1>5, <1>12, ReplacePinFields
<1>14. ASSUME next.pc # "free" PROVE Fits(next, r)
  <2>1. op.req.kind = "recover" => next.pc = "pin" /\ op.old = NoRow
    <3>1. op.req.kind = "recover" => op.old = NoRow /\ op.old.msg = NULL
      BY <1>7 DEF Fits, NoRow
    <3> QED BY <1>8, <1>11, <1>13, <3>1
  <2> QED BY <1>10, <1>11, <1>13, <1>14, <2>1 DEF Fits, Completion
<1>15. Step(c, s, r, next)
  BY <1>1, <1>6, <1>11, <1>13, <1>14, HolderStep
<1>16. rows[s].status = "creating" => op.req.kind \in {"propose", "recover"}
  BY <1>10
<1>17. r.msg # NULL
  BY <1>8, <1>11
<1> HIDE <1>2, <1>3, <1>4, <1>5
<1> QED BY <1>1, <1>6, <1>7, <1>11, <1>13, <1>15, <1>16, <1>17

\* The card is not out: the session is given up, or is as before the operation again.
LEMMA CardFailsShape ==
  ASSUME Consistent, HoldersFit, NEW c \in Chats, CardFails(c)
  PROVE  \E s, r, op :
           /\ op = lock[c] /\ op.pc = "card" /\ op \in Op /\ s = op.sid /\ Step(c, s, r, NoOp)
           /\ r.msg = rows[s].msg
           /\ \/ r.status = "failed"
              \/ /\ op.old \in Row /\ op.req.kind # "recover" /\ op.req.kind # "complete"
                 /\ r.status = rows[s].status /\ r.time = op.old.time
                 /\ op.old.members \subseteq r.members
<1>1. PICK s, op : op = lock[c] /\ s = op.sid
  OBVIOUS
<1>2. PICK r0 : r0 = rows[s]
  OBVIOUS
<1>3. PICK r : r = Compensated(op, r0)
  OBVIOUS
<1>4. /\ op.pc = "card" /\ rows' = [rows EXCEPT ![s] = r] /\ lock' = [lock EXCEPT ![c] = NoOp]
  BY <1>1, <1>2, <1>3 DEF CardFails, Release, Hold
<1>5. /\ op \in Op /\ s \in DOMAIN rows /\ r0 \in Row /\ r0.chat = c /\ op.req \in Request
      /\ op.cur \in Row /\ op.old \in Row \cup {NoRow} /\ Fits(op, r0)
  BY <1>1, <1>2, <1>4, HolderFits, HolderFacts
<1>6. NoOp.pc = "free" /\ NoOp \in Op \cup {NoOp}
  BY DEF NoOp
<1>7. /\ r \in Row /\ r.chat = c /\ r.msg = r0.msg
      /\ \/ r.status = "failed"
         \/ /\ op.old \in Row /\ op.req.kind # "recover" /\ op.req.kind # "complete"
            /\ r.status = r0.status /\ r.time = op.old.time /\ op.old.members \subseteq r.members
  <2>1. CASE op.req.kind = "recover" \/ op.old = NoRow
    <3>1. r = MarkTerminal(r0, "failed")
      BY <1>3, <2>1 DEF Compensated
    <3> QED BY <1>5, <3>1, TerminalRow DEF MarkTerminal, Row, EndStatus
  <2>2. CASE op.req.kind # "recover" /\ op.old # NoRow
    <3>1. op.old \in Row /\ op.req.kind # "complete" /\ WroteRow(op, r0)
      BY <1>4, <1>5, <2>2 DEF Fits, Completion
    <3>2. CASE op.req.kind = "propose"
      <4>1. PICK u \in Users, old \in Row : u = op.req.user /\ old = op.old
        BY <1>5, <3>1, <3>2, RequestFields
      <4>2. PICK t \in Nat : t = op.req.time
        BY <1>5, <3>2, RequestFields
      <4>3. r0 = Reschedule(old, u, t)
        BY <3>1, <3>2, <4>1, <4>2 DEF WroteRow
      <4>4. PICK back : back = Reschedule(r0, old.proposer, old.time)
        OBVIOUS
      <4>5. r = IF u \in old.members THEN back ELSE Leave(back, u)
        BY <1>3, <2>2, <3>2, <4>1, <4>4 DEF Compensated
      <4>6. old.proposer \in Users /\ old.time \in Nat /\ r0.time \in Nat
        BY <1>5 DEF Row
      <4>7. /\ r0.status = old.status /\ r0.msg = old.msg /\ r0.members = old.members \cup {u}
            /\ old.status # "active" => r0.time = old.time
        BY <4>3 DEF Reschedule, Row
      <4>8. /\ back \in Row /\ back.chat = c /\ back.status = r0.status
        BY <1>5, <4>4, <4>6, RescheduledRow
      <4>9. /\ back.msg = r0.msg /\ back.members = r0.members \cup {old.proposer}
            /\ back.time = IF r0.status = "active" THEN old.time ELSE r0.time
        BY <1>5, <4>4 DEF Reschedule, Row
      <4>10. /\ Leave(back, u) \in Row /\ Leave(back, u).chat = c
             /\ Leave(back, u).status = r0.status /\ Leave(back, u).msg = r0.msg
             /\ Leave(back, u).time = back.time /\ Leave(back, u).members = back.members \ {u}
        BY <4>8, <4>9, ParticipantRow DEF Leave, Row
      <4> HIDE <4>3, <4>4
      <4> QED BY <3>1, <3>2, <4>1, <4>5, <4>7, <4>8, <4>9, <4>10
    <3>3. CASE op.req.kind \in {"join", "leave"}
      <4>1. PICK u \in Users, old \in Row : u = op.req.user /\ old = op.old
        BY <1>5, <3>1, <3>3, RequestFields
      <4>2. \/ r0 = Join(old, u) /\ u \notin old.members /\ r = Leave(r0, u)
            \/ r0 = Leave(old, u) /\ r = Join(r0, u)
        BY <1>3, <2>2, <3>1, <3>3, <4>1 DEF WroteRow, Compensated
      <4>3. /\ r \in Row /\ r.chat = c /\ r.status = r0.status
        BY <1>5, <4>2, ParticipantRow
      <4>4. /\ r.msg = r0.msg /\ r.time = old.time /\ old.members \subseteq r.members
        BY <4>2 DEF Join, Leave, Row
      <4> HIDE <4>2
      <4> QED BY <2>2, <3>1, <4>1, <4>3, <4>4
    <3>4. CASE op.req.kind \notin {"propose", "join", "leave"}
      <4>1. r0 = op.old /\ r = r0
        BY <1>3, <2>2, <3>1, <3>4 DEF WroteRow, Compensated
      <4> QED BY <1>5, <2>2, <3>1, <4>1
    <3> QED BY <3>2, <3>3, <3>4
  <2> QED BY <2>1, <2>2
<1>8. Step(c, s, r, NoOp)
  BY <1>1, <1>4, <1>6, <1>7, HolderStep
<1> HIDE <1>3
<1> QED BY <1>1, <1>2, <1>4, <1>5, <1>7, <1>8
LEMMA UnpinOldShape ==
  ASSUME Consistent, HoldersFit, NEW c \in Chats, UnpinOld(c)
  PROVE  \E s, op, next :
           /\ op = lock[c] /\ op.pc = "unpinOld" /\ op \in Op /\ s = op.sid
           /\ Step(c, s, rows[s], next)
           /\ rows[s].status = "active" /\ op.req.kind \notin {"recover", "complete"}
           /\ next.pc = "pin" /\ next.cur = op.cur /\ next.old = op.old
<1>1. PICK s, op, next : s = op.sid /\ op = lock[c] /\ next = [op EXCEPT !.pc = "pin"]
  OBVIOUS
<1>2. op.pc = "unpinOld" /\ UNCHANGED rows /\ lock' = [lock EXCEPT ![c] = next]
  BY <1>1 DEF UnpinOld, Hold
<1>3. Fits(op, rows[s]) /\ op \in Op
  BY <1>1, <1>2, HolderFits
<1>4. /\ next \in Op /\ next.pc = "pin" /\ next.sid = s /\ next.req = op.req
      /\ next.old = op.old /\ next.cur = op.cur
  <2>1. "pin" \in Pc
    BY DEF Pc
  <2> QED BY <1>1, <1>3, <2>1, AtFields
<1>5. rows[s].status = "active" /\ op.req.kind \notin {"recover", "complete"}
  BY <1>2, <1>3 DEF Fits, Completion
<1>6. Fits(next, rows[s])
  BY <1>2, <1>3, <1>4, <1>5 DEF Fits, Completion
<1>7. Step(c, s, rows[s], next)
  BY <1>1, <1>2, <1>4, <1>6, SameRowStep
<1> WITNESS s, op, next
<1> QED BY <1>1, <1>2, <1>3, <1>4, <1>5, <1>7

LEMMA PinShape ==
  ASSUME Consistent, HoldersFit, NEW c \in Chats, Pin(c)
  PROVE  \E s, op, next :
           /\ op = lock[c] /\ op.pc = "pin" /\ op \in Op /\ s = op.sid
           /\ Step(c, s, rows[s], next)
           /\ rows[s].status = "active" /\ op.req.kind # "complete"
           /\ next.pc \in {"free", "announce"}
           /\ IF op.req.kind = "recover"
              THEN jobs' = ScheduleSession(jobs, s, rows[s].time) /\ missed' = missed \ {s}
              ELSE UNCHANGED <<jobs, missed>>
<1>1. PICK s, op : s = op.sid /\ op = lock[c]
  OBVIOUS
<1>2. PICK next : next = IF op.req.kind = "recover" THEN NoOp ELSE AnnounceOrEnd(op)
  OBVIOUS
<1>3. /\ op.pc = "pin" /\ UNCHANGED rows /\ lock' = [lock EXCEPT ![c] = next]
      /\ IF op.req.kind = "recover"
         THEN jobs' = ScheduleSession(jobs, s, op.cur.time) /\ missed' = missed \ {s}
         ELSE UNCHANGED <<jobs, missed>>
  BY <1>1, <1>2 DEF Pin, Hold, Release
<1>4. Fits(op, rows[s]) /\ op \in Op
  BY <1>1, <1>3, HolderFits
<1>5. rows[s].status = "active" /\ op.req.kind # "complete" /\ op.cur.time = rows[s].time
  BY <1>3, <1>4 DEF Fits, Completion
<1>6. PICK at : at = [op EXCEPT !.pc = "announce"]
  OBVIOUS
<1>7. /\ at \in Op /\ at.pc = "announce" /\ at.sid = s /\ at.req = op.req
      /\ at.old = op.old /\ at.cur = op.cur
  <2>1. "announce" \in Pc
    BY DEF Pc
  <2> QED BY <1>1, <1>4, <1>6, <2>1, AtFields
<1>8. next = NoOp \/ (next = at /\ op.req.kind # "recover")
  BY <1>2, <1>6 DEF AnnounceOrEnd
<1>9. op.req.kind # "recover" => Fits(at, rows[s])
  BY <1>3, <1>4, <1>5, <1>7 DEF Fits, Completion
<1>10. NoOp.pc = "free" /\ next \in Op \cup {NoOp} /\ next.pc \in {"free", "announce"}
  BY <1>7, <1>8 DEF NoOp
<1>11. Step(c, s, rows[s], next)
  BY <1>1, <1>3, <1>7, <1>8, <1>9, <1>10, SameRowStep
<1> QED BY <1>1, <1>3, <1>4, <1>5, <1>10, <1>11

LEMMA AnnounceShape ==
  ASSUME Consistent, HoldersFit, NEW c \in Chats, Announce(c)
  PROVE  \E s, op :
           /\ op = lock[c] /\ op.pc = "announce" /\ op \in Op /\ s = op.sid
           /\ Step(c, s, rows[s], NoOp)
           /\ rows[s].status = "active" /\ op.req.kind \notin {"recover", "complete"}
<1>1. PICK s, op : s = op.sid /\ op = lock[c]
  OBVIOUS
<1>2. op.pc = "announce" /\ UNCHANGED rows /\ lock' = [lock EXCEPT ![c] = NoOp]
  BY <1>1 DEF Announce, Hold, Release
<1>3. Fits(op, rows[s]) /\ op \in Op
  BY <1>1, <1>2, HolderFits
<1>4. rows[s].status = "active" /\ op.req.kind \notin {"recover", "complete"}
  BY <1>2, <1>3 DEF Fits, Completion
<1>5. NoOp.pc = "free" /\ NoOp \in Op \cup {NoOp}
  BY DEF NoOp
<1>6. Step(c, s, rows[s], NoOp)
  BY <1>1, <1>2, <1>5, SameRowStep
<1> QED BY <1>1, <1>2, <1>3, <1>4, <1>6

\* A completion marks its session before it closes the card.
LEMMA CompleteUnpinShape ==
  ASSUME Consistent, HoldersFit, NEW c \in Chats, CompleteUnpin(c)
  PROVE  \E s, r, op, next :
           /\ op = lock[c] /\ op.pc = "unpin" /\ op \in Op /\ s = op.sid /\ Step(c, s, r, next)
           /\ r.status = "completing" /\ r.msg = rows[s].msg
           /\ rows[s].status \in {"active", "completing"}
           /\ next.pc = "close" /\ next.cur = r /\ next.req = op.req /\ op.req.kind = "complete"
           /\ next.sid = s
<1>1. PICK s, op : s = op.sid /\ op = lock[c]
  OBVIOUS
<1>2. PICK until : until = op.cur.time + RETRY_DELAYS[3]
  OBVIOUS
<1>3. PICK r : r = IF op.cur.status = "active" THEN MarkCompleting(rows[s], until) ELSE rows[s]
  OBVIOUS
<1>4. PICK next : next = [op EXCEPT !.pc = "close", !.cur = r]
  OBVIOUS
<1>5. /\ op.pc = "unpin" /\ rows' = [rows EXCEPT ![s] = r] /\ lock' = [lock EXCEPT ![c] = next]
  BY <1>1, <1>2, <1>3, <1>4 DEF CompleteUnpin, Hold
<1>6. /\ op \in Op /\ s \in DOMAIN rows /\ rows[s] \in Row /\ rows[s].chat = c
      /\ op.cur \in Row /\ Fits(op, rows[s])
      /\ rows[s].status \in {"active", "completing"}
  BY <1>1, <1>5, HolderFits, HolderFacts DEF HolderMayHave
<1>7. op.cur = rows[s] /\ op.req.kind = "complete"
  BY <1>5, <1>6 DEF Fits, Completion
<1>8. r \in Row /\ r.chat = c /\ r.status = "completing" /\ r.msg = rows[s].msg
  <2>1. until \in Nat
    BY <1>2, <1>6 DEF RETRY_DELAYS, Row
  <2>2. CASE op.cur.status = "active"
    <3>1. r = MarkCompleting(rows[s], until)
      BY <1>3, <2>2
    <3> QED BY <1>6, <2>1, <3>1, CompletingRow DEF MarkCompleting, Row
  <2>3. CASE op.cur.status # "active"
    BY <1>3, <1>6, <1>7, <2>3
  <2> QED BY <2>2, <2>3
<1>9. /\ next \in Op /\ next.pc = "close" /\ next.sid = s /\ next.req = op.req
      /\ next.old = op.old /\ next.cur = r
  BY <1>1, <1>4, <1>6, <1>8 DEF Op, Pc
<1>10. Fits(next, r)
  BY <1>5, <1>6, <1>7, <1>8, <1>9 DEF Fits, Completion
<1>11. Step(c, s, r, next)
  BY <1>1, <1>5, <1>8, <1>9, <1>10, HolderStep
<1> HIDE <1>3, <1>4
<1> QED BY <1>1, <1>5, <1>6, <1>7, <1>8, <1>9, <1>11

LEMMA CompleteCloseShape ==
  ASSUME Consistent, HoldersFit, NEW c \in Chats, CompleteClose(c)
  PROVE  \E s, r, op, next :
           /\ op = lock[c] /\ op.pc = "close" /\ op \in Op /\ s = op.sid /\ Step(c, s, r, next)
           /\ r.msg = rows[s].msg /\ op.cur = rows[s] /\ rows[s].status = "completing"
           /\ \/ r.status = "completed" /\ next = NoOp
              \/ /\ r = rows[s] /\ next.pc = "ready" /\ next.cur = op.cur
                 /\ next.req.kind = "complete" /\ next.sid = s
<1>1. PICK s, op : s = op.sid /\ op = lock[c]
  OBVIOUS
<1>2. PICK ready : ready = [op EXCEPT !.pc = "ready"]
  OBVIOUS
<1>3. op.pc = "close"
  BY <1>1 DEF CompleteClose
<1>4. /\ op \in Op /\ s \in DOMAIN rows /\ rows[s] \in Row /\ rows[s].chat = c
      /\ op.cur \in Row /\ Fits(op, rows[s])
  BY <1>1, <1>3, HolderFits
<1>5. op.cur = rows[s] /\ op.req.kind = "complete" /\ rows[s].status = "completing"
  BY <1>3, <1>4 DEF Fits, Completion
<1>6. NoOp.pc = "free" /\ NoOp \in Op \cup {NoOp}
  BY DEF NoOp
<1>7. CASE op.cur.members = {}
  <2>1. PICK r : r = MarkTerminal(rows[s], "completed")
    OBVIOUS
  <2>2. rows' = [rows EXCEPT ![s] = r] /\ lock' = [lock EXCEPT ![c] = NoOp]
    BY <1>1, <1>7, <2>1 DEF CompleteClose, Release, Hold
  <2>3. r \in Row /\ r.chat = c /\ r.status = "completed" /\ r.msg = rows[s].msg
    BY <1>4, <2>1, TerminalRow DEF MarkTerminal, Row, EndStatus
  <2>4. Step(c, s, r, NoOp)
    BY <1>1, <1>3, <1>6, <2>2, <2>3, HolderStep
  <2> QED BY <1>1, <1>3, <1>4, <1>5, <2>3, <2>4
<1>8. CASE op.cur.members # {}
  <2>1. UNCHANGED rows /\ lock' = [lock EXCEPT ![c] = ready]
    BY <1>1, <1>2, <1>8 DEF CompleteClose, Hold
  <2>2. /\ ready \in Op /\ ready.pc = "ready" /\ ready.sid = s /\ ready.req = op.req
        /\ ready.old = op.old /\ ready.cur = op.cur
    <3>1. "ready" \in Pc
      BY DEF Pc
    <3> QED BY <1>1, <1>2, <1>4, <3>1, AtFields
  <2>3. Fits(ready, rows[s])
    BY <1>3, <1>4, <1>5, <2>2 DEF Fits, Completion
  <2>4. Step(c, s, rows[s], ready)
    BY <1>1, <1>3, <2>1, <2>2, <2>3, SameRowStep
  <2> QED BY <1>1, <1>3, <1>4, <1>5, <2>2, <2>4
<1> QED BY <1>7, <1>8

LEMMA ReadySentShape ==
  ASSUME Consistent, HoldersFit, NEW c \in Chats, ReadySent(c)
  PROVE  \E s, r, op :
           /\ op = lock[c] /\ op.pc = "ready" /\ op \in Op /\ s = op.sid /\ Step(c, s, r, NoOp)
           /\ r.status = "completed" /\ r.msg = rows[s].msg /\ op.cur = rows[s]
<1>1. PICK s, op : s = op.sid /\ op = lock[c]
  OBVIOUS
<1>2. PICK r : r = MarkTerminal(rows[s], "completed")
  OBVIOUS
<1>3. op.pc = "ready" /\ rows' = [rows EXCEPT ![s] = r] /\ lock' = [lock EXCEPT ![c] = NoOp]
  BY <1>1, <1>2 DEF ReadySent, Release, Hold
<1>4. /\ op \in Op /\ s \in DOMAIN rows /\ rows[s] \in Row /\ rows[s].chat = c
      /\ Fits(op, rows[s])
  BY <1>1, <1>3, HolderFits
<1>5. op.cur = rows[s]
  BY <1>3, <1>4 DEF Fits, Completion
<1>6. r \in Row /\ r.chat = c /\ r.status = "completed" /\ r.msg = rows[s].msg
  BY <1>2, <1>4, TerminalRow DEF MarkTerminal, Row, EndStatus
<1>7. NoOp.pc = "free" /\ NoOp \in Op \cup {NoOp}
  BY DEF NoOp
<1>8. Step(c, s, r, NoOp)
  BY <1>1, <1>3, <1>6, <1>7, HolderStep
<1> HIDE <1>2
<1> QED BY <1>1, <1>3, <1>4, <1>5, <1>6, <1>8

\* Nobody could be called: the session waits for a retry, or is given up.
LEMMA ReadyFailsShape ==
  ASSUME Consistent, HoldersFit, NEW c \in Chats, ReadyFails(c)
  PROVE  \E s, r, op :
           /\ op = lock[c] /\ op.pc = "ready" /\ op \in Op /\ s = op.sid /\ Step(c, s, r, NoOp)
           /\ r.msg = rows[s].msg
           /\ \/ r.status = "failed" /\ UNCHANGED <<jobs, missed>>
              \/ /\ r.status = "completing" /\ missed' = missed \ {s}
                 /\ \E at : jobs' = AddDate(jobs, "complete", s, at)
<1>1. PICK s, op : s = op.sid /\ op = lock[c]
  OBVIOUS
<1>2. PICK attempts : attempts = op.cur.attempts + 1
  OBVIOUS
<1>3. PICK at : at = Latest(op.cur.time + RETRY_DELAYS[attempts], op.since)
  OBVIOUS
<1>4. /\ op.pc = "ready" /\ lock' = [lock EXCEPT ![c] = NoOp]
      /\ \/ rows' = [rows EXCEPT ![s] = MarkTerminal(rows[s], "failed")] /\ UNCHANGED <<jobs, missed>>
         \/ /\ ~(attempts > Len(RETRY_DELAYS))
            /\ rows' = [rows EXCEPT ![s] = MarkRetry(rows[s], attempts, at)]
            /\ jobs' = AddDate(jobs, "complete", s, at) /\ missed' = missed \ {s}
  BY <1>1, <1>2, <1>3 DEF ReadyFails, Release, Hold
<1>5. /\ op \in Op /\ s \in DOMAIN rows /\ rows[s] \in Row /\ rows[s].chat = c
      /\ op.cur \in Row /\ op.since \in Nat /\ Fits(op, rows[s])
  BY <1>1, <1>4, HolderFits, HolderFacts
<1>6. rows[s].status = "completing"
  BY <1>4, <1>5 DEF Fits, Completion
<1>7. NoOp.pc = "free" /\ NoOp \in Op \cup {NoOp}
  BY DEF NoOp
<1>8. CASE rows' = [rows EXCEPT ![s] = MarkTerminal(rows[s], "failed")] /\ UNCHANGED <<jobs, missed>>
  <2>1. PICK r : r = MarkTerminal(rows[s], "failed")
    OBVIOUS
  <2>2. r \in Row /\ r.chat = c /\ r.status = "failed" /\ r.msg = rows[s].msg
    BY <1>5, <2>1, TerminalRow DEF MarkTerminal, Row, EndStatus
  <2>3. Step(c, s, r, NoOp)
    BY <1>1, <1>4, <1>7, <1>8, <2>1, <2>2, HolderStep
  <2> QED BY <1>1, <1>4, <1>5, <1>8, <2>2, <2>3
<1>9. CASE /\ ~(attempts > Len(RETRY_DELAYS))
           /\ rows' = [rows EXCEPT ![s] = MarkRetry(rows[s], attempts, at)]
           /\ jobs' = AddDate(jobs, "complete", s, at) /\ missed' = missed \ {s}
  <2>1. PICK r : r = MarkRetry(rows[s], attempts, at)
    OBVIOUS
  <2>2. attempts \in Nat /\ at \in Nat
    <3>1. attempts \in 1..3 /\ op.cur.time \in Nat
      BY <1>2, <1>5, <1>9 DEF Row, RETRY_DELAYS
    <3>2. RETRY_DELAYS[attempts] \in Nat
      BY <3>1 DEF RETRY_DELAYS
    <3> QED BY <1>3, <1>5, <3>1, <3>2 DEF Latest
  <2>3. r \in Row /\ r.chat = c /\ r.status = "completing" /\ r.msg = rows[s].msg
    BY <1>5, <1>6, <2>1, <2>2, RetryRow DEF MarkRetry, Row
  <2>4. Step(c, s, r, NoOp)
    BY <1>1, <1>4, <1>7, <1>9, <2>1, <2>3, HolderStep
  <2> QED BY <1>1, <1>4, <1>5, <1>9, <2>3, <2>4
<1> QED BY <1>4, <1>8, <1>9
-----------------------------------------------------------------------------
(* Jobs in the steps of a holder.                                          *)

\* The holder ends its session, or leaves it the carer it has and the time its job has.
LEMMA HolderKeepsJobs ==
  ASSUME JobsInv, NEW c \in Chats, NEW s, NEW r, NEW next, Step(c, s, r, next),
         lock[c].pc # "free", UNCHANGED <<jobs, missed, queue, up>>, BudgetShrinks,
         next.pc # "card",
         \/ r.status \in EndStatus
         \/ /\ r.status = rows[s].status /\ ~Carries(lock[c], s)
            /\ r.time = Before(s).time
  PROVE  JobsKept
<1>1. s \in DOMAIN rows /\ rows[s].chat = c /\ r.chat = c
  BY DEF Step
<1>2. rows'[s] = r /\ lock'[c] = next
  BY InvParts, StepFacts
<1>3. OthersKept(s)
  BY DEF OthersKept
<1>4. ASSUME up PROVE Cared(s)'
  <2>1. CASE r.status \in EndStatus
    BY <1>2, <2>1 DEF Cared, Ended
  <2>2. CASE r.status = rows[s].status /\ ~Carries(lock[c], s)
    BY <1>1, <1>2, <1>4, <2>2, InvParts, OwnCare
  <2> QED BY <2>1, <2>2
<1>5. JobOnTime(s)'
  <2>1. CASE r.status \in EndStatus
    <3>1. rows'[s].status \notin OpenStatus
      BY <1>2, <2>1 DEF EndStatus, OpenStatus
    <3> QED BY <1>1, <3>1, OwnTime
  <2>2. CASE r.status = rows[s].status /\ r.time = Before(s).time
    <3>1. Before(s)' = r
      BY <1>1, <1>2 DEF Before, Reschedules
    <3>2. rows'[s].status = rows[s].status /\ Before(s).time' = Before(s).time
      BY <1>2, <2>2, <3>1
    <3> QED BY <1>1, <3>2, OwnTime
  <2> QED BY <2>1, <2>2
<1> QED BY <1>3, <1>4, <1>5, JobsFrame

\* The holder will go on to end its session or to schedule it.
LEMMA HolderCarriesJobs ==
  ASSUME JobsInv, NEW c \in Chats, NEW s, NEW r, NEW next, Step(c, s, r, next),
         lock[c].pc # "free", UNCHANGED <<jobs, missed, queue, up>>, BudgetShrinks,
         Carries(next, s),
         \/ r.status \notin OpenStatus
         \/ r.status = "active" /\ rows[s].status = "creating"
         \/ r = rows[s] /\ rows[s].status = "creating"
  PROVE  JobsKept
<1>1. s \in DOMAIN rows /\ rows[s].chat = c /\ r.chat = c
  BY DEF Step
<1>2. rows'[s] = r /\ lock'[c] = next
  BY InvParts, StepFacts
<1>3. OthersKept(s)
  BY DEF OthersKept
<1>4. Cared(s)'
  BY <1>1, <1>2 DEF Cared
<1>5. JobOnTime(s)'
  <2>1. CASE r.status \notin OpenStatus
    BY <1>1, <1>2, <2>1, OwnTime
  <2>2. CASE rows[s].status = "creating"
    <3>1. \A j \in jobs : ~(j.sid = s /\ j.kind = "complete")
      BY <1>1, <2>2, InvParts DEF JobOnTime
    <3> QED BY <3>1 DEF JobOnTime
  <2> QED BY <2>1, <2>2
<1> QED BY <1>3, <1>4, <1>5, JobsFrame

\* The holder gives its session a job.
LEMMA HolderSchedules ==
  ASSUME JobsInv, NEW c \in Chats, NEW s, NEW r, NEW next, Step(c, s, r, next),
         lock[c].pc # "free", UNCHANGED <<queue, up>>, BudgetShrinks, missed' = missed \ {s},
         next.pc # "card",
         \/ r.status = "active" /\ jobs' = ScheduleSession(jobs, s, r.time)
         \/ r.status = "completing" /\ \E at : jobs' = AddDate(jobs, "complete", s, at)
  PROVE  JobsKept
<1>1. s \in DOMAIN rows /\ rows[s].chat = c /\ r.chat = c
  BY DEF Step
<1>2. rows'[s] = r /\ lock'[c] = next
  BY InvParts, StepFacts
<1>3. /\ \A j \in jobs' : /\ j \in jobs \/ j.sid = s
                          /\ r.status = "active" /\ j.kind = "complete" /\ j.sid = s => j.at = r.time
      /\ \A j \in jobs : j \in jobs' \/ j.sid = s
      /\ \E j \in jobs' : j.kind = "complete" /\ j.sid = s
  <2>1. CASE r.status = "active" /\ jobs' = ScheduleSession(jobs, s, r.time)
    BY <2>1, SessionJobs
  <2>2. ASSUME NEW at, r.status = "completing", jobs' = AddDate(jobs, "complete", s, at)
        PROVE  /\ \A j \in jobs' : j \in jobs \/ j.sid = s
               /\ \A j \in jobs : j \in jobs' \/ j.sid = s
               /\ \E j \in jobs' : j.kind = "complete" /\ j.sid = s
    BY <2>2, AddDateJobs
  <2> QED BY <2>1, <2>2
<1>4. OthersKept(s)
  BY <1>3 DEF OthersKept
<1>5. Cared(s)'
  BY <1>2, <1>3 DEF Cared, Stored, KindFor
<1>6. JobOnTime(s)'
  <2>1. Before(s)' = r
    BY <1>1, <1>2 DEF Before, Reschedules
  <2> QED BY <1>2, <1>3, <2>1 DEF JobOnTime
<1> QED BY <1>4, <1>5, <1>6, JobsFrame

LEMMA ShoutJobs ==
  ASSUME JobsInv, NEW c \in Chats, Shout(c)
  PROVE  JobsKept
<1>1. PICK s, next :
        /\ s = lock[c].sid /\ Step(c, s, rows[s], next)
        /\ next.pc = "card" /\ next.old = NoRow /\ lock[c].pc = "shout"
        /\ rows[s].status = "creating"
  BY InvParts, ShoutShape
<1>2. UNCHANGED <<jobs, missed, queue, up, budget>>
  BY DEF Shout
<1>3. Carries(next, s)
  BY <1>1 DEF Step, Carries
<1>4. BudgetShrinks
  BY <1>2, InvParts, BudgetKept
<1> QED BY <1>1, <1>2, <1>3, <1>4, HolderCarriesJobs

LEMMA CardPublishedJobs ==
  ASSUME JobsInv, NEW c \in Chats, CardPublished(c)
  PROVE  JobsKept
<1>1. PICK s, r, op, next :
        /\ op = lock[c] /\ op.pc = "card" /\ op \in Op /\ s = op.sid /\ Step(c, s, r, next)
        /\ r.msg # NULL /\ r.time = rows[s].time /\ r.status = "active"
        /\ rows[s].status = "creating" => op.req.kind \in {"propose", "recover"}
        /\ rows[s].status \in OpenStatus
        /\ IF op.req.kind = "propose"
           THEN jobs' = ScheduleSession(jobs, s, r.time) /\ missed' = missed \ {s}
           ELSE UNCHANGED <<jobs, missed>>
        /\ next.pc \in {"free", "announce", "pin", "unpinOld"}
        /\ next.pc # "free" =>
             next.old = op.old /\ next.req = op.req /\ next.cur = r /\ next.sid = s
        /\ op.old.msg # r.msg => next.pc = IF op.old.msg = NULL THEN "pin" ELSE "unpinOld"
  BY InvParts, CardPublishedShape
<1>2. UNCHANGED <<queue, up>> /\ BudgetShrinks
  <2>1. Succeeds(lock[c]) /\ UNCHANGED <<queue, up>>
    BY DEF CardPublished
  <2> QED BY <2>1, InvParts, BudgetKept
<1>3. Fits(op, rows[s])
  BY <1>1, InvParts, HolderFits
<1>4. CASE op.req.kind = "propose"
  BY <1>1, <1>2, <1>4, HolderSchedules
<1>5. CASE op.req.kind = "recover"
  <2>1. op.old = NoRow /\ op.old.msg = NULL /\ rows[s].status = "creating"
    BY <1>1, <1>3, <1>5 DEF Fits, NoRow
  <2>2. Carries(next, s)
    BY <1>1, <1>5, <2>1 DEF Carries
  <2> QED BY <1>1, <1>2, <1>5, <2>1, <2>2, HolderCarriesJobs
<1>6. CASE op.req.kind \notin {"propose", "recover"}
  <2>1. op.old # NoRow /\ op.req.kind # "complete" /\ rows[s].status = "active"
    BY <1>1, <1>3, <1>6 DEF Fits, Completion, OpenStatus
  <2>2. op.old \in Row
    BY <1>1, <2>1 DEF Op
  <2>3. ~Carries(op, s)
    BY <1>1, <1>6, <2>1 DEF Carries
  <2>4. rows[s].time = op.old.time
    BY <1>1, <1>3, <1>6, <2>1, <2>2 DEF Fits, WroteRow, Join, Leave, Row
  <2>5. Before(s).time = op.old.time
    BY <1>1, <2>1 DEF Step, Before, Reschedules
  <2> QED BY <1>1, <1>2, <1>6, <2>1, <2>3, <2>4, <2>5, HolderKeepsJobs
<1> QED BY <1>4, <1>5, <1>6

LEMMA CardFailsJobs ==
  ASSUME JobsInv, NEW c \in Chats, CardFails(c)
  PROVE  JobsKept
<1>1. PICK s, r, op :
        /\ op = lock[c] /\ op.pc = "card" /\ op \in Op /\ s = op.sid /\ Step(c, s, r, NoOp)
        /\ \/ r.status = "failed"
           \/ /\ op.old \in Row /\ op.req.kind # "recover" /\ op.req.kind # "complete"
              /\ r.status = rows[s].status /\ r.time = op.old.time
  BY InvParts, CardFailsShape
<1>2. UNCHANGED <<jobs, missed, queue, up>> /\ BudgetShrinks
  <2>1. Fails(lock[c]) /\ UNCHANGED <<jobs, missed, queue, up>>
    BY DEF CardFails
  <2> QED BY <2>1, InvParts, BudgetKept
<1>3. NoOp.pc # "card"
  BY DEF NoOp
<1>4. CASE r.status = "failed"
  <2>1. r.status \in EndStatus
    BY <1>4 DEF EndStatus
  <2> QED BY <1>1, <1>2, <1>3, <2>1, HolderKeepsJobs
<1>5. CASE /\ op.old \in Row /\ op.req.kind # "recover" /\ op.req.kind # "complete"
           /\ r.status = rows[s].status /\ r.time = op.old.time
  <2>1. op.old # NoRow
    BY <1>5, RowNotNone
  <2>2. ~Carries(op, s)
    BY <1>1, <1>5, <2>1 DEF Carries
  <2>3. Before(s) = op.old
    BY <1>1, <2>1 DEF Step, Before, Reschedules
  <2> QED BY <1>1, <1>2, <1>3, <1>5, <2>2, <2>3, HolderKeepsJobs
<1> QED BY <1>1, <1>4, <1>5
LEMMA PinningJobs ==
  ASSUME JobsInv, NEW c \in Chats, UnpinOld(c) \/ Pin(c) \/ Announce(c)
  PROVE  JobsKept
<1>1. UNCHANGED <<queue, up>> /\ BudgetShrinks
  <2>1. UNCHANGED <<queue, up>> /\ (Tried(lock[c]) \/ UNCHANGED budget)
    BY DEF UnpinOld, Pin, Announce
  <2> QED BY <2>1, InvParts, BudgetKept
<1>2. PICK s, op, next :
        /\ op = lock[c] /\ op.pc \in {"unpinOld", "pin", "announce"} /\ s = op.sid
        /\ Step(c, s, rows[s], next)
        /\ rows[s].status = "active" /\ op.req.kind # "complete" /\ next.pc # "card"
        /\ IF op.req.kind = "recover"
           THEN jobs' = ScheduleSession(jobs, s, rows[s].time) /\ missed' = missed \ {s}
           ELSE UNCHANGED <<jobs, missed>>
  <2>1. CASE UnpinOld(c)
    <3>1. UNCHANGED <<jobs, missed>>
      BY <2>1 DEF UnpinOld
    <3>2. PICK s, op, next :
            /\ op = lock[c] /\ op.pc = "unpinOld" /\ s = op.sid /\ Step(c, s, rows[s], next)
            /\ rows[s].status = "active" /\ op.req.kind \notin {"recover", "complete"}
            /\ next.pc = "pin"
      BY <2>1, InvParts, UnpinOldShape
    <3> QED BY <3>1, <3>2
  <2>2. CASE Pin(c)
    BY <2>2, InvParts, PinShape
  <2>3. CASE Announce(c)
    <3>1. UNCHANGED <<jobs, missed>> /\ NoOp.pc # "card"
      BY <2>3 DEF Announce, NoOp
    <3>2. PICK s, op :
            /\ op = lock[c] /\ op.pc = "announce" /\ s = op.sid /\ Step(c, s, rows[s], NoOp)
            /\ rows[s].status = "active" /\ op.req.kind \notin {"recover", "complete"}
      BY <2>3, InvParts, AnnounceShape
    <3> QED BY <3>1, <3>2
  <2> QED BY <2>1, <2>2, <2>3
<1>3. lock[c].pc # "free"
  BY <1>2
<1>4. CASE op.req.kind = "recover"
  BY <1>1, <1>2, <1>3, <1>4, HolderSchedules
<1>5. CASE op.req.kind # "recover"
  <2>1. ~Carries(op, s)
    BY <1>2, <1>5 DEF Carries
  <2>2. Before(s) = rows[s]
    BY <1>2 DEF Step, Before, Reschedules
  <2> QED BY <1>1, <1>2, <1>3, <1>5, <2>1, <2>2, HolderKeepsJobs
<1> QED BY <1>4, <1>5

LEMMA CompletionJobs ==
  ASSUME JobsInv, NEW c \in Chats,
         CompleteUnpin(c) \/ CompleteClose(c) \/ ReadySent(c) \/ ReadyFails(c)
  PROVE  JobsKept
<1>1. UNCHANGED <<queue, up>> /\ BudgetShrinks /\ (~ReadyFails(c) => UNCHANGED <<jobs, missed>>)
  <2>1. /\ UNCHANGED <<queue, up>> /\ (Tried(lock[c]) \/ Succeeds(lock[c]) \/ Fails(lock[c]))
        /\ ~ReadyFails(c) => UNCHANGED <<jobs, missed>>
    BY DEF CompleteUnpin, CompleteClose, ReadySent, ReadyFails
  <2> QED BY <2>1, InvParts, BudgetKept
<1>2. NoOp.pc # "card" /\ {"completed", "failed"} \subseteq EndStatus
      /\ "completing" \notin OpenStatus
  BY DEF NoOp, EndStatus, OpenStatus
<1>3. CASE CompleteUnpin(c)
  <2>1. UNCHANGED <<jobs, missed>>
    BY <1>3 DEF CompleteUnpin
  <2>2. PICK s, r, op, next :
          /\ op = lock[c] /\ op.pc = "unpin" /\ s = op.sid /\ Step(c, s, r, next)
          /\ r.status = "completing" /\ next.pc = "close" /\ next.req = op.req
          /\ op.req.kind = "complete" /\ next.sid = s
    BY <1>3, InvParts, CompleteUnpinShape
  <2>3. Carries(next, s)
    BY <2>2 DEF Carries
  <2> QED BY <1>1, <1>2, <2>1, <2>2, <2>3, HolderCarriesJobs
<1>4. CASE CompleteClose(c)
  <2>1. UNCHANGED <<jobs, missed>>
    BY <1>4 DEF CompleteClose
  <2>2. PICK s, r, op, next :
          /\ op = lock[c] /\ op.pc = "close" /\ s = op.sid /\ Step(c, s, r, next)
          /\ rows[s].status = "completing"
          /\ \/ r.status = "completed" /\ next = NoOp
             \/ /\ r = rows[s] /\ next.pc = "ready"
                /\ next.req.kind = "complete" /\ next.sid = s
    BY <1>4, InvParts, CompleteCloseShape
  <2>3. CASE r.status = "completed" /\ next = NoOp
    BY <1>1, <1>2, <2>1, <2>2, <2>3, HolderKeepsJobs
  <2>4. CASE r = rows[s] /\ next.pc = "ready" /\ next.req.kind = "complete" /\ next.sid = s
    <3>1. Carries(next, s) /\ r.status \notin OpenStatus
      BY <1>2, <2>2, <2>4 DEF Carries
    <3> QED BY <1>1, <2>1, <2>2, <3>1, HolderCarriesJobs
  <2> QED BY <2>2, <2>3, <2>4
<1>5. CASE ReadySent(c)
  <2>1. UNCHANGED <<jobs, missed>>
    BY <1>5 DEF ReadySent
  <2>2. PICK s, r, op :
          /\ op = lock[c] /\ op.pc = "ready" /\ s = op.sid /\ Step(c, s, r, NoOp)
          /\ r.status = "completed"
    BY <1>5, InvParts, ReadySentShape
  <2> QED BY <1>1, <1>2, <2>1, <2>2, HolderKeepsJobs
<1>6. CASE ReadyFails(c)
  <2>1. PICK s, r, op :
          /\ op = lock[c] /\ op.pc = "ready" /\ s = op.sid /\ Step(c, s, r, NoOp)
          /\ \/ r.status = "failed" /\ UNCHANGED <<jobs, missed>>
             \/ /\ r.status = "completing" /\ missed' = missed \ {s}
                /\ \E at : jobs' = AddDate(jobs, "complete", s, at)
    BY <1>6, InvParts, ReadyFailsShape
  <2>2. CASE r.status = "failed" /\ UNCHANGED <<jobs, missed>>
    BY <1>1, <1>2, <2>1, <2>2, HolderKeepsJobs
  <2>3. CASE /\ r.status = "completing" /\ missed' = missed \ {s}
             /\ \E at : jobs' = AddDate(jobs, "complete", s, at)
    BY <1>1, <1>2, <2>1, <2>3, HolderSchedules
  <2> QED BY <2>1, <2>2, <2>3
<1> QED BY <1>3, <1>4, <1>5, <1>6

LEMMA LockStepJobs ==
  ASSUME JobsInv, NEW c \in Chats, LockStep(c)
  PROVE  JobsKept
BY StartNewJobs, StartRescheduleJobs, StartTapJobs, StartRefreshJobs, StartRecoverJobs,
   StartCompleteJobs, ShoutJobs, CardPublishedJobs, CardFailsJobs, PinningJobs, CompletionJobs
   DEF LockStep

-----------------------------------------------------------------------------
(* Jobs in the other steps.                                                *)

\* Users, the clock, the scheduler and the chat leave rows and locks alone.
LEMMA QuietJobs ==
  ASSUME JobsInv, UNCHANGED <<rows, lock, up>>, BudgetShrinks,
         \A j \in jobs' : j \in jobs,
         \A j \in jobs : \/ j \in jobs' \/ j.sid \in missed'
                         \/ j.kind = "refresh"
                         \/ WaitsFor(queue'[rows[j.sid].chat], j.kind, j.sid),
         \A s \in missed : s \in missed',
         \A d \in Chats, kind \in JobKinds, s \in DOMAIN rows :
           WaitsFor(queue[d], kind, s) => WaitsFor(queue'[d], kind, s)
  PROVE  JobsKept
<1>1. HoldersFit'
  BY InvParts DEF HoldersFit, Busy
<1>2. Counted'
  BY InvParts, CountedFrame
<1>3. ASSUME NEW s \in DOMAIN rows, Cared(s) PROVE Cared(s)'
  <2>1. rows[s].chat \in Chats
    BY InvParts, TypeFacts DEF Row
  <2>2. CASE Ended(s) \/ s \in missed \/ Carries(lock[rows[s].chat], s)
    BY <2>2 DEF Cared, Ended, Carries
  <2>3. CASE Stored(s)
    <3>1. PICK j \in jobs : j.sid = s /\ j.kind = KindFor(rows[s].status)
      BY <2>3 DEF Stored
    <3>2. j.kind # "refresh"
      BY <3>1, KindForIsJob
    <3>3. CASE j \in jobs'
      BY <3>1, <3>3 DEF Stored, Cared
    <3>4. CASE s \in missed'
      BY <3>4 DEF Cared
    <3>5. CASE WaitsFor(queue'[rows[s].chat], j.kind, s)
      BY <3>1, <3>5 DEF Waits, Cared
    <3> QED BY <3>1, <3>2, <3>3, <3>4, <3>5
  <2>4. CASE Waits(s)
    BY <2>1, <2>4, KindForIsJob DEF Waits, Cared
  <2> QED BY <1>3, <2>2, <2>3, <2>4 DEF Cared
<1>4. NoneForgotten'
  BY <1>3, InvParts DEF NoneForgotten
<1>5. ASSUME NEW s \in DOMAIN rows PROVE JobOnTime(s)'
  <2>1. Before(s)' = Before(s)
    BY DEF Before, Reschedules
  <2> QED BY <2>1, OwnTime
<1>6. JobsOnTime'
  BY <1>5 DEF JobsOnTime
<1> QED BY <1>1, <1>2, <1>4, <1>6 DEF JobsKept

LEMMA UserJobs ==
  ASSUME JobsInv,
         \/ \E c \in Chats, u \in Users, t \in 1..Horizon : ProposeCommand(c, u, t)
         \/ \E s \in DOMAIN rows, u \in Users, a \in {"join", "leave"} : Tap(s, u, a)
  PROVE  JobsKept
<1>1. PICK c \in Chats, req \in Request : Enqueue(c, req)
  <2>1. ASSUME NEW c \in Chats, NEW u \in Users, NEW t \in 1..Horizon, ProposeCommand(c, u, t)
        PROVE  \E d \in Chats, req \in Request : Enqueue(d, req)
    <3>1. PICK req : req = [kind |-> "propose", user |-> u, time |-> t]
      OBVIOUS
    <3>2. req \in Request /\ Enqueue(c, req)
      BY <2>1, <3>1, BoundsAssumption DEF ProposeCommand, Request
    <3> QED BY <3>2
  <2>2. ASSUME NEW s \in DOMAIN rows, NEW u \in Users, NEW a \in {"join", "leave"}, Tap(s, u, a)
        PROVE  \E d \in Chats, req \in Request : Enqueue(d, req)
    <3>1. PICK req : req = [kind |-> a, sid |-> s, user |-> u]
      OBVIOUS
    <3>2. s \in Nat /\ rows[s].chat \in Chats
      BY InvParts, TypeFacts DEF Row
    <3>3. req \in Request /\ Enqueue(rows[s].chat, req)
      BY <2>2, <3>1, <3>2 DEF Tap, Request
    <3> QED BY <3>2, <3>3
  <2> QED BY <2>1, <2>2
<1>2. UNCHANGED <<rows, lock, up, jobs, missed>> /\ (Spend("command") \/ Spend("tap"))
  BY DEF ProposeCommand, Tap
<1>3. BudgetShrinks
  BY <1>2, InvParts, BudgetKept DEF BudgetKinds
<1>4. \A d \in Chats, kind \in JobKinds, s \in DOMAIN rows :
        WaitsFor(queue[d], kind, s) => WaitsFor(queue'[d], kind, s)
  BY <1>1, InvParts, EnqueueKeeps
<1> QED BY <1>2, <1>3, <1>4, QuietJobs

LEMMA FireJobJobs ==
  ASSUME JobsInv, NEW j \in jobs, FireJob(j)
  PROVE  JobsKept
<1>1. /\ jobs' = jobs \ {j} /\ UNCHANGED <<rows, lock, missed, up, budget>>
      /\ \/ j.kind = "refresh" /\ UNCHANGED queue
         \/ Enqueue(rows[j.sid].chat, [kind |-> j.kind, sid |-> j.sid])
  BY DEF FireJob
<1>2. BudgetShrinks
  BY <1>1, InvParts, BudgetKept
<1>3. j.sid \in DOMAIN rows /\ j.sid \in Nat /\ rows[j.sid].chat \in Chats /\ j.kind \in JobKinds
  BY InvParts, TypeFacts, TypeParts DEF Consistent, References, Row, Job
<1>4. CASE j.kind = "refresh" /\ UNCHANGED queue
  BY <1>1, <1>2, <1>4, QuietJobs
<1>5. CASE Enqueue(rows[j.sid].chat, [kind |-> j.kind, sid |-> j.sid])
  <2>1. PICK req : req = [kind |-> j.kind, sid |-> j.sid]
    OBVIOUS
  <2>2. req \in Request /\ req.kind = j.kind /\ req.sid = j.sid /\ Enqueue(rows[j.sid].chat, req)
    BY <1>3, <1>5, <2>1 DEF Request
  <2>3. /\ \A d \in Chats : \A kind, t : WaitsFor(queue[d], kind, t) => WaitsFor(queue'[d], kind, t)
        /\ WaitsFor(queue'[rows[j.sid].chat], j.kind, j.sid)
    BY <1>3, <2>2, InvParts, EnqueueKeeps
  <2>4. \A k \in jobs : k \in jobs' \/ WaitsFor(queue'[rows[k.sid].chat], k.kind, k.sid)
    BY <1>1, <2>3
  <2> QED BY <1>1, <1>2, <2>3, <2>4, QuietJobs
<1> QED BY <1>1, <1>4, <1>5

LEMMA DiscardJobJobs ==
  ASSUME JobsInv, NEW j \in jobs, DiscardJob(j)
  PROVE  JobsKept
<1>1. /\ jobs' = jobs \ {j} /\ UNCHANGED <<rows, lock, queue, up, budget>>
      /\ missed' = IF j.kind = "refresh" THEN missed ELSE missed \cup {j.sid}
  BY DEF DiscardJob
<1>2. BudgetShrinks
  BY <1>1, InvParts, BudgetKept
<1>3. \A k \in jobs : k \in jobs' \/ k.kind = "refresh" \/ k.sid \in missed'
  BY <1>1
<1> QED BY <1>1, <1>2, <1>3, QuietJobs
LEMMA SurroundingJobs ==
  ASSUME JobsInv, Tick \/ (\E m \in DOMAIN cards : DeleteCard(m)) \/ UNCHANGED vars
  PROVE  JobsKept
<1>1. /\ UNCHANGED <<rows, lock, queue, up, jobs, missed>>
      /\ UNCHANGED budget \/ Spend("delete")
  BY DEF Tick, DeleteCard, vars
<1>2. BudgetShrinks
  BY <1>1, InvParts, BudgetKept DEF BudgetKinds
<1> QED BY <1>1, <1>2, QuietJobs

LEMMA CrashJobs ==
  ASSUME JobsInv, Crash
  PROVE  JobsKept
<1>1. /\ Spend("crash") /\ up' = FALSE /\ jobs' = {}
      /\ lock' = [c \in Chats |-> NoOp]
  BY DEF Crash
<1>2. HoldersFit'
  BY <1>1 DEF HoldersFit, Busy, NoOp
<1>3. NoneForgotten' /\ JobsOnTime'
  BY <1>1 DEF NoneForgotten, JobsOnTime, JobOnTime
<1>4. Counted'
  <2>1. BudgetShrinks
    BY <1>1, InvParts, BudgetKept DEF BudgetKinds
  <2>2. \A k \in BudgetKinds : budget[k] \in Nat /\ Budget[k] \in Nat /\ budget[k] <= Budget[k]
    BY BudgetAssumption, InvParts DEF TypeOK, Counted
  <2>3. "crash" \in BudgetKinds /\ budget'["crash"] = budget["crash"] - 1
    BY <1>1, InvParts DEF BudgetKinds, Spend, TypeOK
  <2>4. Spent("crash")' > 0
    BY <2>2, <2>3 DEF Spent
  <2>5. \A k \in BudgetKinds : budget'[k] <= Budget[k]
    BY <2>1, <2>2 DEF BudgetShrinks
  <2> QED BY <2>4, <2>5 DEF Counted
<1> QED BY <1>2, <1>3, <1>4 DEF JobsKept

\* What is restored has the job its status needs, due in time or late.
LEMMA RestoredCare ==
  ASSUME NEW s \in Nat, NEW r \in Row, now \in Nat
  PROVE  /\ \/ r.status \in EndStatus
            \/ \E j \in RestoredJobs(s, r) : j.sid = s /\ j.kind = KindFor(r.status)
         /\ \A j \in RestoredJobs(s, r) :
              j.kind = "complete" =>
                r.status # "creating" /\ (r.status = "active" => j.at = r.time \/ j.at > r.time)
<1>1. PICK x : x = ScheduleCountdown({}, s, r.time)
  OBVIOUS
<1>2. \A j \in x : j.kind = "refresh"
  BY <1>1, CountdownJobs
<1>3. r.time \in Nat /\ (Latest(r.time, now) = r.time \/ Latest(r.time, now) > r.time)
  BY DEF Latest, Row
<1>4. CASE r.status = "creating"
  <2>1. RestoredJobs(s, r) = AddDate({}, "recover", s, now)
    BY <1>4 DEF RestoredJobs
  <2>2. \A j \in RestoredJobs(s, r) : j.kind = "recover"
    BY <2>1, AddDateJobs
  <2>3. \E j \in RestoredJobs(s, r) : j.kind = "recover" /\ j.sid = s
    BY <2>1, AddDateJobs
  <2> QED BY <1>4, <2>2, <2>3 DEF KindFor
<1>5. CASE r.status = "active"
  <2>1. RestoredJobs(s, r) = AddDate(x, "complete", s, Latest(r.time, now))
    BY <1>1, <1>5 DEF RestoredJobs
  <2>2. \A j \in RestoredJobs(s, r) : j \in x \/ (j.kind = "complete" /\ j.sid = s)
    BY <2>1, AddDateJobs
  <2>3. \A j \in RestoredJobs(s, r) : j.kind = "complete" /\ j.sid = s => j.at = Latest(r.time, now)
    BY <2>1, AddDateJobs
  <2>4. \E j \in RestoredJobs(s, r) : j.kind = "complete" /\ j.sid = s
    BY <2>1, AddDateJobs
  <2>5. \A j \in RestoredJobs(s, r) : j.kind = "complete" => j.at = r.time \/ j.at > r.time
    BY <1>2, <1>3, <2>2, <2>3
  <2> QED BY <1>5, <2>4, <2>5 DEF KindFor
<1>6. CASE r.status = "completing"
  <2>1. RestoredJobs(s, r) = AddDate({}, "complete", s, Latest(r.next, now))
    BY <1>6 DEF RestoredJobs
  <2>2. \E j \in RestoredJobs(s, r) : j.kind = "complete" /\ j.sid = s
    BY <2>1, AddDateJobs
  <2> QED BY <1>6, <2>2 DEF KindFor
<1>7. CASE r.status \in EndStatus
  <2>1. RestoredJobs(s, r) = {}
    BY <1>7 DEF RestoredJobs, EndStatus
  <2> QED BY <1>7, <2>1
<1> QED BY <1>4, <1>5, <1>6, <1>7 DEF Row, Status, OpenStatus

LEMMA RestartJobs ==
  ASSUME JobsInv, Restart
  PROVE  JobsKept
<1> DEFINE added == UNION {RestoredJobs(s, rows'[s]) : s \in DOMAIN rows'}
<1>1. PICK b \in BOOLEAN : b = ({s \in DOMAIN rows : rows'[s].status = "active"} # {})
  OBVIOUS
<1>2. /\ ~up /\ up' = TRUE /\ UNCHANGED <<lock, queue, missed, now>>
      /\ rows' = [s \in DOMAIN rows |-> RestoredRow(rows[s])]
      /\ UNCHANGED budget \/ Spend("reject")
  BY DEF Restart
<1>3. DOMAIN rows' = DOMAIN rows /\ \A s \in DOMAIN rows : rows'[s] = RestoredRow(rows[s])
  BY <1>2
<1>4. jobs' = {[j EXCEPT !.late = @ /\ b] : j \in added}
  <2>1. jobs' = {[j EXCEPT !.late = @ /\ {s \in DOMAIN rows : rows'[s].status = "active"} # {}] :
                 j \in added}
    BY <1>2, <1>3 DEF Restart
  <2> HIDE DEF added
  <2> QED BY <1>1, <2>1
<1>5. \A s \in DOMAIN rows : s \in Nat /\ rows'[s] \in Row /\ now \in Nat
  <2>1. \A s \in DOMAIN rows : s \in Nat /\ rows[s] \in Row /\ now \in Nat
    BY InvParts, TypeFacts, TypeParts
  <2> QED BY <1>3, <2>1, RestoredRowFacts
<1>6. \A j \in added : j \in Job /\ j.sid \in DOMAIN rows /\ j \in RestoredJobs(j.sid, rows'[j.sid])
  <2> SUFFICES ASSUME NEW s \in DOMAIN rows, NEW j \in RestoredJobs(s, rows'[s])
               PROVE  j \in Job /\ j.sid \in DOMAIN rows /\ j \in RestoredJobs(j.sid, rows'[j.sid])
    BY <1>3
  <2>1. PICK r : r = rows'[s]
    OBVIOUS
  <2>2. j \in Job /\ j.sid = s
    BY <1>5, <2>1, RestoredJobsFacts
  <2> QED BY <2>2
<1> HIDE DEF added
<1>7. \A k \in jobs' : \E j \in added : k.kind = j.kind /\ k.sid = j.sid /\ k.at = j.at
  <2>1. ASSUME NEW j \in added
        PROVE  LET k == [j EXCEPT !.late = @ /\ b]
               IN  k.kind = j.kind /\ k.sid = j.sid /\ k.at = j.at
    BY <1>6 DEF Job
  <2> QED BY <1>4, <2>1
<1>8. \A j \in added : \E k \in jobs' : k.kind = j.kind /\ k.sid = j.sid
  <2>1. ASSUME NEW j \in added
        PROVE  LET k == [j EXCEPT !.late = @ /\ b]
               IN  k \in jobs' /\ k.kind = j.kind /\ k.sid = j.sid
    BY <1>4, <1>6 DEF Job
  <2> QED BY <2>1
<1>9. HoldersFit'
  BY <1>2, InvParts DEF HoldersFit, Busy, StoppedIsEmpty
<1>10. BudgetShrinks
  BY <1>2, InvParts, BudgetKept DEF BudgetKinds
<1>11. Counted' /\ Spent("crash")' > 0
  <2>1. \A k \in BudgetKinds : budget[k] \in Nat /\ Budget[k] \in Nat /\ budget[k] <= Budget[k]
    BY BudgetAssumption, InvParts DEF TypeOK, Counted
  <2>2. Spent("crash") > 0 /\ "crash" \in BudgetKinds
    BY <1>2, InvParts DEF Counted, BudgetKinds
  <2>3. Spent("crash")' > 0 /\ \A k \in BudgetKinds : budget'[k] <= Budget[k]
    BY <1>10, <2>1, <2>2 DEF Spent, BudgetShrinks
  <2> QED BY <1>2, <2>3 DEF Counted
<1>12. ASSUME NEW s \in DOMAIN rows PROVE Cared(s)' /\ JobOnTime(s)'
  <2>1. PICK r : r = rows'[s]
    OBVIOUS
  <2>2. s \in Nat /\ r \in Row /\ now \in Nat /\ r.chat \in Chats
    BY <1>5, <2>1 DEF Row
  <2>3. /\ r.status \in EndStatus
           \/ \E j \in RestoredJobs(s, r) : j.sid = s /\ j.kind = KindFor(r.status)
        /\ \A j \in RestoredJobs(s, r) :
             j.kind = "complete" =>
               r.status # "creating" /\ (r.status = "active" => j.at = r.time \/ j.at > r.time)
    BY <2>2, RestoredCare
  <2>4. RestoredJobs(s, r) \subseteq added
    BY <1>3, <2>1 DEF added
  <2>5. Cared(s)'
    <3>1. CASE r.status \in EndStatus
      BY <2>1, <3>1 DEF Cared, Ended
    <3>2. CASE \E j \in RestoredJobs(s, r) : j.sid = s /\ j.kind = KindFor(r.status)
      <4>1. \E k \in jobs' : k.sid = s /\ k.kind = KindFor(r.status)
        BY <1>8, <2>4, <3>2
      <4> QED BY <2>1, <4>1 DEF Cared, Stored
    <3> QED BY <2>3, <3>1, <3>2
  <2>6. JobOnTime(s)'
    <3>1. ~Busy(r.chat) /\ lock' = lock
      BY <1>2, <2>2, InvParts DEF StoppedIsEmpty
    <3>2. Before(s)' = r
      BY <2>1, <3>1 DEF Before, Reschedules, Busy
    <3>3. ASSUME NEW k \in jobs', k.sid = s, k.kind = "complete"
          PROVE  r.status # "creating" /\ (r.status = "active" => k.at = r.time \/ k.at > r.time)
      <4>1. PICK j \in added : k.kind = j.kind /\ k.sid = j.sid /\ k.at = j.at
        BY <1>7
      <4>2. j \in RestoredJobs(s, r)
        BY <1>6, <2>1, <3>3, <4>1
      <4> QED BY <2>3, <3>3, <4>1, <4>2
    <3> QED BY <1>11, <2>1, <3>2, <3>3 DEF JobOnTime
  <2> QED BY <2>5, <2>6
<1> QED BY <1>3, <1>9, <1>11, <1>12 DEF JobsKept, NoneForgotten, JobsOnTime

-----------------------------------------------------------------------------
(* No meeting is forgotten, in every behaviour.                            *)

LEMMA JobsStep ==
  ASSUME JobsInv, [Next]_vars
  PROVE  JobsInv'
<1>1. IInv'
  BY ConsistentStep, StoppedStep DEF JobsInv, IInv
<1>2. JobsKept
  BY LockStepJobs, UserJobs, FireJobJobs, DiscardJobJobs, SurroundingJobs, CrashJobs, RestartJobs
     DEF Next, SystemStep, EnvironmentStep, Idle
<1> QED BY <1>1, <1>2 DEF JobsKept, JobsInv

LEMMA InitJobsInv == Init => JobsInv
<1> SUFFICES ASSUME Init PROVE JobsInv
  OBVIOUS
<1>1. IInv
  BY InitIInv
<1>2. HoldersFit
  BY DEF Init, HoldersFit, Busy, NoOp
<1>3. Counted
  BY BudgetAssumption DEF Init, Counted
<1>4. NoneForgotten /\ JobsOnTime
  BY DEF Init, NoneForgotten, JobsOnTime
<1> QED BY <1>1, <1>2, <1>3, <1>4 DEF JobsInv

\* In every state each operation fits the row of its session, each unfinished meeting has
\* the job or the operation its status needs, and its job is due when the people know.
THEOREM JobsInvariant == Spec => []JobsInv
<1>1. Init => JobsInv
  BY InitJobsInv
<1>2. JobsInv /\ [Next]_vars => JobsInv'
  BY JobsStep
<1> QED BY <1>1, <1>2, PTL DEF Spec

\* While the bot runs every meeting that has not ended has a completion or recovery job, a
\* coroutine that waits for the lock or one that holds it, unless the scheduler itself
\* discarded its job: no interleaving, failure, crash or restart loses one.
THEOREM MeetingsAttended == Spec => []NoMeetingForgotten
<1>1. JobsInv => NoMeetingForgotten
  <2> SUFFICES ASSUME JobsInv, up, NEW s \in DOMAIN rows, ~Ended(s), s \notin missed
               PROVE  Attended(s)
    BY DEF NoMeetingForgotten
  <2>1. Cared(s) /\ rows[s].chat \in Chats
    BY InvParts, TypeFacts DEF Row
  <2>2. CASE Stored(s)
    BY <2>2, KindForIsJob DEF Stored, Attended
  <2>3. CASE Waits(s)
    <3>1. PICK i \in DOMAIN queue[rows[s].chat] :
            /\ queue[rows[s].chat][i].kind = KindFor(rows[s].status)
            /\ queue[rows[s].chat][i].sid = s
      BY <2>3 DEF Waits, WaitsFor
    <3>2. queue[rows[s].chat][i].kind \in {"complete", "recover"}
      BY <3>1, KindForIsJob
    <3> QED BY <2>1, <3>1, <3>2 DEF Attended
  <2>4. CASE Carries(lock[rows[s].chat], s)
    <3>1. PICK c, op : c \in Chats /\ c = rows[s].chat /\ op = lock[c]
      BY <2>1
    <3>2. op.pc # "free" /\ op.sid = s /\ Fits(op, rows[s])
      BY <2>4, <3>1, InvParts DEF Carries, HoldersFit, Busy
    <3>3. op.req.kind # "refresh"
      BY <2>4, <3>1, <3>2 DEF Carries, Fits
    <3> QED BY <3>1, <3>2, <3>3 DEF Attended, Busy
  <2> QED BY <2>1, <2>2, <2>3, <2>4 DEF Cared
<1> QED BY <1>1, JobsInvariant, PTL

\* Between operations the completion job of an active meeting is due at the time of its
\* row, later only after a crash: neither a reschedule that failed half-way nor a restart
\* leaves a job that ends the meeting early.
THEOREM JobsNeverEarly == Spec => []JobNotBeforeMeeting
<1>1. JobsInv => JobNotBeforeMeeting
  <2> SUFFICES ASSUME JobsInv, NEW j \in jobs, j.kind = "complete", Undisturbed(j.sid),
                      rows[j.sid].status = "active"
               PROVE  j.at = rows[j.sid].time \/ (j.at > rows[j.sid].time /\ Spent("crash") > 0)
    BY DEF JobNotBeforeMeeting
  <2>1. j.sid \in DOMAIN rows
    BY InvParts DEF Consistent, References
  <2>2. Before(j.sid) = rows[j.sid]
    BY DEF Undisturbed, Busy, Before, Reschedules
  <2> QED BY <2>1, <2>2, InvParts DEF JobOnTime
<1> QED BY <1>1, JobsInvariant, PTL


=============================================================================
