--------------------------- MODULE CoffeeSession ---------------------------
(***************************************************************************)
(* The coffee meetings of the bot: CoffeeSessionService (/coffee and the   *)
(* buttons of a card), CoffeeJobCoordinator (completion, countdown,        *)
(* recovery and retry jobs), CoffeeSessionRepository (the rows and the     *)
(* guards of their SQL), CoffeeCardPublisher (the calls to Telegram) and   *)
(* the per-chat lock the first two share.                                  *)
(*                                                                         *)
(* The bot is one asyncio process: code runs without interruption from one *)
(* await to the next, so a step of the model is the code between two       *)
(* awaits.  The record in lock[c] is the coroutine that holds the lock of  *)
(* chat c, "pc" being the Telegram call it awaits; the step that completes *)
(* the call also runs the code that follows it, up to the next await.      *)
(* Time is counted in minutes.                                             *)
(***************************************************************************)
EXTENDS Integers, Sequences

CONSTANTS
  Chats,     \* group chats
  Users,     \* registered, active users
  Horizon,   \* bound: the latest minute /coffee is called with
  MaxTime,   \* bound: the clock stops here
  Budget     \* bound: how many times each event of BudgetKinds may happen

BudgetKinds ==
  { "command",  \* a /coffee <time> message
    "tap",      \* a press of a card's button that passes the check before the lock
    "reject",   \* a Telegram call that fails without effect
    "lost",     \* a Telegram call that takes effect while its caller sees an error
    "crash",    \* an end of the process at any point
    "delete" }  \* a card removed by a chat administrator

ASSUME BoundsAssumption == Horizon \in Nat /\ MaxTime \in Nat
ASSUME BudgetAssumption == Budget \in [BudgetKinds -> Nat]

VARIABLES
  rows,    \* table coffee_sessions with its participants; the index is the id
  jobs,    \* the in-memory job store of the scheduler
  lock,    \* per chat: the coroutine that holds the chat's lock, or NoOp
  queue,   \* per chat: the coroutines that wait for the lock, first come first
  cards,   \* the chat messages that are coffee cards; the index is the message id
  pings,   \* per session: "time to go" messages that reached the chat
  missed,  \* sessions whose completion or recovery job the scheduler discarded
  now, up, budget

vars == <<rows, jobs, lock, queue, cards, pings, missed, now, up, budget>>

NULL == 0            \* SQL NULL: message ids and meeting times are positive
RETRY_DELAYS == <<1, 3, 5>>
RECOVERY_GRACE == 5

Latest(a, b) == IF a < b THEN b ELSE a

-----------------------------------------------------------------------------
(* The rows, and what each SQL statement does to one of them.              *)

OpenStatus == {"creating", "active"}
EndStatus == {"completed", "expired", "failed"}
Status == OpenStatus \cup {"completing"} \cup EndStatus

Row == [chat: Chats, msg: Nat, proposer: Users, time: Nat, status: Status,
        attempts: Nat, next: Nat, until: Nat, members: SUBSET Users]

\* What the code holds where it has no session (None).
NoRow == [status |-> "none", msg |-> NULL, time |-> NULL, members |-> {}]

\* Mutant: a session still being announced does not count as open.
OpenInAnnounced(c) == {s \in DOMAIN rows : rows[s].chat = c /\ rows[s].status = "active"}

OpenIn(c) == {s \in DOMAIN rows : rows[s].chat = c /\ rows[s].status \in OpenStatus}

Create(c, u, t) ==
  [chat |-> c, msg |-> NULL, proposer |-> u, time |-> t, status |-> "creating",
   attempts |-> 0, next |-> NULL, until |-> NULL, members |-> {u}]

Activate(r) == IF r.status = "creating" THEN [r EXCEPT !.status = "active"] ELSE r

UpdateMessage(r, m) == [r EXCEPT !.msg = m]

\* The UPDATE is guarded by the status, the INSERT of the participant is not.
Reschedule(r, u, t) ==
  LET moved == IF r.status = "active"
               THEN [r EXCEPT !.proposer = u, !.time = t, !.attempts = 0,
                              !.next = NULL, !.until = NULL]
               ELSE r
  IN  [moved EXCEPT !.members = @ \cup {u}]

Join(r, u) == [r EXCEPT !.members = @ \cup {u}]
Leave(r, u) == [r EXCEPT !.members = @ \ {u}]

MarkCompleting(r, until) ==
  IF r.status = "active"
  THEN [r EXCEPT !.status = "completing", !.attempts = 0, !.next = NULL, !.until = until]
  ELSE r

MarkRetry(r, attempts, next) ==
  IF r.status = "completing" THEN [r EXCEPT !.attempts = attempts, !.next = next] ELSE r

MarkTerminal(r, status) == [r EXCEPT !.status = status, !.next = NULL]

-----------------------------------------------------------------------------
(* The scheduler.  A job is keyed by its kind and session and replaces a   *)
(* pending one of the same key.  "late": it was already due when added, so *)
(* the one second of grace APScheduler gives a job may be over.            *)

JobKinds == {"complete", "refresh", "recover"}
Job == [kind: JobKinds, sid: Nat, at: Nat, late: BOOLEAN]

RemoveJob(js, kind, s) == {j \in js : ~(j.kind = kind /\ j.sid = s)}

AddDate(js, kind, s, at) ==
  RemoveJob(js, kind, s) \cup {[kind |-> kind, sid |-> s, at |-> at, late |-> at <= now]}

\* Mutant: the update an hour before the meeting, even when that is past.
NextCountdownUnclamped(time) == IF time - now <= 1 THEN NULL ELSE time - 59

\* The minute at which the number a card shows changes next, NULL in the last one.
NextCountdown(time) ==
  IF time - now <= 1 THEN NULL
  ELSE IF time - now >= 60 THEN time - 59 ELSE now + 1

ScheduleCountdown(js, s, time) ==
  IF NextCountdown(time) = NULL THEN RemoveJob(js, "refresh", s)
  ELSE AddDate(js, "refresh", s, NextCountdown(time))

ScheduleSession(js, s, time) ==
  ScheduleCountdown(AddDate(js, "complete", s, time), s, time)

-----------------------------------------------------------------------------
(* Telegram, and the coroutine that awaits it.                             *)

Card == [chat: Chats, time: Nat, members: SUBSET Users,
         buttons: BOOLEAN, pinned: BOOLEAN, gone: BOOLEAN]

Request ==
  [kind: {"propose"}, user: Users, time: Nat]
    \cup [kind: {"join", "leave"}, sid: Nat, user: Users]
    \cup [kind: JobKinds, sid: Nat]

Pc == {"shout", "card", "unpinOld", "pin", "announce", "unpin", "close", "ready"}

\* old: the session before the operation; cur: the session object it works on;
\* since: the clock when a completion began.
Op == [req: Request, sid: Nat, pc: Pc, old: Row \cup {NoRow}, cur: Row, since: Nat]
NoOp == [pc |-> "free"]

Busy(c) == lock[c].pc # "free"

Available(m) == m # NULL /\ ~cards[m].gone

\* edit_or_send: the card is edited in place, or sent anew when there is none to edit.
PublishedId(op) == IF Available(op.cur.msg) THEN op.cur.msg ELSE Len(cards) + 1

\* Mutant: the card lists the participants read before the operation.
PublishedStale(op) ==
  IF Available(op.cur.msg)
  THEN [cards EXCEPT ![op.cur.msg].time = op.cur.time,
                     ![op.cur.msg].members = op.cur.members]
  ELSE Append(cards, [chat |-> op.cur.chat, time |-> op.cur.time, members |-> op.cur.members,
                      buttons |-> TRUE, pinned |-> FALSE, gone |-> FALSE])

Published(op) ==
  LET shown == rows[op.sid].members
  IN  IF Available(op.cur.msg)
      THEN [cards EXCEPT ![op.cur.msg].time = op.cur.time,
                         ![op.cur.msg].members = shown,
                         ![op.cur.msg].buttons = TRUE]
      ELSE Append(cards, [chat |-> op.cur.chat, time |-> op.cur.time, members |-> shown,
                          buttons |-> TRUE, pinned |-> FALSE, gone |-> FALSE])

\* The cards once the call that op awaits has taken effect.
CardsAfter(op) ==
  CASE op.pc = "card" -> Published(op)
    [] op.pc = "unpinOld" -> [cards EXCEPT ![op.old.msg].pinned = FALSE]
    [] op.pc = "pin" -> [cards EXCEPT ![op.cur.msg].pinned = Available(op.cur.msg)]
    [] op.pc = "unpin" -> [cards EXCEPT ![op.cur.msg].pinned = FALSE]
    [] op.pc = "close" -> [cards EXCEPT ![op.cur.msg].buttons = FALSE]
    [] OTHER -> cards

\* send_ready_notification reaches the chat.
PingsAfter(op) == IF op.pc = "ready" THEN [pings EXCEPT ![op.sid] = @ + 1] ELSE pings

TakesEffect(op) == cards' = CardsAfter(op) /\ pings' = PingsAfter(op)

Spend(k) == budget[k] > 0 /\ budget' = [budget EXCEPT ![k] = @ - 1]

Succeeds(op) == TakesEffect(op) /\ UNCHANGED budget

\* The caller sees an exception.
Fails(op) ==
  \/ Spend("reject") /\ UNCHANGED <<cards, pings>>
  \/ Spend("lost") /\ TakesEffect(op)

\* The try_ calls whose result nobody reads.
Tried(op) == Succeeds(op) \/ (Spend("reject") /\ UNCHANGED <<cards, pings>>)

-----------------------------------------------------------------------------
Init ==
  /\ rows = <<>> /\ cards = <<>> /\ pings = <<>>
  /\ jobs = {} /\ missed = {}
  /\ lock = [c \in Chats |-> NoOp]
  /\ queue = [c \in Chats |-> <<>>]
  /\ now = 0 /\ up = TRUE /\ budget = Budget

(* Users and jobs join the queue of a chat's lock.                         *)

Enqueue(c, req) == queue' = [queue EXCEPT ![c] = Append(@, req)]

\* /coffee <time>: the time is checked against the clock before the lock is taken.
ProposeCommand(c, u, t) ==
  /\ up
  /\ t \in (now + 1)..Horizon
  /\ Spend("command")
  /\ Enqueue(c, [kind |-> "propose", user |-> u, time |-> t])
  /\ UNCHANGED <<rows, jobs, lock, cards, pings, missed, now, up>>

\* A button press; any other status is answered SESSION_ENDED and changes nothing.
Tap(s, u, action) ==
  /\ up
  /\ rows[s].status = "active"
  /\ Spend("tap")
  /\ Enqueue(rows[s].chat, [kind |-> action, sid |-> s, user |-> u])
  /\ UNCHANGED <<rows, jobs, lock, cards, pings, missed, now, up>>

\* An earlier run of the same job still waits for the lock or holds it.
Running(kind, s) ==
  LET c == rows[s].chat
  IN  \/ Busy(c) /\ lock[c].req.kind = kind /\ lock[c].sid = s
      \/ \E i \in DOMAIN queue[c] : queue[c][i].kind = kind /\ queue[c][i].sid = s

\* A due job is removed from the store and its coroutine runs up to the lock;
\* refresh_countdown returns there if the session is not active.
FireJob(j) ==
  /\ up /\ j.at = now /\ ~Running(j.kind, j.sid)
  /\ jobs' = jobs \ {j}
  /\ IF j.kind = "refresh" /\ rows[j.sid].status # "active"
     THEN UNCHANGED queue
     ELSE Enqueue(rows[j.sid].chat, [kind |-> j.kind, sid |-> j.sid])
  /\ UNCHANGED <<rows, lock, cards, pings, missed, now, up, budget>>

\* The scheduler discards a due job that was late when added (misfire_grace_time)
\* or whose earlier run has not ended (max_instances).
DiscardJob(j) ==
  /\ up /\ j.at <= now
  /\ j.late \/ Running(j.kind, j.sid)
  /\ jobs' = jobs \ {j}
  /\ missed' = IF j.kind = "refresh" THEN missed ELSE missed \cup {j.sid}
  /\ UNCHANGED <<rows, lock, queue, cards, pings, now, up, budget>>

-----------------------------------------------------------------------------
(* From the lock to the first await.                                       *)

Acquire(c, kinds) ==
  /\ ~Busy(c) /\ queue[c] # <<>>
  /\ Head(queue[c]).kind \in kinds
  /\ queue' = [queue EXCEPT ![c] = Tail(@)]

Hold(c, op) == lock' = [lock EXCEPT ![c] = op]
Release(c) == Hold(c, NoOp)

StartedOp(req, s, pc, old, cur) ==
  [req |-> req, sid |-> s, pc |-> pc, old |-> old, cur |-> cur, since |-> now]

\* create_or_reschedule without an open session in the chat.
StartNew(c) ==
  LET req == Head(queue[c])
      row == Create(c, req.user, req.time)
  IN  /\ Acquire(c, {"propose"})
      /\ OpenIn(c) = {}
      /\ rows' = Append(rows, row)
      /\ pings' = Append(pings, 0)
      /\ Hold(c, StartedOp(req, Len(rows) + 1, "shout", NoRow, row))
      /\ UNCHANGED <<jobs, cards, missed, now, up, budget>>

\* create_or_reschedule with an open session.
StartReschedule(c) ==
  LET req == Head(queue[c])
  IN  /\ Acquire(c, {"propose"})
      /\ \E s \in OpenIn(c) :
           LET row == Reschedule(rows[s], req.user, req.time)
           IN  /\ rows' = [rows EXCEPT ![s] = row]
               /\ Hold(c, StartedOp(req, s, "card", rows[s], row))
      /\ UNCHANGED <<jobs, cards, pings, missed, now, up, budget>>

\* Mutants: the check before the lock is not repeated under it; a tap is accepted
\* while a completion waits for its retry.
StartTapUnchecked(c) ==
  LET req == Head(queue[c])
      s == req.sid
      row == IF req.kind = "join" THEN Join(rows[s], req.user) ELSE Leave(rows[s], req.user)
  IN  /\ Acquire(c, {"join", "leave"})
      /\ rows' = [rows EXCEPT ![s] = row]
      /\ Hold(c, StartedOp(req, s, "card", rows[s], rows[s]))
      /\ UNCHANGED <<jobs, cards, pings, missed, now, up, budget>>

StartTapCompleting(c) ==
  LET req == Head(queue[c])
      s == req.sid
      row == IF req.kind = "join" THEN Join(rows[s], req.user) ELSE Leave(rows[s], req.user)
  IN  /\ Acquire(c, {"join", "leave"})
      /\ IF rows[s].status \in {"active", "completing"}
         THEN /\ rows' = [rows EXCEPT ![s] = row]
              /\ Hold(c, StartedOp(req, s, "card", rows[s], rows[s]))
         ELSE UNCHANGED <<rows, lock>>
      /\ UNCHANGED <<jobs, cards, pings, missed, now, up, budget>>

\* update_participation: the status is checked again under the lock.
StartTap(c) ==
  LET req == Head(queue[c])
      s == req.sid
      was == req.user \in rows[s].members
      row == IF req.kind = "join" THEN Join(rows[s], req.user) ELSE Leave(rows[s], req.user)
  IN  /\ Acquire(c, {"join", "leave"})
      /\ IF rows[s].status = "active" /\ was = (req.kind = "leave")
         THEN /\ rows' = [rows EXCEPT ![s] = row]
              /\ Hold(c, StartedOp(req, s, "card", rows[s], rows[s]))
         ELSE UNCHANGED <<rows, lock>>
      /\ UNCHANGED <<jobs, cards, pings, missed, now, up, budget>>

\* refresh_countdown schedules its successor before it edits the card.
StartRefresh(c) ==
  LET s == Head(queue[c]).sid
  IN  /\ Acquire(c, {"refresh"})
      /\ IF rows[s].status = "active"
         THEN /\ jobs' = ScheduleCountdown(jobs, s, rows[s].time)
              /\ Hold(c, StartedOp(Head(queue[c]), s, "card", rows[s], rows[s]))
         ELSE jobs' = RemoveJob(jobs, "refresh", s) /\ UNCHANGED lock
      /\ UNCHANGED <<rows, cards, pings, missed, now, up, budget>>

\* The recovery job of a session found in status creating.
StartRecover(c) ==
  LET s == Head(queue[c]).sid
  IN  /\ Acquire(c, {"recover"})
      /\ IF rows[s].status = "creating"
         THEN Hold(c, StartedOp(Head(queue[c]), s, "card", NoRow, rows[s]))
         ELSE UNCHANGED lock
      /\ UNCHANGED <<rows, jobs, cards, pings, missed, now, up, budget>>

\* Mutants: a completion does not look at the status; a resumed one does not repeat
\* the steps before its call.
StartCompleteUnchecked(c) ==
  LET s == Head(queue[c]).sid
  IN  /\ Acquire(c, {"complete"})
      /\ jobs' = RemoveJob(jobs, "refresh", s)
      /\ Hold(c, StartedOp(Head(queue[c]), s, "unpin", NoRow, rows[s]))
      /\ UNCHANGED <<rows, cards, pings, missed, now, up, budget>>

StartCompleteResumed(c) ==
  LET s == Head(queue[c]).sid
      pc == IF rows[s].status = "completing" THEN "ready" ELSE "unpin"
  IN  /\ Acquire(c, {"complete"})
      /\ IF rows[s].status \in {"active", "completing"}
         THEN /\ jobs' = RemoveJob(jobs, "refresh", s)
              /\ Hold(c, StartedOp(Head(queue[c]), s, pc, NoRow, rows[s]))
         ELSE UNCHANGED <<jobs, lock>>
      /\ UNCHANGED <<rows, cards, pings, missed, now, up, budget>>

StartComplete(c) ==
  LET s == Head(queue[c]).sid
  IN  /\ Acquire(c, {"complete"})
      /\ IF rows[s].status \in {"active", "completing"}
         THEN /\ jobs' = RemoveJob(jobs, "refresh", s)
              /\ Hold(c, StartedOp(Head(queue[c]), s, "unpin", NoRow, rows[s]))
         ELSE UNCHANGED <<jobs, lock>>
      /\ UNCHANGED <<rows, cards, pings, missed, now, up, budget>>

-----------------------------------------------------------------------------
(* The awaits of a proposal, a tap, a countdown and a recovery.            *)

\* send_shout: office users who want coffee calls are mentioned.
Shout(c) ==
  /\ lock[c].pc = "shout"
  /\ Hold(c, [lock[c] EXCEPT !.pc = "card"])
  /\ UNCHANGED <<rows, jobs, queue, cards, pings, missed, now, up, budget>>

\* The time of an existing meeting changed: say who proposed it, else leave.
AnnounceOrEnd(op) ==
  IF op.req.kind = "propose" /\ op.old # NoRow /\ op.old.time # op.cur.time
  THEN [op EXCEPT !.pc = "announce"] ELSE NoOp

\* Mutant: only the first card of a meeting is pinned.
ReplacePinOnce(op) ==
  IF op.old.msg = NULL THEN [op EXCEPT !.pc = "pin"] ELSE AnnounceOrEnd(op)

\* replace_pin: nothing to do for the same message.
ReplacePin(op) ==
  IF op.old.msg = op.cur.msg THEN AnnounceOrEnd(op)
  ELSE [op EXCEPT !.pc = IF op.old.msg = NULL THEN "pin" ELSE "unpinOld"]

\* _publish_card returns; a proposal and a recovery activate a session in creation.
CardPublished(c) ==
  LET op == lock[c]
      s == op.sid
      saved == UpdateMessage(rows[s], PublishedId(op))
      row == IF op.req.kind \in {"propose", "recover"} THEN Activate(saved) ELSE saved
  IN  /\ op.pc = "card"
      /\ Succeeds(op)
      /\ rows' = [rows EXCEPT ![s] = row]
      /\ IF op.req.kind = "propose"
         THEN jobs' = ScheduleSession(jobs, s, row.time) /\ missed' = missed \ {s}
         ELSE UNCHANGED <<jobs, missed>>
      /\ Hold(c, ReplacePin([op EXCEPT !.cur = row]))
      /\ UNCHANGED <<queue, now, up>>

\* Mutant: a failed reschedule keeps the new time.
CompensatedForward(op, r) ==
  IF op.req.kind = "recover" \/ op.old = NoRow THEN MarkTerminal(r, "failed") ELSE
  CASE op.req.kind = "join" -> Leave(r, op.req.user)
    [] op.req.kind = "leave" -> Join(r, op.req.user)
    [] OTHER -> r

\* What the except clauses leave in the database.
Compensated(op, r) ==
  IF op.req.kind = "recover" \/ op.old = NoRow THEN MarkTerminal(r, "failed") ELSE
  CASE op.req.kind = "propose" ->
         LET back == Reschedule(r, op.old.proposer, op.old.time)
         IN  IF op.req.user \in op.old.members THEN back ELSE Leave(back, op.req.user)
    [] op.req.kind = "join" -> Leave(r, op.req.user)
    [] op.req.kind = "leave" -> Join(r, op.req.user)
    [] OTHER -> r

CardFails(c) ==
  LET op == lock[c]
  IN  /\ op.pc = "card"
      /\ Fails(op)
      /\ rows' = [rows EXCEPT ![op.sid] = Compensated(op, @)]
      /\ Release(c)
      /\ UNCHANGED <<jobs, queue, missed, now, up>>

UnpinOld(c) ==
  /\ lock[c].pc = "unpinOld"
  /\ Tried(lock[c])
  /\ Hold(c, [lock[c] EXCEPT !.pc = "pin"])
  /\ UNCHANGED <<rows, jobs, queue, missed, now, up>>

\* A recovery schedules the session's jobs only now, after the pin.
Pin(c) ==
  LET op == lock[c]
  IN  /\ op.pc = "pin"
      /\ Tried(op)
      /\ IF op.req.kind = "recover"
         THEN /\ jobs' = ScheduleSession(jobs, op.sid, op.cur.time)
              /\ missed' = missed \ {op.sid}
              /\ Release(c)
         ELSE Hold(c, AnnounceOrEnd(op)) /\ UNCHANGED <<jobs, missed>>
      /\ UNCHANGED <<rows, queue, now, up>>

Announce(c) ==
  /\ lock[c].pc = "announce"
  /\ Release(c)
  /\ UNCHANGED <<rows, jobs, queue, cards, pings, missed, now, up, budget>>

-----------------------------------------------------------------------------
(* The awaits of a completion.                                             *)

\* Mutant: a completion leaves its session active until the end.
CompleteUnpinActive(c) ==
  /\ lock[c].pc = "unpin"
  /\ Tried(lock[c])
  /\ Hold(c, [lock[c] EXCEPT !.pc = "close"])
  /\ UNCHANGED <<rows, jobs, queue, missed, now, up>>

CompleteUnpin(c) ==
  LET op == lock[c]
      row == IF op.cur.status = "active"
             THEN MarkCompleting(rows[op.sid], op.cur.time + RETRY_DELAYS[3])
             ELSE rows[op.sid]
  IN  /\ op.pc = "unpin"
      /\ Tried(op)
      /\ rows' = [rows EXCEPT ![op.sid] = row]
      /\ Hold(c, [op EXCEPT !.pc = "close", !.cur = row])
      /\ UNCHANGED <<jobs, queue, missed, now, up>>

\* mark_card_completed, then nobody to call or the call itself.
CompleteClose(c) ==
  LET op == lock[c]
  IN  /\ op.pc = "close"
      /\ Tried(op)
      /\ IF op.cur.members = {}
         THEN /\ rows' = [rows EXCEPT ![op.sid] = MarkTerminal(@, "completed")]
              /\ Release(c)
         ELSE Hold(c, [op EXCEPT !.pc = "ready"]) /\ UNCHANGED rows
      /\ UNCHANGED <<jobs, queue, missed, now, up>>

\* Mutant: the result of the call is read the wrong way round.
ReadySentInverted(c) ==
  LET op == lock[c]
      next == Latest(op.cur.time + RETRY_DELAYS[1], op.since)
  IN  /\ op.pc = "ready"
      /\ Succeeds(op)
      /\ rows' = [rows EXCEPT ![op.sid] = MarkRetry(@, 1, next)]
      /\ jobs' = AddDate(jobs, "complete", op.sid, next)
      /\ Release(c)
      /\ UNCHANGED <<queue, missed, now, up>>

ReadySent(c) ==
  LET op == lock[c]
  IN  /\ op.pc = "ready"
      /\ Succeeds(op)
      /\ rows' = [rows EXCEPT ![op.sid] = MarkTerminal(@, "completed")]
      /\ Release(c)
      /\ UNCHANGED <<jobs, queue, missed, now, up>>

\* Mutants: a meeting nobody could be called to counts as completed; the retry is
\* written to the row but not scheduled.
ReadyFailsCompleted(c) ==
  LET op == lock[c]
      attempts == op.cur.attempts + 1
      next == Latest(op.cur.time + RETRY_DELAYS[attempts], op.since)
  IN  /\ op.pc = "ready"
      /\ Fails(op)
      /\ IF attempts > Len(RETRY_DELAYS)
         THEN /\ rows' = [rows EXCEPT ![op.sid] = MarkTerminal(@, "completed")]
              /\ UNCHANGED <<jobs, missed>>
         ELSE /\ rows' = [rows EXCEPT ![op.sid] = MarkRetry(@, attempts, next)]
              /\ jobs' = AddDate(jobs, "complete", op.sid, next)
              /\ missed' = missed \ {op.sid}
      /\ Release(c)
      /\ UNCHANGED <<queue, now, up>>

ReadyFailsUnscheduled(c) ==
  LET op == lock[c]
      attempts == op.cur.attempts + 1
      next == Latest(op.cur.time + RETRY_DELAYS[attempts], op.since)
  IN  /\ op.pc = "ready"
      /\ Fails(op)
      /\ rows' = [rows EXCEPT ![op.sid] =
                    IF attempts > Len(RETRY_DELAYS) THEN MarkTerminal(@, "failed")
                    ELSE MarkRetry(@, attempts, next)]
      /\ Release(c)
      /\ UNCHANGED <<jobs, queue, missed, now, up>>

\* _schedule_retry, counting from the clock read before the first await.
ReadyFails(c) ==
  LET op == lock[c]
      attempts == op.cur.attempts + 1
      next == Latest(op.cur.time + RETRY_DELAYS[attempts], op.since)
  IN  /\ op.pc = "ready"
      /\ Fails(op)
      /\ IF attempts > Len(RETRY_DELAYS)
         THEN /\ rows' = [rows EXCEPT ![op.sid] = MarkTerminal(@, "failed")]
              /\ UNCHANGED <<jobs, missed>>
         ELSE /\ rows' = [rows EXCEPT ![op.sid] = MarkRetry(@, attempts, next)]
              /\ jobs' = AddDate(jobs, "complete", op.sid, next)
              /\ missed' = missed \ {op.sid}
      /\ Release(c)
      /\ UNCHANGED <<queue, now, up>>

-----------------------------------------------------------------------------
(* The process, the clock and the chat.                                    *)

\* Everything in memory is lost; a call in flight may still have taken effect.
Crash ==
  /\ up /\ Spend("crash")
  /\ UNCHANGED <<cards, pings>> \/ \E c \in Chats : Busy(c) /\ TakesEffect(lock[c])
  /\ up' = FALSE
  /\ jobs' = {} /\ missed' = {}
  /\ lock' = [c \in Chats |-> NoOp]
  /\ queue' = [c \in Chats |-> <<>>]
  /\ UNCHANGED <<rows, now>>

Overdue(r) == now - r.time > RECOVERY_GRACE

RestoredRow(r) ==
  CASE r.status \in OpenStatus /\ Overdue(r) -> MarkTerminal(r, "expired")
    [] r.status = "completing" /\ r.until < now -> MarkTerminal(r, "failed")
    [] OTHER -> r

\* Mutant: a completion in progress at the crash is not resumed.
RestoredJobsOpen(s, r) ==
  CASE r.status = "creating" -> AddDate({}, "recover", s, now)
    [] r.status = "active" ->
         AddDate(ScheduleCountdown({}, s, r.time), "complete", s, Latest(r.time, now))
    [] OTHER -> {}

\* The jobs of one restored session.
RestoredJobs(s, r) ==
  CASE r.status = "creating" -> AddDate({}, "recover", s, now)
    [] r.status = "active" ->
         AddDate(ScheduleCountdown({}, s, r.time), "complete", s, Latest(r.time, now))
    [] r.status = "completing" -> AddDate({}, "complete", s, Latest(r.next, now))
    [] OTHER -> {}

\* restore_jobs, before the scheduler and the polling start.  It awaits the pin of
\* each active session, and only then is a job for "now" late.
Restart ==
  LET restored == [s \in DOMAIN rows |-> RestoredRow(rows[s])]
      Pinned(S) == [m \in DOMAIN cards |->
        [cards[m] EXCEPT !.pinned = @ \/ (Available(m) /\ \E s \in S : restored[s].msg = m)]]
      active == {s \in DOMAIN rows : restored[s].status = "active"}
      added == UNION {RestoredJobs(s, restored[s]) : s \in DOMAIN rows}
  IN  /\ ~up
      /\ up' = TRUE
      /\ rows' = restored
      /\ jobs' = {[j EXCEPT !.late = @ /\ active # {}] : j \in added}
      /\ \/ cards' = Pinned(active) /\ UNCHANGED budget
         \/ \E s \in active : cards' = Pinned(active \ {s}) /\ Spend("reject")
      /\ UNCHANGED <<lock, queue, pings, missed, now>>

\* The event loop is free to run the scheduler: no due job is left behind.
Tick ==
  /\ now < MaxTime
  /\ up => \A j \in jobs : j.at > now
  /\ now' = now + 1
  /\ UNCHANGED <<rows, jobs, lock, queue, cards, pings, missed, up, budget>>

DeleteCard(m) ==
  /\ ~cards[m].gone
  /\ Spend("delete")
  /\ cards' = [cards EXCEPT ![m].gone = TRUE, ![m].pinned = FALSE, ![m].buttons = FALSE]
  /\ UNCHANGED <<rows, jobs, lock, queue, pings, missed, now, up>>

\* The clock has stopped and nothing is in progress.
Idle ==
  /\ up /\ now = MaxTime
  /\ \A c \in Chats : ~Busy(c) /\ queue[c] = <<>>
  /\ \A j \in jobs : j.at > now
  /\ UNCHANGED vars

LockStep(c) ==
  \/ StartNew(c) \/ StartReschedule(c) \/ StartTap(c)
  \/ StartRefresh(c) \/ StartRecover(c) \/ StartComplete(c)
  \/ Shout(c) \/ CardPublished(c) \/ CardFails(c) \/ UnpinOld(c) \/ Pin(c) \/ Announce(c)
  \/ CompleteUnpin(c) \/ CompleteClose(c) \/ ReadySent(c) \/ ReadyFails(c)

SystemStep ==
  \/ \E c \in Chats : LockStep(c)
  \/ \E j \in jobs : FireJob(j) \/ DiscardJob(j)
  \/ Restart
  \/ Tick

EnvironmentStep ==
  \/ \E c \in Chats, u \in Users, t \in 1..Horizon : ProposeCommand(c, u, t)
  \/ \E s \in DOMAIN rows, u \in Users, a \in {"join", "leave"} : Tap(s, u, a)
  \/ \E m \in DOMAIN cards : DeleteCard(m)
  \/ Crash

Next == SystemStep \/ EnvironmentStep \/ Idle

Spec == Init /\ [][Next]_vars

\* Calls to Telegram end, due jobs run, time passes and systemd restarts the bot;
\* nobody has to propose, press or fail.
FairSpec == Spec /\ WF_vars(SystemStep)

-----------------------------------------------------------------------------
(* Properties.                                                             *)

TypeOK ==
  /\ rows \in Seq(Row)
  /\ jobs \subseteq Job
  /\ lock \in [Chats -> Op \cup {NoOp}]
  /\ queue \in [Chats -> Seq(Request)]
  /\ cards \in Seq(Card)
  /\ pings \in Seq(Nat)
  /\ missed \subseteq Nat
  /\ now \in Nat /\ up \in BOOLEAN
  /\ budget \in [BudgetKinds -> Nat]

Spent(k) == Budget[k] - budget[k]
Ended(s) == rows[s].status \in EndStatus
Undisturbed(s) == up /\ ~Busy(rows[s].chat)

\* A chat never has two meetings that can still be joined or moved, whatever the
\* interleaving of proposals, completions and restarts.
OneOpenPerChat ==
  \A s, t \in DOMAIN rows :
    /\ rows[s].chat = rows[t].chat
    /\ rows[s].status \in OpenStatus /\ rows[t].status \in OpenStatus
    => s = t

\* Ids kept in memory name rows, and a coroutine waits for the lock of its session's
\* own chat.
References ==
  /\ Len(pings) = Len(rows)
  /\ \A j \in jobs : j.sid \in DOMAIN rows
  /\ \A c \in Chats : \A i \in DOMAIN queue[c] :
       queue[c][i].kind # "propose" =>
         queue[c][i].sid \in DOMAIN rows /\ rows[queue[c][i].sid].chat = c

\* The statuses of a session under the lock, by the call its holder awaits.
HolderMayHave(pc) ==
  IF pc \in {"unpin", "close", "ready"} THEN {"active", "completing"} ELSE OpenStatus

\* The lock protects its session: whatever other coroutines, jobs and users did
\* since it was taken, the holder's session belongs to the chat and has not ended;
\* only a completion may hold one that can no longer be joined.
LockProtects ==
  \A c \in Chats : Busy(c) =>
    /\ lock[c].sid \in DOMAIN rows
    /\ rows[lock[c].sid].chat = c
    /\ rows[lock[c].sid].status \in HolderMayHave(lock[c].pc)

Consistent == TypeOK /\ References /\ LockProtects /\ OneOpenPerChat

\* Nothing runs while the process is down: a restart finds every lock free.
StoppedIsEmpty == ~up => \A c \in Chats : ~Busy(c) /\ queue[c] = <<>>

\* The inductive invariant.
IInv == Consistent /\ StoppedIsEmpty

\* A meeting that completed, expired or failed stays so: mark_terminal and the
\* compensations carry no status guard, only the lock keeps stale coroutines out.
TerminalIsFinal ==
  [][\A s \in DOMAIN rows : Ended(s) => rows'[s] = rows[s]]_vars

\* Nobody is added to or dropped from a meeting once its completion began: the
\* participants who are mentioned are those of the final record.
ParticipantsFrozen ==
  [][\A s \in DOMAIN rows :
       rows[s].status \notin OpenStatus => rows'[s].members = rows[s].members]_vars

\* Some job or coroutine will take session s further.
Attended(s) ==
  \/ \E j \in jobs : j.sid = s /\ j.kind \in {"complete", "recover"}
  \/ \E c \in Chats :
       \/ Busy(c) /\ lock[c].sid = s /\ lock[c].req.kind # "refresh"
       \/ \E i \in DOMAIN queue[c] :
            queue[c][i].kind \in {"complete", "recover"} /\ queue[c][i].sid = s

\* While the bot runs, every unfinished meeting is on its way to an end, except
\* those whose job the scheduler itself discarded.
NoMeetingForgotten ==
  up => \A s \in DOMAIN rows : Ended(s) \/ Attended(s) \/ s \in missed

\* Between operations the completion job of an active meeting is never due before
\* the time in its row, which is the time people see.
JobNotBeforeMeeting ==
  \A j \in jobs :
    j.kind = "complete" /\ Undisturbed(j.sid) /\ rows[j.sid].status = "active"
    => j.at = rows[j.sid].time \/ (j.at > rows[j.sid].time /\ Spent("crash") > 0)

\* The participants are called once, and once more at most for every answer of
\* Telegram that got lost and every crash.
CalledAtMostOnce ==
  \A s \in DOMAIN rows : pings[s] <= 1 + Spent("lost") + Spent("crash")

\* A completed meeting that somebody wanted to attend has been called.
CompletedMeansCalled ==
  \A s \in DOMAIN rows :
    rows[s].status = "completed" /\ rows[s].members # {} => pings[s] > 0

\* Between operations, unless an answer was lost or the bot crashed, the card of
\* an active meeting shows its time and nobody who is not a participant.
CardNotAhead ==
  \A s \in DOMAIN rows :
    /\ rows[s].status = "active" /\ Undisturbed(s) /\ Available(rows[s].msg)
    /\ Spent("lost") = 0 /\ Spent("crash") = 0
    => /\ cards[rows[s].msg].time = rows[s].time
       /\ cards[rows[s].msg].members \subseteq rows[s].members

\* Between operations, if every call to Telegram worked and the bot did not crash,
\* the pinned cards of a chat are the card of its active meeting and no other.
PinFollowsMeeting ==
  Spent("reject") = 0 /\ Spent("lost") = 0 /\ Spent("crash") = 0 =>
    \A m \in DOMAIN cards :
      ~Busy(cards[m].chat) /\ ~cards[m].gone =>
        (cards[m].pinned <=> \E s \in OpenIn(cards[m].chat) : rows[s].msg = m)

\* A completed meeting leaves no buttons to press and no pin behind, even when the
\* bot was restarted in the middle, unless Telegram refused a call.
CompletedCardIsClosed ==
  Spent("reject") = 0 =>
    \A s \in DOMAIN rows :
      rows[s].status = "completed" /\ ~cards[rows[s].msg].gone =>
        ~cards[rows[s].msg].buttons /\ ~cards[rows[s].msg].pinned

\* Every meeting comes to an end, unless the scheduler discarded its job.
MeetingsEnd ==
  \A s \in 1..Budget["command"] :
    (s \in DOMAIN rows) ~> (s \in DOMAIN rows /\ Ended(s)) \/ s \in missed

-----------------------------------------------------------------------------
(* A statement of the documentation the code does not keep (see README).   *)

\* README: "At the chosen time the bot unpins it and mentions current participants".
CalledNotEarly ==
  [][\A s \in DOMAIN rows : pings'[s] > pings[s] => rows[s].time <= now]_vars
=============================================================================
