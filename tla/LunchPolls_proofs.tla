-------------------------- MODULE LunchPolls_proofs --------------------------
(***************************************************************************)
(* Theorems about LunchPolls, for any chats, users, handlers and numbers   *)
(* of commands, failures, crashes and days: pins are tracked, a chat gets  *)
(* one automatic poll a day at most, a place poll one follow-up for each   *)
(* life of the process, and a stored vote is the one that Telegram shows.  *)
(***************************************************************************)
EXTENDS LunchPolls, FiniteSetTheorems, TLAPS

-----------------------------------------------------------------------------
(* The inductive invariant.                                                *)

\* The local variables of the daily job.  It runs on the day it was started for, in chats that
\* were switched on then; the chats to come do not include the one it is at.
JobRight(t) ==
  t.pc # "idle" =>
    /\ t \in Publication /\ t.auto /\ t.day = day /\ ~due
    /\ t.chat \in t.chats /\ t.todo \subseteq t.chats \ {t.chat}
    /\ \A c \in t.chats : <<c, day>> \in history.on
    /\ t.pc \in {"clear", "announce"} => t.sent = 0
    /\ t.pc = "pin" => t.sent # 0

\* Those of a handler.
HandlerRight(t) ==
  t.pc # "idle" =>
    /\ t \in Publication \cup FollowUp /\ ~t.auto /\ t.pc \notin {"clear", "pin"}
    /\ t.pc = "announce" => t.sent = 0

\* A coroutine that waits for the answer to a poll that Telegram shows already.
Sent(t) == t.pc \in {"attend", "place", "follow"} /\ t.sent # 0

\* The poll it has sent is one for its chat and day.
SentRight(t) ==
  (Sent(t) \/ t.pc = "pin") =>
    /\ t.sent \in DOMAIN polls
    /\ polls[t.sent].chat = t.chat /\ polls[t.sent].day = t.day
    /\ t.pc = "follow" => polls[t.sent].parent = t.parent

\* Polls that are awaited are not registered, and awaited once.
Unregistered ==
  /\ \A w \in Workers : Sent(task[w]) => task[w].sent \notin ToSet(rows)
  /\ \A v, w \in Workers : Sent(task[v]) /\ Sent(task[w]) /\ task[v].sent = task[w].sent => v = w

TasksRight ==
  /\ JobRight(task["job"])
  /\ \A h \in Handlers : HandlerRight(task[h])
  /\ \A w \in Workers : SentRight(task[w])

\* The chats whose pins the job has still to clear, or to replace.
Ahead(t) == t.todo \cup (IF t.pc = "place" THEN {} ELSE {t.chat})

PinInv ==
  /\ \A c \in Chats : pin[c] # 0 => polls[pin[c]].chat = c
  /\ \A p \in pinned \ history.stray : pin[polls[p].chat] = p
  /\ task["job"].pc = "clear" =>
       \A c \in task["job"].chats : pin[c] # 0 => c \in Ahead(task["job"])
  /\ Publishing(task["job"]) =>
       \A c \in task["job"].chats :
         pin[c] # 0 => c \notin Ahead(task["job"]) /\ polls[pin[c]].day = day

\* The attendance polls of the job, and the chats that it has still to send one to.
IsAuto(p) == polls[p].auto /\ polls[p].kind = Attendance

Unserved(t) ==
  CASE t.pc = "idle" -> {}
    [] t.pc = "clear" -> t.chats
    [] t.pc = "announce" \/ (t.pc = "attend" /\ t.sent = 0) -> t.todo \cup {t.chat}
    [] OTHER -> t.todo

OnceInv ==
  /\ \A p \in DOMAIN polls : IsAuto(p) =>
       /\ polls[p].day <= day
       /\ polls[p].day = day => ~due /\ polls[p].chat \notin Unserved(task["job"])
  /\ AutoOncePerDay

\* A place poll whose action was consumed has its follow-up, or gets it, or lost it.
Followed(p) ==
  \/ FollowUps(p) # {}
  \/ \E w \in Handlers : task[w].pc = "follow" /\ task[w].parent = p
  \/ p \in history.dropped

\* The follow-ups of this life of the process come from actions marked as consumed, and each
\* of these is sent by one handler.
FollowInv ==
  /\ \A q \in DOMAIN polls :
       /\ polls[q].life <= history.life /\ polls[q].parent \in DOMAIN polls \cup {0}
       /\ polls[q].life = history.life /\ polls[q].parent # 0 => polls[q].parent \in consumed
  /\ \A h \in Handlers : task[h].pc = "follow" =>
       /\ task[h].parent \in consumed
       /\ task[h].sent = 0 =>
            \A q \in FollowUps(task[h].parent) : polls[q].life # history.life
       /\ \A g \in Handlers : task[g].pc = "follow" /\ task[g].parent = task[h].parent => g = h
  /\ \A p \in consumed : Followed(p)
  /\ FollowUpOnce
  /\ OtherIsFollowed

\* The last answer of a user that waits for a poll is what Telegram shows; so is the answer
\* handled last, unless one waits.
Fresh(a) == a.chosen = Chosen(a.poll, a.user)

Stored(p, u) == {o \in Options : <<p, u, o>> \in votes}

AnswersFresh ==
  /\ \A i \in DOMAIN inbox :
       (\A j \in DOMAIN inbox : j > i =>
          ~(inbox[j].poll = inbox[i].poll /\ inbox[j].user = inbox[i].user)) => Fresh(inbox[i])
  /\ \A i \in DOMAIN inbox : inbox[i].poll \in DOMAIN polls
  /\ Len(last) <= 1
  /\ \A i \in DOMAIN last : last[i].poll \in DOMAIN polls
  /\ \A i \in DOMAIN last : Pending(last[i].poll, last[i].user) \/ Fresh(last[i])

VoteInv ==
  /\ AnswersFresh
  /\ \A p \in DOMAIN polls, u \in Users :
       \/ Stored(p, u) = KnownOptions(polls[p].kind, Chosen(p, u))
       \/ Pending(p, u) \/ <<p, u>> \in history.missed

LInv ==
  /\ TypeOK /\ TasksRight /\ Unregistered
  /\ PinInv /\ OnceInv /\ FollowInv /\ VoteInv

-----------------------------------------------------------------------------
(* The values the job takes from chat to chat.                             *)

LEMMA MinFacts ==
  ASSUME NEW S \in SUBSET Nat, S # {}
  PROVE  Min(S) \in S /\ \A y \in S : Min(S) <= y
<1> DEFINE Below == {0 .. n : n \in S}
           R == StrictSubsetOrdering(Nat)
<1>1. Below \subseteq FiniteSubsetsOf(Nat) /\ Below # {}
  <2>1. ASSUME NEW n \in S PROVE 0 .. n \in SUBSET Nat /\ IsFiniteSet(0 .. n)
    BY FS_Interval
  <2> QED
    BY <2>1 DEF FiniteSubsetsOf
<1>2. PICK X \in Below : \A Y \in Below : ~(<<Y, X>> \in R)
  <2>1. IsWellFoundedOn(R, FiniteSubsetsOf(Nat))
    BY FS_StrictSubsetOrderingWellFounded
  <2> HIDE DEF Below, R
  <2> QED
    BY <1>1, <2>1, WFMin
<1>3. PICK x \in S : X = 0 .. x
  BY <1>2
<1>4. ASSUME NEW y \in S, y < x PROVE FALSE
  <2>1. 0 .. y \subseteq 0 .. x /\ 0 .. y # 0 .. x
    <3>1. x \in 0 .. x /\ x \notin 0 .. y
      BY <1>4
    <3> QED
      BY <1>4, <3>1
  <2>2. 0 .. y \in SUBSET Nat /\ 0 .. x \in SUBSET Nat
    OBVIOUS
  <2>3. <<0 .. y, 0 .. x>> \in R
    BY <2>1, <2>2 DEF StrictSubsetOrdering
  <2> QED
    BY <1>2, <1>3, <2>3
<1>5. \A y \in S : x <= y
  BY <1>4
<1> QED
  BY <1>5 DEF Min

LEMMA PollFacts ==
  ASSUME TypeOK
  PROVE  \A p \in DOMAIN polls :
           /\ p \in Nat \ {0}
           /\ polls[p] \in PollRecord /\ polls[p].chat \in Chats /\ polls[p].day \in Days
<1>1. polls \in Seq(PollRecord)
  BY DEF TypeOK
<1>2. \A p \in DOMAIN polls : p \in Nat \ {0} /\ polls[p] \in PollRecord
  BY <1>1
<1> QED
  BY <1>2 DEF PollRecord

LEMMA SpendType ==
  ASSUME TypeOK, NEW event \in BudgetKinds, Can(event), Spend(event)
  PROVE  budget' \in [BudgetKinds -> Nat]
<1>1. budget \in [BudgetKinds -> Nat]
  BY DEF TypeOK
<1>2. budget[event] \in Nat /\ budget[event] > 0
  BY <1>1 DEF Can
<1>3. budget[event] - 1 \in Nat
  BY <1>2
<1> QED
  BY <1>1, <1>3 DEF Spend

\* What a coroutine may hold.
TaskValue == {Idle} \cup Publication \cup FollowUp

LEMMA PlaceKindType ==
  ASSUME NEW selection, NEW d
  PROVE  PlaceKind(selection, d) \in PlaceKinds
BY DEF PlaceKind, PlaceKinds

\* What the job is after publish() was started in the first of some chats.
Announces(t, todo, chats, d) ==
  /\ t \in Publication /\ t.pc = "announce" /\ t.auto /\ t.sent = 0 /\ t.chats = chats /\ t.day = d
  /\ t.chat \in todo /\ t.todo = todo \ {t.chat}

LEMMA PublishResult ==
  ASSUME NEW todo, NEW chats \in SUBSET Chats, todo \subseteq chats, NEW d \in Days
  PROVE  PublishIn(todo, chats, d) = Idle \/ Announces(PublishIn(todo, chats, d), todo, chats, d)
<1> SUFFICES ASSUME PublishIn(todo, chats, d) # Idle
             PROVE  Announces(PublishIn(todo, chats, d), todo, chats, d)
  OBVIOUS
<1> DEFINE t == [pc |-> "announce", chat |-> Min(todo), auto |-> TRUE,
                 place |-> PlaceKind("automatic", d), day |-> d, sent |-> 0,
                 chats |-> chats, todo |-> todo \ {Min(todo)}]
<1>1. todo # {} /\ PublishIn(todo, chats, d) = t
  BY DEF PublishIn
<1>2. Min(todo) \in todo
  BY <1>1, MinFacts, LunchAssumption
<1>3. t \in Publication
  BY <1>2, PlaceKindType DEF Publication
<1> QED
  BY <1>1, <1>2, <1>3 DEF Announces

\* What it is while it clears the pins of some chats, the first of which has one.
Clears(t, todo, chats, d) ==
  /\ t \in Publication /\ t.pc = "clear" /\ t.auto /\ t.sent = 0 /\ t.chats = chats /\ t.day = d
  /\ t.chat \in todo /\ t.todo \subseteq todo \ {t.chat}
  /\ \A c \in todo : pin[c] # 0 => c \in t.todo \cup {t.chat}

LEMMA ClearResult ==
  ASSUME NEW todo, NEW chats \in SUBSET Chats, todo \subseteq chats, NEW d \in Days
  PROVE  \/ ClearPins(todo, chats, d) = Idle
         \/ Clears(ClearPins(todo, chats, d), todo, chats, d)
         \/ /\ \A c \in todo : pin[c] = 0
            /\ Announces(ClearPins(todo, chats, d), chats, chats, d)
<1> DEFINE saved == {c \in todo : pin[c] # 0}
           t == [pc |-> "clear", chat |-> Min(saved), auto |-> TRUE,
                 place |-> PlaceKind("automatic", d), day |-> d, sent |-> 0,
                 chats |-> chats, todo |-> {c \in saved : c > Min(saved)}]
<1>1. CASE saved # {}
  <2>1. ClearPins(todo, chats, d) = t
    BY <1>1 DEF ClearPins
  <2>2. saved \in SUBSET Nat
    BY LunchAssumption
  <2>3. Min(saved) \in saved /\ \A c \in saved : Min(saved) <= c
    <3> HIDE DEF saved
    <3> QED
      BY <1>1, <2>2, MinFacts
  <2>4. t \in Publication
    BY <2>3, PlaceKindType DEF Publication
  <2>5. /\ \A c \in saved : c = Min(saved) \/ c > Min(saved)
        /\ ~(Min(saved) > Min(saved))
    <3>1. \A m, c \in Nat : m <= c => c = m \/ c > m
      OBVIOUS
    <3>2. \A m \in Nat : ~(m > m)
      OBVIOUS
    <3> HIDE DEF saved
    <3> QED
      BY <2>2, <2>3, <3>1, <3>2, Zenon
  <2> QED
    BY <2>1, <2>3, <2>4, <2>5 DEF Clears
<1>2. CASE saved = {}
  BY <1>2, PublishResult DEF ClearPins
<1> QED
  BY <1>1, <1>2

-----------------------------------------------------------------------------
(* Steps that leave a part of the state alone.                             *)

LEMMA VotesKept ==
  ASSUME VoteInv, UNCHANGED <<inbox, last, cast, votes, polls>>, history'.missed = history.missed
  PROVE  VoteInv'
BY DEF VoteInv, AnswersFresh, Fresh, Chosen, Pending, Stored

\* The handlers that send follow-up polls are the same.
SameFollows ==
  \A h \in Handlers :
    /\ task'[h].pc = "follow" <=> task[h].pc = "follow"
    /\ task[h].pc = "follow" => task'[h] = task[h]

LEMMA FollowedKept ==
  ASSUME UNCHANGED polls, history.dropped \subseteq history'.dropped, SameFollows,
         NEW p, Followed(p)
  PROVE  Followed(p)'
BY DEF SameFollows, Followed, FollowUps

\* The polls registered anew have no votes.
LEMMA FollowsKeptRows ==
  ASSUME FollowInv, SameFollows, UNCHANGED <<polls, consumed, votes>>,
         \A p \in ToSet(rows') :
           p \in ToSet(rows) \/ \A u \in Users, o \in Options : <<p, u, o>> \notin votes,
         history'.life = history.life, history.dropped \subseteq history'.dropped
  PROVE  FollowInv'
<1>1. FollowUpOnce'
  BY DEF FollowInv, FollowUpOnce, FollowUps
<1>2. \A p \in consumed' : Followed(p)'
  BY FollowedKept DEF FollowInv
<1>3. OtherIsFollowed'
  <2>1. ASSUME NEW p \in ToSet(rows'), NEW u \in Users, <<p, u, "other">> \in votes',
               polls'[p].kind \in PlaceKinds
        PROVE  Followed(p)'
    <3>1. p \in ToSet(rows)
      BY <2>1 DEF Options
    <3>2. Followed(p)
      BY <2>1, <3>1 DEF FollowInv, OtherIsFollowed, Followed
    <3> QED
      BY <3>2, FollowedKept
  <2> QED
    BY <2>1 DEF OtherIsFollowed, Followed
<1>4. \A p : FollowUps(p)' = FollowUps(p)
  BY DEF FollowUps
<1>5. \A h \in Handlers : task'[h].pc = "follow" =>
        /\ task[h].pc = "follow" /\ task'[h] = task[h]
        /\ task'[h].parent \in consumed'
        /\ task'[h].sent = 0 => \A q \in FollowUps(task[h].parent)' : polls'[q].life # history'.life
  BY <1>4 DEF FollowInv, SameFollows
<1>6. \A g, h \in Handlers :
        task'[g].pc = "follow" /\ task'[h].pc = "follow" /\ task'[g].parent = task'[h].parent => g = h
  BY <1>5 DEF FollowInv
<1>7. \A h \in Handlers : task'[h].pc = "follow" =>
        /\ task'[h].parent \in consumed'
        /\ task'[h].sent = 0 =>
             \A q \in FollowUps(task[h].parent)' : polls'[q].life # history'.life
        /\ \A g \in Handlers :
             task'[g].pc = "follow" /\ task'[g].parent = task'[h].parent => g = h
  BY <1>5, <1>6
<1> QED
  BY <1>1, <1>2, <1>3, <1>7 DEF FollowInv

LEMMA FollowsKept ==
  ASSUME FollowInv, SameFollows, UNCHANGED <<polls, consumed, rows, votes>>,
         history'.life = history.life, history.dropped \subseteq history'.dropped
  PROVE  FollowInv'
BY FollowsKeptRows

LEMMA OnceKept ==
  ASSUME OnceInv, UNCHANGED <<polls, day>>, due' => due, history.on \subseteq history'.on,
         Unserved(task'["job"]) \subseteq Unserved(task["job"])
  PROVE  OnceInv'
BY DEF OnceInv, AutoOncePerDay, IsAuto

LEMMA PinsKept ==
  ASSUME PinInv, UNCHANGED <<polls, day, pin, pinned>>, task'["job"] = task["job"],
         history'.stray = history.stray
  PROVE  PinInv'
BY DEF PinInv, Publishing, Ahead

LEMMA UnregisteredKept ==
  ASSUME Unregistered, UNCHANGED rows,
         \A w \in Workers : Sent(task'[w]) => Sent(task[w]) /\ task'[w].sent = task[w].sent
  PROVE  Unregistered'
BY DEF Unregistered

\* Days, switches and users.
LEMMA AsideStep ==
  ASSUME LInv, TypeOK',
         UNCHANGED <<day, pin, rows, votes, consumed, task, polls, pinned, cast, inbox, last, history>>,
         due' => due
  PROVE  LInv'
<1>1. TasksRight'
  BY DEF LInv, TasksRight, JobRight, HandlerRight, SentRight, Sent
<1>2. Unregistered'
  BY UnregisteredKept DEF LInv
<1>3. SameFollows
  BY DEF SameFollows
<1> QED
  BY <1>1, <1>2, <1>3, PinsKept, OnceKept, FollowsKept, VotesKept DEF LInv

-----------------------------------------------------------------------------
(* The daily job.                                                          *)

HistoryValue ==
  [missed : SUBSET ((DOMAIN polls) \X Users), stray : SUBSET DOMAIN polls,
   dropped : SUBSET DOMAIN polls, failed : SUBSET (Chats \X Days),
   on : SUBSET (Chats \X Days), life : Nat]

\* A record with two fields replaced.
LEMMA TwoFields ==
  ASSUME NEW h \in HistoryValue, NEW x, NEW y
  PROVE  /\ [h EXCEPT !.failed = x, !.on = y] =
              [missed |-> h.missed, stray |-> h.stray, dropped |-> h.dropped, failed |-> x,
               on |-> y, life |-> h.life]
         /\ [h EXCEPT !.failed = x, !.stray = y] =
              [missed |-> h.missed, stray |-> y, dropped |-> h.dropped, failed |-> x,
               on |-> h.on, life |-> h.life]
<1>1. [h EXCEPT !.failed = x] =
        [missed |-> h.missed, stray |-> h.stray, dropped |-> h.dropped, failed |-> x,
         on |-> h.on, life |-> h.life]
  BY DEF HistoryValue
<1>2. /\ [[missed |-> h.missed, stray |-> h.stray, dropped |-> h.dropped, failed |-> x,
           on |-> h.on, life |-> h.life] EXCEPT !.on = y] =
           [missed |-> h.missed, stray |-> h.stray, dropped |-> h.dropped, failed |-> x,
            on |-> y, life |-> h.life]
      /\ [[missed |-> h.missed, stray |-> h.stray, dropped |-> h.dropped, failed |-> x,
           on |-> h.on, life |-> h.life] EXCEPT !.stray = y] =
           [missed |-> h.missed, stray |-> y, dropped |-> h.dropped, failed |-> x,
            on |-> h.on, life |-> h.life]
  OBVIOUS
<1>3. /\ [h EXCEPT !.failed = x, !.on = y] = [[h EXCEPT !.failed = x] EXCEPT !.on = y]
      /\ [h EXCEPT !.failed = x, !.stray = y] = [[h EXCEPT !.failed = x] EXCEPT !.stray = y]
  OBVIOUS
<1> QED
  BY <1>1, <1>2, <1>3

\* Chats the job passes over.
LEMMA SkipsType ==
  ASSUME day \in Days, NEW todo \in SUBSET Chats, NEW chats \in SUBSET Chats, NEW d
  PROVE  /\ ClearSkips(todo, chats, d) \in SUBSET (Chats \X Days)
         /\ Skipped(todo) \in SUBSET (Chats \X Days)
BY DEF ClearSkips, Skipped

\* Only the job moves: the parts about handlers and votes stay.
JobMoves(t) == task' = [task EXCEPT !["job"] = t]

LEMMA JobMovesFacts ==
  ASSUME TypeOK, NEW t, JobMoves(t)
  PROVE  /\ task'["job"] = t
         /\ \A h \in Handlers : task'[h] = task[h]
         /\ SameFollows
         /\ t \in TaskValue => task' \in [Workers -> TaskValue]
<1>1. "job" \in Workers /\ Handlers \subseteq Workers /\ "job" \notin Handlers
  BY LunchAssumption DEF Workers
<1>2. task'["job"] = t /\ \A h \in Handlers : task'[h] = task[h]
  BY <1>1 DEF JobMoves, TypeOK
<1>3. SameFollows
  BY <1>2 DEF SameFollows
<1>4. t \in TaskValue => task' \in [Workers -> TaskValue]
  BY DEF JobMoves, TypeOK, TaskValue
<1> QED
  BY <1>2, <1>3, <1>4

\* The job at the start of a run: it clears pins, publishes, or is done.
LEMMA StartRunStep ==
  ASSUME LInv, StartRun
  PROVE  LInv'
<1>0. PICK t, failed, on :
        /\ t = ClearPins(enabled, enabled, day)
        /\ failed = history.failed \cup ClearSkips(enabled, enabled, day)
        /\ on = history.on \cup enabled \X {day}
  OBVIOUS
<1>1. /\ up /\ due /\ task["job"] = Idle /\ due' = FALSE /\ JobMoves(t)
      /\ history' = [history EXCEPT !.failed = failed, !.on = on]
      /\ UNCHANGED <<day, up, enabled, pin, rows, votes, groups, workdays, active, away, consumed,
                     polls, pinned, cast, inbox, last, budget>>
  BY <1>0 DEF StartRun, Become, JobMoves, database, world, telegram, updates
<1>2. TypeOK /\ day \in Days /\ enabled \in SUBSET Chats /\ history \in HistoryValue
  BY DEF LInv, TypeOK, HistoryValue
<1>3. history' = [missed |-> history.missed, stray |-> history.stray, dropped |-> history.dropped,
                  failed |-> failed, on |-> on, life |-> history.life]
  BY <1>1, <1>2, TwoFields
<1>4. failed \in SUBSET (Chats \X Days) /\ on \in SUBSET (Chats \X Days)
  BY <1>0, <1>2, SkipsType DEF HistoryValue
<1>5. \/ t = Idle
      \/ Clears(t, enabled, enabled, day)
      \/ (\A c \in enabled : pin[c] = 0) /\ Announces(t, enabled, enabled, day)
  BY <1>0, <1>2, ClearResult
<1>6. t \in TaskValue
  BY <1>5 DEF TaskValue, Clears, Announces
<1>7. /\ task'["job"] = t /\ SameFollows /\ task' \in [Workers -> TaskValue]
      /\ \A h \in Handlers : task'[h] = task[h]
  BY <1>1, <1>2, <1>6, JobMovesFacts
<1>8. TypeOK'
  <2>1. history' \in HistoryValue'
    BY <1>1, <1>2, <1>3, <1>4 DEF HistoryValue
  <2> QED
    BY <1>1, <1>2, <1>7, <2>1 DEF TypeOK, HistoryValue, TaskValue
<1>9. ~Sent(t) /\ t.pc # "pin" /\ (t = Idle => t.pc = "idle")
  BY <1>5 DEF Sent, Idle, Clears, Announces
<1>10. TasksRight'
  <2>1. JobRight(t)'
    BY <1>0, <1>1, <1>3, <1>5, <1>9 DEF JobRight, Clears, Announces
  <2>2. \A h \in Handlers : HandlerRight(task[h])' /\ SentRight(task[h])'
    BY <1>1, <1>7 DEF LInv, TasksRight, HandlerRight, SentRight, Sent, Workers
  <2>3. SentRight(t)'
    BY <1>9 DEF SentRight, Sent
  <2> QED
    BY <1>7, <2>1, <2>2, <2>3 DEF TasksRight, Workers
<1>11. Unregistered'
  BY <1>1, <1>7, <1>9, UnregisteredKept DEF LInv, Workers
<1>12. PinInv'
  BY <1>1, <1>3, <1>5, <1>7, <1>9 DEF LInv, PinInv, Publishing, Ahead, Clears, Announces
<1>13. OnceInv'
  <2>1. \A p \in DOMAIN polls : IsAuto(p) => polls[p].day # day
    BY <1>1 DEF LInv, OnceInv
  <2>2. history.on \subseteq history'.on
    BY <1>0, <1>3
  <2> QED
    BY <1>1, <2>1, <2>2 DEF LInv, OnceInv, AutoOncePerDay, IsAuto
<1>14. FollowInv' /\ VoteInv'
  BY <1>1, <1>3, <1>7, FollowsKept, VotesKept DEF LInv
<1> QED
  BY <1>8, <1>10, <1>11, <1>12, <1>13, <1>14 DEF LInv

\* An unpin call of the job: the row goes, and the pin does or is astray.
LEMMA PinClearedStep ==
  ASSUME LInv, PinCleared
  PROVE  LInv'
<1> DEFINE t == task["job"]
           c == t.chat
<1>a. PICK stray :
        \/ /\ stray = history.stray /\ pinned' = pinned \ {pin[c]} /\ budget' = budget
           /\ history' = [history EXCEPT !.failed = @ \cup ClearSkips(t.todo, t.chats, t.day)]
        \/ /\ stray = history.stray \cup ({pin[c]} \cap pinned) /\ pinned' = pinned
           /\ Can("reject") /\ Spend("reject")
           /\ history' = [history EXCEPT !.failed = @ \cup ClearSkips(t.todo, t.chats, t.day),
                                         !.stray = stray]
  <2>1. \/ /\ pinned' = pinned \ {pin[c]} /\ budget' = budget
           /\ history' = [history EXCEPT !.failed = @ \cup ClearSkips(t.todo, t.chats, t.day)]
        \/ /\ pinned' = pinned /\ Can("reject") /\ Spend("reject")
           /\ history' = [history EXCEPT !.failed = @ \cup ClearSkips(t.todo, t.chats, t.day),
                                         !.stray = @ \cup ({pin[c]} \cap pinned)]
    BY DEF PinCleared
  <2> QED
    BY <2>1
<1>0. PICK j, failed :
        /\ j = ClearPins(t.todo, t.chats, t.day)
        /\ failed = history.failed \cup ClearSkips(t.todo, t.chats, t.day)
  OBVIOUS
<1>1. /\ t.pc = "clear" /\ pin' = [pin EXCEPT ![c] = 0] /\ JobMoves(j)
      /\ UNCHANGED <<day, due, up, enabled, rows, votes, groups, workdays, active, away, consumed,
                     polls, cast, inbox, last>>
  BY <1>0 DEF PinCleared, Become, JobMoves, world, updates
<1>2. TypeOK /\ JobRight(t) /\ history \in HistoryValue
  BY DEF LInv, TasksRight, TypeOK, HistoryValue
<1>3. /\ t \in Publication /\ t.auto /\ t.day = day /\ ~due /\ t.sent = 0
      /\ c \in t.chats /\ t.todo \subseteq t.chats \ {c} /\ t.chats \in SUBSET Chats /\ c \in Chats
      /\ \A d \in t.chats : <<d, day>> \in history.on
  BY <1>1, <1>2 DEF JobRight, Publication
<1>4. /\ failed \in SUBSET (Chats \X Days) /\ stray \in SUBSET DOMAIN polls
      /\ pinned' \in SUBSET DOMAIN polls
      /\ budget' \in [BudgetKinds -> Nat] /\ day \in Days
  <2>1. day \in Days /\ t.todo \in SUBSET Chats /\ pinned \in SUBSET DOMAIN polls
    BY <1>2, <1>3 DEF TypeOK
  <2>2. failed \in SUBSET (Chats \X Days)
    BY <1>0, <1>2, <1>3, <2>1, SkipsType DEF HistoryValue
  <2>3. budget' \in [BudgetKinds -> Nat]
    <3>1. budget \in [BudgetKinds -> Nat] /\ "reject" \in BudgetKinds
      BY <1>2 DEF TypeOK, BudgetKinds
    <3> QED
      BY <1>a, <1>2, <3>1, SpendType
  <2> QED
    BY <1>a, <1>2, <2>1, <2>2, <2>3 DEF HistoryValue
<1>5. history' = [missed |-> history.missed, stray |-> stray, dropped |-> history.dropped,
                  failed |-> failed, on |-> history.on, life |-> history.life]
  <2>1. [history EXCEPT !.failed = failed] =
          [missed |-> history.missed, stray |-> history.stray, dropped |-> history.dropped,
           failed |-> failed, on |-> history.on, life |-> history.life]
    BY <1>2 DEF HistoryValue
  <2> QED
    BY <1>a, <1>0, <1>2, <2>1, TwoFields
<1>6. \/ j = Idle
      \/ Clears(j, t.todo, t.chats, day)
      \/ (\A d \in t.todo : pin[d] = 0) /\ Announces(j, t.chats, t.chats, day)
  BY <1>0, <1>3, <1>4, ClearResult
<1>7. j \in TaskValue /\ ~Sent(j) /\ j.pc # "pin" /\ (j = Idle => j.pc = "idle")
  BY <1>6 DEF TaskValue, Clears, Announces, Sent, Idle
<1>8. /\ task'["job"] = j /\ SameFollows /\ task' \in [Workers -> TaskValue]
      /\ \A h \in Handlers : task'[h] = task[h]
  BY <1>1, <1>2, <1>7, JobMovesFacts
<1>9. /\ pin' \in [Chats -> 0 .. Len(polls)]
      /\ \A d \in Chats : pin'[d] = IF d = c THEN 0 ELSE pin[d]
  BY <1>1, <1>2, <1>3 DEF TypeOK
<1>10. TypeOK'
  <2>1. history' \in HistoryValue'
    BY <1>1, <1>2, <1>4, <1>5 DEF HistoryValue
  <2>2. up
    BY <1>1, <1>2 DEF TypeOK, Workers, Idle
  <2> QED
    BY <1>1, <1>2, <1>4, <1>8, <1>9, <2>1, <2>2 DEF TypeOK, HistoryValue, TaskValue
<1> HIDE DEF t, c
<1>11. TasksRight'
  <2>1. JobRight(j)'
    BY <1>1, <1>3, <1>5, <1>6, <1>7 DEF JobRight, Clears, Announces
  <2>2. \A h \in Handlers : HandlerRight(task[h])' /\ SentRight(task[h])'
    BY <1>1, <1>8 DEF LInv, TasksRight, HandlerRight, SentRight, Sent, Workers
  <2>3. SentRight(j)'
    BY <1>7 DEF SentRight, Sent
  <2> QED
    BY <1>8, <2>1, <2>2, <2>3 DEF TasksRight, Workers
<1>12. Unregistered'
  BY <1>1, <1>7, <1>8, UnregisteredKept DEF LInv, Workers
<1>13. \A d \in t.chats : pin'[d] # 0 => d \in t.todo /\ pin[d] # 0
  BY <1>1, <1>3, <1>9 DEF LInv, PinInv, Ahead, t, c
<1>14. PinInv'
  <2>1. \A d \in Chats : pin'[d] # 0 => polls'[pin'[d]].chat = d
    BY <1>1, <1>9 DEF LInv, PinInv
  <2>2. ASSUME NEW p \in pinned' \ history'.stray PROVE pin'[polls'[p].chat] = p
    <3>1. p \in pinned \ history.stray /\ p # pin[c]
      BY <1>a, <1>5
    <3>2. pin[polls[p].chat] = p
      BY <3>1 DEF LInv, PinInv
    <3>3. p \in DOMAIN polls /\ polls[p].chat \in Chats
      BY <1>2, <3>1, PollFacts DEF TypeOK
    <3> QED
      BY <1>1, <1>9, <3>1, <3>2, <3>3
  <2>3. j.pc = "clear" => \A d \in j.chats : pin'[d] # 0 => d \in Ahead(j)
    BY <1>6, <1>13 DEF Clears, Announces, Ahead, Idle
  <2>4. Publishing(j) => \A d \in j.chats : pin'[d] = 0
    BY <1>6, <1>13 DEF Clears, Announces, Publishing, Idle
  <2> QED
    BY <1>8, <2>1, <2>2, <2>3, <2>4 DEF PinInv
<1>15. OnceInv'
  <2>1. Unserved(j) \subseteq Unserved(t)
    BY <1>1, <1>3, <1>6, <1>7 DEF Unserved, Clears, Announces
  <2> QED
    BY <1>1, <1>5, <1>8, <2>1, OnceKept DEF LInv, t
<1>16. FollowInv' /\ VoteInv'
  BY <1>1, <1>5, <1>8, FollowsKept, VotesKept DEF LInv
<1> QED
  BY <1>10, <1>11, <1>12, <1>14, <1>15, <1>16 DEF LInv

-----------------------------------------------------------------------------
(* A coroutine moves on, and polls and rows stay.                          *)

\* What the job becomes gives it no more to do, and no pin to clear.
NoMoreToDo(j, t) ==
  /\ Unserved(j) \subseteq Unserved(t)
  /\ j.pc # "clear"
  /\ Publishing(j) => Publishing(t) /\ j.chats = t.chats /\ Ahead(j) \subseteq Ahead(t)

LEMMA PinsMove ==
  ASSUME PinInv, UNCHANGED <<polls, day, pin, pinned>>, history'.stray = history.stray,
         NoMoreToDo(task'["job"], task["job"]) \/ task'["job"] = task["job"]
  PROVE  PinInv'
<1>1. CASE NoMoreToDo(task'["job"], task["job"])
  BY <1>1 DEF NoMoreToDo, PinInv, Publishing
<1> QED
  BY <1>1, PinsKept

\* A worker w becomes j, and the local variables of the others stay.
LEMMA TasksMove ==
  ASSUME TypeOK, TasksRight, NEW w \in Workers, NEW j, task' = [task EXCEPT ![w] = j],
         UNCHANGED <<day, due, polls>>, history.on \subseteq history'.on,
         w = "job" => JobRight(j), w \in Handlers => HandlerRight(j), SentRight(j)
  PROVE  TasksRight'
<1>1. \A v \in Workers : task'[v] = IF v = w THEN j ELSE task[v]
  BY DEF TypeOK
<1>2. "job" \in Workers /\ Handlers \subseteq Workers /\ "job" \notin Handlers
  BY LunchAssumption DEF Workers
<1>3. \A t : (JobRight(t) => JobRight(t)') /\ (SentRight(t) => SentRight(t)')
             /\ (HandlerRight(t) => HandlerRight(t)')
  <2> SUFFICES ASSUME NEW t
               PROVE  /\ JobRight(t) => JobRight(t)'
                      /\ SentRight(t) => SentRight(t)'
                      /\ HandlerRight(t) => HandlerRight(t)'
    OBVIOUS
  <2>1. JobRight(t) => JobRight(t)'
    BY DEF JobRight
  <2>2. SentRight(t) => SentRight(t)'
    BY DEF SentRight
  <2>3. HandlerRight(t) => HandlerRight(t)'
    BY DEF HandlerRight
  <2> QED
    BY <2>1, <2>2, <2>3
<1>4. JobRight(task'["job"])
  BY <1>1, <1>2 DEF TasksRight
<1>5. \A h \in Handlers : HandlerRight(task'[h])
  BY <1>1, <1>2 DEF TasksRight
<1>6. \A v \in Workers : SentRight(task'[v])
  BY <1>1 DEF TasksRight
<1>7. PICK f : f = task'
  OBVIOUS
<1>8. JobRight(f["job"])' /\ (\A h \in Handlers : HandlerRight(f[h])') /\ \A v \in Workers : SentRight(f[v])'
  BY <1>3, <1>4, <1>5, <1>6, <1>7
<1> QED
  BY <1>7, <1>8 DEF TasksRight

LEMMA MoveStep ==
  ASSUME LInv, TypeOK', NEW w \in Workers, NEW j, task' = [task EXCEPT ![w] = j],
         UNCHANGED <<day, due, pin, rows, votes, consumed, polls, pinned, cast, inbox, last>>,
         history'.missed = history.missed, history'.stray = history.stray,
         history'.on = history.on, history'.life = history.life,
         history.dropped \subseteq history'.dropped,
         w = "job" => JobRight(j) /\ NoMoreToDo(j, task[w]),
         w \in Handlers => HandlerRight(j) /\ j.pc # "follow" /\ task[w].pc # "follow",
         SentRight(j), Sent(j) => Sent(task[w]) /\ j.sent = task[w].sent
  PROVE  LInv'
<1>1. \A v \in Workers : task'[v] = IF v = w THEN j ELSE task[v]
  BY DEF LInv, TypeOK
<1>2. "job" \in Workers /\ Handlers \subseteq Workers /\ "job" \notin Handlers
  BY LunchAssumption DEF Workers
<1>3. TasksRight'
  BY TasksMove DEF LInv
<1>4. Unregistered'
  BY <1>1, UnregisteredKept DEF LInv
<1>5. NoMoreToDo(task'["job"], task["job"]) \/ task'["job"] = task["job"]
  BY <1>1, <1>2
<1>6. PinInv'
  BY <1>5, PinsMove DEF LInv
<1>7. OnceInv'
  <2>1. Unserved(task'["job"]) \subseteq Unserved(task["job"])
    BY <1>5 DEF NoMoreToDo
  <2> QED
    BY <2>1, OnceKept DEF LInv
<1>8. SameFollows
  BY <1>1, <1>2 DEF SameFollows
<1> QED
  BY <1>3, <1>4, <1>6, <1>7, <1>8, FollowsKept, VotesKept DEF LInv

\* A publication in another phase.
Phases == {"clear", "announce", "attend", "pin", "place"}

Like(j, t) ==
  /\ j \in Publication /\ j.chat = t.chat /\ j.auto = t.auto /\ j.place = t.place
  /\ j.day = t.day /\ j.chats = t.chats /\ j.todo = t.todo

LEMMA PublicationStep ==
  ASSUME NEW t \in Publication, NEW pc \in Phases, NEW s \in Nat
  PROVE  /\ Like([t EXCEPT !.pc = pc, !.sent = s], t)
         /\ [t EXCEPT !.pc = pc, !.sent = s].pc = pc /\ [t EXCEPT !.pc = pc, !.sent = s].sent = s
         /\ Like([t EXCEPT !.pc = pc], t)
         /\ [t EXCEPT !.pc = pc].pc = pc /\ [t EXCEPT !.pc = pc].sent = t.sent
         /\ Like([t EXCEPT !.sent = s], t)
         /\ [t EXCEPT !.sent = s].pc = t.pc /\ [t EXCEPT !.sent = s].sent = s
<1> DEFINE R(p, n) == [pc |-> p, chat |-> t.chat, auto |-> t.auto, place |-> t.place, day |-> t.day,
                       sent |-> n, chats |-> t.chats, todo |-> t.todo]
<1>1. [t EXCEPT !.pc = pc] = R(pc, t.sent) /\ [t EXCEPT !.sent = s] = R(t.pc, s)
  BY DEF Publication
<1>2. [R(pc, t.sent) EXCEPT !.sent = s] = R(pc, s)
  OBVIOUS
<1>3. [t EXCEPT !.pc = pc, !.sent = s] = [[t EXCEPT !.pc = pc] EXCEPT !.sent = s]
  OBVIOUS
<1>4. [t EXCEPT !.pc = pc, !.sent = s] = R(pc, s)
  BY <1>1, <1>2, <1>3
<1>5. /\ t.chat \in Chats /\ t.auto \in BOOLEAN /\ t.place \in PlaceKinds /\ t.day \in Days
      /\ t.sent \in Nat /\ t.chats \in SUBSET Chats /\ t.todo \in SUBSET Chats
      /\ t.pc \in Phases
  BY DEF Publication, Phases
<1>6. R(pc, s) \in Publication /\ R(pc, t.sent) \in Publication /\ R(t.pc, s) \in Publication
  BY <1>5 DEF Publication, Phases
<1> QED
  BY <1>1, <1>4, <1>6 DEF Like

LEMMA TaskFacts ==
  ASSUME TypeOK, NEW w \in Workers
  PROVE  /\ task[w] \in TaskValue
         /\ task[w].pc \in Phases <=> task[w] \in Publication
         /\ task[w].pc = "follow" <=> task[w] \in FollowUp
         /\ task[w].pc = "idle" <=> task[w] = Idle
         /\ task[w].pc \in Phases \cup {"follow", "idle"}
<1>1. PICK t : t = task[w] /\ t \in {Idle} \cup Publication \cup FollowUp
  BY DEF TypeOK
<1>2. /\ t \in Publication => t.pc \in Phases
      /\ t \in FollowUp => t.pc = "follow"
      /\ t = Idle => t.pc = "idle"
  <2>1. ASSUME t \in Publication PROVE t.pc \in Phases
    BY <2>1 DEF Publication, Phases
  <2>2. ASSUME t \in FollowUp PROVE t.pc = "follow"
    BY <2>2 DEF FollowUp
  <2>3. Idle.pc = "idle"
    BY DEF Idle
  <2> QED
    BY <2>1, <2>2, <2>3
<1>3. "idle" \notin Phases /\ "follow" \notin Phases /\ "idle" # "follow"
  BY DEF Phases
<1> QED
  BY <1>1, <1>2, <1>3 DEF TaskValue

LEMMA PhaseStep ==
  ASSUME NEW t \in Publication, NEW pc \in Phases
  PROVE  /\ Like([t EXCEPT !.pc = pc], t)
         /\ [t EXCEPT !.pc = pc].pc = pc /\ [t EXCEPT !.pc = pc].sent = t.sent
<1>1. 0 \in Nat
  OBVIOUS
<1> QED
  BY <1>1, PublicationStep

LEMMA PlaceStep ==
  ASSUME NEW t \in Publication
  PROVE  /\ Like([t EXCEPT !.pc = "place", !.sent = 0], t)
         /\ [t EXCEPT !.pc = "place", !.sent = 0].pc = "place"
         /\ [t EXCEPT !.pc = "place", !.sent = 0].sent = 0
<1> DEFINE R(p, n) == [pc |-> p, chat |-> t.chat, auto |-> t.auto, place |-> t.place, day |-> t.day,
                       sent |-> n, chats |-> t.chats, todo |-> t.todo]
<1>1. [t EXCEPT !.pc = "place"] = R("place", t.sent)
  BY DEF Publication
<1>2. [R("place", t.sent) EXCEPT !.sent = 0] = R("place", 0)
  OBVIOUS
<1>3. [t EXCEPT !.pc = "place", !.sent = 0] = [[t EXCEPT !.pc = "place"] EXCEPT !.sent = 0]
  OBVIOUS
<1>4. [t EXCEPT !.pc = "place", !.sent = 0] = R("place", 0)
  BY <1>1, <1>2, <1>3
<1>5. R("place", 0) \in Publication
  BY DEF Publication
<1> QED
  BY <1>4, <1>5 DEF Like

\* The answer to an announcement.
LEMMA AnnouncedStep ==
  ASSUME LInv, NEW w \in Workers, Announced(w)
  PROVE  LInv'
<1>1. /\ task[w].pc = "announce" /\ task' = [task EXCEPT ![w] = [task[w] EXCEPT !.pc = "attend"]]
      /\ UNCHANGED <<day, due, up, enabled, pin, rows, votes, groups, workdays, active, away, consumed,
                     polls, pinned, cast, inbox, last, history, budget>>
  BY DEF Announced, Become, database, world, telegram, updates
<1>2. PICK t, j : t = task[w] /\ j = [t EXCEPT !.pc = "attend"]
  OBVIOUS
<1>3. TypeOK /\ t \in Publication
  BY <1>1, <1>2, TaskFacts DEF LInv, Phases
<1>4. /\ j \in Publication /\ j.chat = t.chat /\ j.auto = t.auto /\ j.place = t.place
      /\ j.day = t.day /\ j.chats = t.chats /\ j.todo = t.todo /\ j.pc = "attend" /\ j.sent = t.sent
  <2>1. "attend" \in Phases
    BY DEF Phases
  <2>2. Like(j, t) /\ j.pc = "attend" /\ j.sent = t.sent
    BY <1>2, <1>3, <2>1, PhaseStep
  <2> QED
    BY <2>2 DEF Like
<1>5. task' = [task EXCEPT ![w] = j]
  BY <1>1, <1>2
<1>6. up
  BY <1>1, <1>3 DEF TypeOK, Idle
<1>7. TypeOK'
  <2>1. task' \in [Workers -> TaskValue]
    BY <1>3, <1>4, <1>5 DEF TypeOK, TaskValue
  <2> QED
    BY <1>1, <1>3, <1>6, <2>1 DEF TypeOK, TaskValue
<1>8. w = "job" => JobRight(t)
  BY <1>2 DEF LInv, TasksRight
<1>9. w \in Handlers => HandlerRight(t)
  BY <1>2 DEF LInv, TasksRight
<1>10. t.sent = 0
  BY <1>1, <1>2, <1>8, <1>9, LunchAssumption DEF JobRight, HandlerRight, Workers
<1>11. w = "job" => JobRight(j) /\ NoMoreToDo(j, t)
  BY <1>1, <1>2, <1>4, <1>8, <1>10 DEF JobRight, NoMoreToDo, Unserved, Publishing, Ahead
<1>12. w \in Handlers => HandlerRight(j) /\ j.pc # "follow" /\ t.pc # "follow"
  BY <1>1, <1>2, <1>4, <1>9 DEF HandlerRight
<1>13. SentRight(j) /\ ~Sent(j)
  BY <1>4, <1>10 DEF SentRight, Sent
<1> QED
  BY <1>1, <1>2, <1>5, <1>7, <1>11, <1>12, <1>13, MoveStep

\* /lunch starts a publication.
LEMMA PublishCommandStep ==
  ASSUME LInv, NEW c \in groups, NEW s \in Selections, PublishCommand(c, s)
  PROVE  LInv'
<1>1. PICK j : j = [pc |-> "announce", chat |-> c, auto |-> FALSE, place |-> PlaceKind(s, day),
                    day |-> day, sent |-> 0, chats |-> {}, todo |-> {}]
  OBVIOUS
<1>2. /\ up /\ Can("command") /\ Spend("command") /\ Handle(j)
      /\ UNCHANGED <<day, due, up, enabled, pin, rows, votes, groups, workdays, active, away, consumed,
                     polls, pinned, cast, inbox, last, history>>
  BY <1>1 DEF PublishCommand, database, world, telegram, updates
<1>3. PICK h \in Handlers : task[h] = Idle /\ task' = [task EXCEPT ![h] = j]
  BY <1>2 DEF Handle, Become
<1>4. TypeOK /\ c \in Chats /\ day \in Days
  BY DEF LInv, TypeOK
<1>5. /\ j \in Publication /\ j.pc = "announce" /\ ~j.auto /\ j.sent = 0
  BY <1>1, <1>4, PlaceKindType DEF Publication
<1>6. TypeOK'
  <2>1. task' \in [Workers -> TaskValue]
    BY <1>3, <1>4, <1>5 DEF TypeOK, TaskValue
  <2>2. budget' \in [BudgetKinds -> Nat]
    BY <1>2, <1>4, SpendType DEF BudgetKinds
  <2> QED
    BY <1>2, <1>4, <2>1, <2>2 DEF TypeOK, TaskValue
<1>7. h \in Workers /\ h # "job"
  BY LunchAssumption DEF Workers
<1>8. HandlerRight(j) /\ j.pc # "follow" /\ task[h].pc # "follow" /\ SentRight(j) /\ ~Sent(j)
  BY <1>3, <1>5 DEF HandlerRight, SentRight, Sent, Idle
<1> QED
  BY <1>2, <1>3, <1>6, <1>7, <1>8, MoveStep

\* A coroutine goes on with the next chat, or ends.
LEMMA NextChatFacts ==
  ASSUME LInv, NEW w \in Workers, task[w] \in Publication, task[w].pc # "clear"
  PROVE  LET j == NextChat(task[w]) IN
         /\ j \in TaskValue /\ j.pc \in {"idle", "announce"}
         /\ w = "job" => JobRight(j) /\ NoMoreToDo(j, task[w])
         /\ w \in Handlers => HandlerRight(j)
         /\ SentRight(j) /\ ~Sent(j)
<1>1. PICK t, j : t = task[w] /\ j = NextChat(t)
  OBVIOUS
<1>2. /\ TypeOK /\ t \in Publication /\ t.pc # "clear" /\ t.pc # "idle"
      /\ t.chats \in SUBSET Chats /\ t.day \in Days
  BY <1>1, TaskFacts DEF LInv, Publication, Idle, Phases
<1>3. Idle \in TaskValue /\ Idle.pc = "idle"
  BY DEF TaskValue, Idle
<1>4. CASE w = "job"
  <2>1. JobRight(t)
    BY <1>1, <1>4 DEF LInv, TasksRight
  <2>2. /\ t.auto /\ t.day = day /\ ~due /\ t.todo \subseteq t.chats
        /\ \A c \in t.chats : <<c, day>> \in history.on
    BY <1>2, <2>1 DEF JobRight
  <2>3. j = Idle \/ Announces(j, t.todo, t.chats, t.day)
    BY <1>1, <1>2, <2>2, PublishResult DEF NextChat
  <2>4. CASE j = Idle
    BY <1>1, <1>3, <1>4, <2>4, LunchAssumption
    DEF JobRight, NoMoreToDo, SentRight, Sent, Unserved, Publishing
  <2>5. CASE Announces(j, t.todo, t.chats, t.day)
    <3>1. JobRight(j)
      BY <2>2, <2>5 DEF JobRight, Announces
    <3>2. Unserved(j) \subseteq Unserved(t)
      BY <1>2, <2>2, <2>5 DEF Unserved, Announces
    <3>3. Publishing(t)
      BY <1>2 DEF Publication, Publishing
    <3>4. NoMoreToDo(j, t)
      BY <2>5, <3>2, <3>3 DEF NoMoreToDo, Announces, Ahead
    <3> QED
      BY <1>1, <1>4, <2>5, <3>1, <3>4, LunchAssumption DEF Announces, SentRight, Sent, TaskValue
  <2> QED
    BY <2>3, <2>4, <2>5
<1>5. CASE w \in Handlers
  <2>1. ~t.auto
    BY <1>1, <1>2, <1>5 DEF LInv, TasksRight, HandlerRight
  <2>2. j = Idle
    BY <1>1, <2>1 DEF NextChat
  <2> QED
    BY <1>1, <1>3, <1>5, <2>2, LunchAssumption DEF HandlerRight, SentRight, Sent
<1> QED
  BY <1>4, <1>5 DEF Workers

LEMMA OneField ==
  ASSUME NEW h \in HistoryValue, NEW x
  PROVE  /\ [h EXCEPT !.failed = x] =
              [missed |-> h.missed, stray |-> h.stray, dropped |-> h.dropped, failed |-> x,
               on |-> h.on, life |-> h.life]
         /\ [h EXCEPT !.dropped = x] =
              [missed |-> h.missed, stray |-> h.stray, dropped |-> x, failed |-> h.failed,
               on |-> h.on, life |-> h.life]
         /\ [h EXCEPT !.stray = x] =
              [missed |-> h.missed, stray |-> x, dropped |-> h.dropped, failed |-> h.failed,
               on |-> h.on, life |-> h.life]
         /\ [h EXCEPT !.missed = x] =
              [missed |-> x, stray |-> h.stray, dropped |-> h.dropped, failed |-> h.failed,
               on |-> h.on, life |-> h.life]
BY DEF HistoryValue

\* The call of a publication fails: the job goes on with the next chat, a command ends.
LEMMA SendFailsPublishing ==
  ASSUME LInv, NEW w \in Workers, SendFails(w), task[w].pc # "follow"
  PROVE  LInv'
<1>1. PICK t, j, x :
        /\ t = task[w] /\ j = NextChat(t)
        /\ x = history.failed \cup (NextSkips(t) \cup (IF t.auto THEN {<<t.chat, t.day>>} ELSE {}))
  OBVIOUS
<1>2. /\ t.pc \in {"announce", "attend", "place"} /\ task' = [task EXCEPT ![w] = j]
      /\ history' = [history EXCEPT !.failed = x]
      /\ UNCHANGED <<day, due, up, enabled, pin, rows, votes, groups, workdays, active, away, consumed,
                     polls, pinned, cast, inbox, last>>
      /\ \E event \in {"reject", "lost"} : Can(event) /\ Spend(event)
  BY <1>1 DEF SendFails, Become, Record, database, world, telegram, updates
<1>3. /\ TypeOK /\ t \in Publication /\ t.chat \in Chats /\ t.todo \in SUBSET Chats /\ t.day \in Days
      /\ day \in Days /\ history \in HistoryValue
  <2>1. t \in Publication
    BY <1>1, <1>2, TaskFacts DEF LInv, Phases
  <2> QED
    BY <2>1 DEF LInv, TypeOK, HistoryValue, Publication
<1>4. /\ j \in TaskValue /\ j.pc \in {"idle", "announce"}
      /\ w = "job" => JobRight(j) /\ NoMoreToDo(j, t)
      /\ w \in Handlers => HandlerRight(j)
      /\ SentRight(j) /\ ~Sent(j)
  BY <1>1, <1>2, <1>3, NextChatFacts
<1>5. history' = [missed |-> history.missed, stray |-> history.stray, dropped |-> history.dropped,
                  failed |-> x, on |-> history.on, life |-> history.life]
  BY <1>2, <1>3, OneField
<1>6. TypeOK'
  <2>1. task' \in [Workers -> TaskValue]
    BY <1>2, <1>3, <1>4 DEF TypeOK, TaskValue
  <2>2. budget' \in [BudgetKinds -> Nat]
    BY <1>2, <1>3, SpendType DEF BudgetKinds
  <2>3. x \in SUBSET (Chats \X Days)
    BY <1>1, <1>3, SkipsType DEF HistoryValue, NextSkips
  <2>4. history' \in HistoryValue'
    BY <1>2, <1>3, <1>5, <2>3 DEF HistoryValue
  <2>5. up
    BY <1>1, <1>2, <1>3 DEF TypeOK, Idle
  <2> QED
    BY <1>2, <1>3, <2>1, <2>2, <2>4, <2>5 DEF TypeOK, TaskValue, HistoryValue
<1>7. j.pc # "follow" /\ t.pc # "follow"
  BY <1>2, <1>4
<1> QED
  BY <1>1, <1>2, <1>4, <1>5, <1>6, <1>7, MoveStep

\* A handler's follow-up is over: sent and registered, or lost.
FollowEnds(w, p) ==
  /\ task[w].pc = "follow" /\ task[w].parent = p
  /\ task' = [task EXCEPT ![w] = Idle]
  /\ UNCHANGED <<polls, consumed, votes>>
  /\ history'.life = history.life /\ history.dropped \subseteq history'.dropped
  /\ p \in history'.dropped \/ FollowUps(p) # {}
  /\ ToSet(rows') \subseteq ToSet(rows) \cup {task[w].sent}
  /\ task[w].sent \in ToSet(rows) \/ \A u \in Users, o \in Options : <<task[w].sent, u, o>> \notin votes

LEMMA FollowEndsFacts ==
  ASSUME TypeOK, TasksRight, FollowInv, NEW w \in Workers, NEW p, FollowEnds(w, p)
  PROVE  FollowInv'
<1>1. \A v \in Workers : task'[v] = IF v = w THEN Idle ELSE task[v]
  BY DEF TypeOK, FollowEnds
<1>2. Handlers \subseteq Workers /\ Idle.pc # "follow"
  BY DEF Workers, Idle
<1>3. \A h \in Handlers : task'[h].pc = "follow" => h # w /\ task[h].pc = "follow" /\ task'[h] = task[h]
  BY <1>1, <1>2
<1>4. \A q : FollowUps(q)' = FollowUps(q)
  BY DEF FollowUps, FollowEnds
<1>5. ASSUME NEW q, Followed(q) PROVE Followed(q)'
  <2>1. CASE FollowUps(q) # {} \/ q \in history.dropped
    BY <1>4, <2>1 DEF Followed, FollowEnds
  <2>2. ASSUME NEW h \in Handlers, task[h].pc = "follow", task[h].parent = q PROVE Followed(q)'
    <3>1. CASE h = w
      BY <1>4, <2>2, <3>1 DEF Followed, FollowEnds
    <3>2. CASE h # w
      BY <1>1, <1>2, <2>2, <3>2 DEF Followed
    <3> QED
      BY <3>1, <3>2
  <2> QED
    BY <1>5, <2>1, <2>2 DEF Followed
<1>6. FollowUpOnce'
  BY <1>4 DEF FollowInv, FollowUpOnce, FollowEnds
<1>7. \A q \in consumed' : Followed(q)'
  BY <1>5 DEF FollowInv, FollowEnds
<1>8. OtherIsFollowed'
  <2>1. ASSUME NEW q \in ToSet(rows'), NEW u \in Users, <<q, u, "other">> \in votes',
               polls'[q].kind \in PlaceKinds
        PROVE  Followed(q)'
    <3>1. q \in ToSet(rows)
      BY <2>1 DEF FollowEnds, Options
    <3>2. Followed(q)
      BY <2>1, <3>1 DEF FollowInv, OtherIsFollowed, Followed, FollowEnds
    <3> QED
      BY <1>5, <3>2
  <2> QED
    BY <2>1 DEF OtherIsFollowed, Followed
<1>9. \A h \in Handlers : task'[h].pc = "follow" =>
        /\ task'[h].parent \in consumed'
        /\ task'[h].sent = 0 =>
             \A q \in FollowUps(task[h].parent)' : polls'[q].life # history'.life
        /\ \A g \in Handlers :
             task'[g].pc = "follow" /\ task'[g].parent = task'[h].parent => g = h
  BY <1>3, <1>4 DEF FollowInv, FollowEnds
<1>10. \A h \in Handlers : task'[h].pc = "follow" => task'[h].parent = task[h].parent
  BY <1>3
<1> QED
  BY <1>6, <1>7, <1>8, <1>9, <1>10 DEF FollowInv, FollowEnds, FollowUps

LEMMA RowFacts ==
  ASSUME TypeOK
  PROVE  /\ ToSet(rows) \subseteq DOMAIN polls /\ consumed \subseteq DOMAIN polls
         /\ rows \in Seq(ToSet(rows))
         /\ \A p \in DOMAIN polls : p \in Nat \ {0}
<1>1. rows \in Seq(DOMAIN polls) /\ consumed \subseteq ToSet(rows)
  BY DEF TypeOK
<1>2. ToSet(rows) \subseteq DOMAIN polls /\ rows \in Seq(ToSet(rows))
  BY <1>1 DEF ToSet
<1> QED
  BY <1>1, <1>2, PollFacts

\* Only handlers send follow-up polls, and for consumed actions.
LEMMA FollowFacts ==
  ASSUME LInv, NEW w \in Workers, task[w].pc = "follow"
  PROVE  /\ w \in Handlers /\ w # "job" /\ task[w] \in FollowUp
         /\ task[w].parent \in consumed /\ task[w].parent \in DOMAIN polls
<1>1. TypeOK /\ JobRight(task["job"])
  BY DEF LInv, TasksRight
<1>2. task[w] \in FollowUp /\ task[w] \notin Publication
  BY <1>1, TaskFacts DEF Phases
<1>3. w # "job"
  BY <1>1, <1>2 DEF JobRight
<1> QED
  BY <1>1, <1>2, <1>3, RowFacts DEF LInv, FollowInv, Workers

\* The call of a follow-up fails: the handler ends, and the action stays consumed.
LEMMA SendFailsFollow ==
  ASSUME LInv, NEW w \in Workers, SendFails(w), task[w].pc = "follow"
  PROVE  LInv'
<1>1. PICK p, x : p = task[w].parent /\ x = history.dropped \cup {p}
  OBVIOUS
<1>2. /\ task' = [task EXCEPT ![w] = Idle] /\ history' = [history EXCEPT !.dropped = x]
      /\ UNCHANGED <<day, due, up, enabled, pin, rows, votes, groups, workdays, active, away, consumed,
                     polls, pinned, cast, inbox, last>>
      /\ \E event \in {"reject", "lost"} : Can(event) /\ Spend(event)
  BY <1>1 DEF SendFails, Become, Record, database, world, telegram, updates
<1>3. TypeOK /\ w \in Handlers /\ w # "job" /\ p \in DOMAIN polls /\ history \in HistoryValue
  BY <1>1, FollowFacts DEF LInv, TypeOK, HistoryValue
<1>4. history' = [missed |-> history.missed, stray |-> history.stray, dropped |-> x,
                  failed |-> history.failed, on |-> history.on, life |-> history.life]
  BY <1>2, <1>3, OneField
<1>5. TypeOK'
  <2>1. task' \in [Workers -> TaskValue]
    BY <1>2, <1>3 DEF TypeOK, TaskValue
  <2>2. budget' \in [BudgetKinds -> Nat]
    BY <1>2, <1>3, SpendType DEF BudgetKinds
  <2>3. history' \in HistoryValue'
    BY <1>1, <1>2, <1>3, <1>4 DEF HistoryValue
  <2>4. up
    BY <1>3 DEF TypeOK, Idle
  <2> QED
    BY <1>2, <1>3, <2>1, <2>2, <2>3, <2>4 DEF TypeOK, TaskValue, HistoryValue
<1>6. \A v \in Workers : task'[v] = IF v = w THEN Idle ELSE task[v]
  BY <1>2, <1>3 DEF TypeOK
<1>7. HandlerRight(Idle) /\ SentRight(Idle) /\ ~Sent(Idle)
  BY DEF HandlerRight, SentRight, Sent, Idle
<1>8. TasksRight'
  BY <1>2, <1>3, <1>4, <1>7, TasksMove DEF LInv
<1>9. Unregistered'
  BY <1>2, <1>6, <1>7, UnregisteredKept DEF LInv
<1>10. task'["job"] = task["job"]
  BY <1>3, <1>6 DEF Workers
<1>11. FollowInv'
  <2>1. task[w].sent \in ToSet(rows) \/ \A u \in Users, o \in Options : <<task[w].sent, u, o>> \notin votes
    BY <1>3 DEF TypeOK
  <2>2. FollowEnds(w, p)
    BY <1>1, <1>2, <1>4, <2>1 DEF FollowEnds
  <2> QED
    BY <1>3, <2>2, FollowEndsFacts DEF LInv
<1> QED
  BY <1>2, <1>4, <1>5, <1>8, <1>9, <1>10, <1>11, PinsKept, OnceKept, VotesKept DEF LInv

LEMMA SendFailsStep ==
  ASSUME LInv, NEW w \in Workers, SendFails(w)
  PROVE  LInv'
BY SendFailsPublishing, SendFailsFollow

-----------------------------------------------------------------------------
(* A poll is registered.                                                   *)

LEMMA AppendSet ==
  ASSUME NEW S, NEW s \in Seq(S), NEW e \in S
  PROVE  /\ Append(s, e) \in Seq(S) /\ ToSet(Append(s, e)) = ToSet(s) \cup {e}
         /\ IsInjective(s) /\ e \notin ToSet(s) => IsInjective(Append(s, e))
<1>1. /\ Append(s, e) \in Seq(S) /\ Len(s) \in Nat
      /\ DOMAIN s = 1 .. Len(s) /\ DOMAIN Append(s, e) = 1 .. Len(s) + 1
      /\ Append(s, e)[Len(s) + 1] = e /\ \A i \in 1 .. Len(s) : Append(s, e)[i] = s[i]
  OBVIOUS
<1>2. \A i \in DOMAIN Append(s, e) : i \in DOMAIN s \/ i = Len(s) + 1
  BY <1>1
<1>3. Len(s) + 1 \in DOMAIN Append(s, e) /\ DOMAIN s \subseteq DOMAIN Append(s, e)
  BY <1>1
<1>4. ToSet(Append(s, e)) = ToSet(s) \cup {e}
  <2>1. \A x \in ToSet(Append(s, e)) : x \in ToSet(s) \cup {e}
    BY <1>1, <1>2 DEF ToSet
  <2>2. \A x \in ToSet(s) \cup {e} : x \in ToSet(Append(s, e))
    BY <1>1, <1>3 DEF ToSet
  <2> QED
    BY <2>1, <2>2
<1>5. ASSUME IsInjective(s), e \notin ToSet(s) PROVE IsInjective(Append(s, e))
  <2>1. \A i \in DOMAIN s : s[i] # e
    BY <1>5 DEF ToSet
  <2> QED
    BY <1>1, <1>2, <1>5, <2>1 DEF IsInjective
<1> QED
  BY <1>1, <1>4, <1>5

\* What the answer to a poll changes, whatever its coroutine becomes.
LEMMA RegisteredFacts ==
  ASSUME LInv, NEW w \in Workers, Sent(task[w]), NEW j, ~Sent(j),
         task' = [task EXCEPT ![w] = j], rows' = Append(rows, task[w].sent)
  PROVE  /\ rows' \in Seq(DOMAIN polls) /\ IsInjective(rows')
         /\ ToSet(rows') = ToSet(rows) \cup {task[w].sent}
         /\ \A u \in Users, o \in Options : <<task[w].sent, u, o>> \notin votes
         /\ Unregistered'
<1>1. /\ task[w].sent \in DOMAIN polls /\ task[w].sent \notin ToSet(rows)
      /\ rows \in Seq(DOMAIN polls) /\ IsInjective(rows) /\ votes \subseteq ToSet(rows) \X Users \X Options
  BY DEF LInv, TypeOK, TasksRight, SentRight, Unregistered
<1>2. /\ rows' \in Seq(DOMAIN polls) /\ IsInjective(rows')
      /\ ToSet(rows') = ToSet(rows) \cup {task[w].sent}
  BY <1>1, AppendSet
<1>3. \A v \in Workers : task'[v] = IF v = w THEN j ELSE task[v]
  BY DEF LInv, TypeOK
<1>4. \A v \in Workers : Sent(task'[v]) => v # w /\ task'[v] = task[v]
  BY <1>3
<1>5. Unregistered'
  BY <1>2, <1>4 DEF LInv, Unregistered
<1> QED
  BY <1>1, <1>2, <1>5

\* Polls of a publication.
LEMMA PollReturnsPublishing ==
  ASSUME LInv, NEW w \in Workers, PollReturns(w), task[w].pc # "follow"
  PROVE  LInv'
<1>1. PICK t : t = task[w]
  OBVIOUS
<1>2. /\ t.pc \in {"attend", "place"} /\ t.sent # 0 /\ Sent(t)
      /\ rows' = Append(rows, t.sent)
      /\ UNCHANGED <<day, due, up, enabled, pin, votes, groups, workdays, active, away, consumed,
                     polls, pinned, cast, inbox, last, budget>>
  BY <1>1 DEF PollReturns, world, telegram, updates, Sent
<1>3. /\ TypeOK /\ t \in Publication /\ t.chat \in Chats /\ t.todo \in SUBSET Chats /\ t.day \in Days
      /\ day \in Days /\ history \in HistoryValue
  <2>1. t \in Publication
    BY <1>1, <1>2, TaskFacts DEF LInv, Phases
  <2> QED
    BY <2>1 DEF LInv, TypeOK, HistoryValue, Publication
<1>4. /\ w = "job" => JobRight(t)
      /\ w \in Handlers => HandlerRight(t)
      /\ SentRight(t)
  BY <1>1 DEF LInv, TasksRight
<1>5. PICK j :
        /\ task' = [task EXCEPT ![w] = j]
        /\ \/ t.pc = "attend" /\ t.auto /\ j = [t EXCEPT !.pc = "pin"] /\ history' = history
           \/ t.pc = "attend" /\ ~t.auto /\ j = [t EXCEPT !.pc = "place", !.sent = 0] /\ history' = history
           \/ /\ t.pc = "place" /\ j = NextChat(t)
              /\ history' = [history EXCEPT !.failed = @ \cup NextSkips(t)]
  BY <1>1, <1>2 DEF PollReturns, Become, Record
<1>6. /\ history'.missed = history.missed /\ history'.stray = history.stray
      /\ history'.on = history.on /\ history'.life = history.life
      /\ history'.dropped = history.dropped /\ history' \in HistoryValue'
  <2>1. CASE history' = history
    BY <1>2, <1>3, <2>1 DEF HistoryValue
  <2>2. CASE history' = [history EXCEPT !.failed = history.failed \cup NextSkips(t)]
    <3>1. PICK x : x = history.failed \cup NextSkips(t)
      OBVIOUS
    <3>2. x \in SUBSET (Chats \X Days)
      BY <1>3, <3>1, SkipsType DEF HistoryValue, NextSkips
    <3>3. history' = [missed |-> history.missed, stray |-> history.stray, dropped |-> history.dropped,
                  failed |-> x, on |-> history.on, life |-> history.life]
      BY <1>3, <2>2, <3>1, OneField
    <3> QED
      BY <1>2, <1>3, <3>2, <3>3 DEF HistoryValue
  <2> QED
    BY <1>5, <2>1, <2>2
<1>7. /\ j \in TaskValue /\ j.pc # "follow" /\ ~Sent(j) /\ SentRight(j)
      /\ w = "job" => JobRight(j) /\ NoMoreToDo(j, t)
      /\ w \in Handlers => HandlerRight(j)
  <2>1. CASE t.pc = "attend" /\ t.auto /\ j = [t EXCEPT !.pc = "pin"]
    <3>1. Like(j, t) /\ j.pc = "pin" /\ j.sent = t.sent
      BY <1>3, <2>1, PhaseStep DEF Phases
    <3>2. SentRight(j) /\ ~Sent(j)
      BY <1>2, <1>4, <3>1 DEF SentRight, Sent, Like
    <3>3. w = "job" => JobRight(j) /\ NoMoreToDo(j, t)
      BY <1>2, <1>4, <2>1, <3>1 DEF JobRight, NoMoreToDo, Unserved, Publishing, Ahead, Like
    <3> QED
      BY <1>2, <1>4, <2>1, <3>1, <3>2, <3>3 DEF HandlerRight, Like, TaskValue
  <2>2. CASE t.pc = "attend" /\ ~t.auto /\ j = [t EXCEPT !.pc = "place", !.sent = 0]
    <3>1. Like(j, t) /\ j.pc = "place" /\ j.sent = 0
      BY <1>3, <2>2, PlaceStep, Zenon
    <3>2. SentRight(j) /\ ~Sent(j)
      BY <3>1 DEF SentRight, Sent
    <3>3. w # "job"
      BY <1>4, <2>2 DEF JobRight
    <3> QED
      BY <1>2, <1>4, <2>2, <3>1, <3>2, <3>3 DEF HandlerRight, Like, TaskValue
  <2>3. CASE t.pc = "place" /\ j = NextChat(t)
    BY <1>1, <1>3, <2>3, NextChatFacts
  <2> QED
    BY <1>5, <2>1, <2>2, <2>3
<1>8. /\ rows' \in Seq(DOMAIN polls) /\ IsInjective(rows') /\ ToSet(rows') = ToSet(rows) \cup {t.sent}
      /\ \A u \in Users, o \in Options : <<t.sent, u, o>> \notin votes
      /\ Unregistered'
  BY <1>1, <1>2, <1>5, <1>7, RegisteredFacts
<1>9. TypeOK'
  <2>1. task' \in [Workers -> TaskValue]
    BY <1>3, <1>5, <1>7 DEF TypeOK, TaskValue
  <2>2. votes \subseteq ToSet(rows') \X Users \X Options /\ consumed \subseteq ToSet(rows')
    BY <1>3, <1>8 DEF TypeOK
  <2>3. up
    BY <1>1, <1>2, <1>3 DEF TypeOK, Idle
  <2> QED
    BY <1>2, <1>3, <1>6, <1>8, <2>1, <2>2, <2>3 DEF TypeOK, TaskValue, HistoryValue
<1>10. \A v \in Workers : task'[v] = IF v = w THEN j ELSE task[v]
  BY <1>3, <1>5 DEF TypeOK
<1>11. TasksRight'
  BY <1>2, <1>3, <1>5, <1>6, <1>7, TasksMove DEF LInv
<1>12. NoMoreToDo(task'["job"], task["job"]) \/ task'["job"] = task["job"]
  BY <1>1, <1>7, <1>10 DEF Workers
<1>13. PinInv'
  BY <1>2, <1>6, <1>12, PinsMove DEF LInv
<1>14. OnceInv'
  <2>1. Unserved(task'["job"]) \subseteq Unserved(task["job"])
    BY <1>12 DEF NoMoreToDo
  <2> QED
    BY <1>2, <1>6, <2>1, OnceKept DEF LInv
<1>15. SameFollows
  BY <1>1, <1>2, <1>7, <1>10 DEF SameFollows, Workers
<1>16. FollowInv'
  BY <1>2, <1>6, <1>8, <1>15, FollowsKeptRows DEF LInv
<1> QED
  BY <1>2, <1>6, <1>8, <1>9, <1>11, <1>13, <1>14, <1>16, VotesKept DEF LInv

\* A follow-up poll.
LEMMA PollReturnsFollow ==
  ASSUME LInv, NEW w \in Workers, PollReturns(w), task[w].pc = "follow"
  PROVE  LInv'
<1>1. PICK t : t = task[w]
  OBVIOUS
<1>2. /\ t.pc = "follow" /\ t.sent # 0 /\ Sent(t)
      /\ task' = [task EXCEPT ![w] = Idle] /\ rows' = Append(rows, t.sent)
      /\ UNCHANGED <<day, due, up, enabled, pin, votes, groups, workdays, active, away, consumed,
                     polls, pinned, cast, inbox, last, history, budget>>
  BY <1>1 DEF PollReturns, Become, world, telegram, updates, Sent
<1>3. /\ TypeOK /\ w \in Handlers /\ w # "job"
      /\ t.sent \in DOMAIN polls /\ polls[t.sent].parent = t.parent
  BY <1>1, <1>2, FollowFacts DEF LInv, TasksRight, SentRight
<1>4. HandlerRight(Idle) /\ SentRight(Idle) /\ ~Sent(Idle)
  BY DEF HandlerRight, SentRight, Sent, Idle
<1>5. /\ rows' \in Seq(DOMAIN polls) /\ IsInjective(rows') /\ ToSet(rows') = ToSet(rows) \cup {t.sent}
      /\ \A u \in Users, o \in Options : <<t.sent, u, o>> \notin votes
      /\ Unregistered'
  BY <1>1, <1>2, <1>4, RegisteredFacts
<1>6. TypeOK'
  <2>1. task' \in [Workers -> TaskValue]
    BY <1>2, <1>3 DEF TypeOK, TaskValue
  <2>2. votes \subseteq ToSet(rows') \X Users \X Options /\ consumed \subseteq ToSet(rows')
    BY <1>3, <1>5 DEF TypeOK
  <2>3. up
    BY <1>1, <1>2, <1>3 DEF TypeOK, Idle
  <2> QED
    BY <1>2, <1>3, <1>5, <2>1, <2>2, <2>3 DEF TypeOK, TaskValue
<1>7. TasksRight'
  BY <1>2, <1>3, <1>4, TasksMove DEF LInv
<1>8. task'["job"] = task["job"]
  BY <1>2, <1>3 DEF TypeOK, Workers
<1>9. FollowInv'
  <2>1. FollowEnds(w, t.parent)
    BY <1>1, <1>2, <1>3, <1>5 DEF FollowEnds, FollowUps
  <2> QED
    BY <1>3, <2>1, FollowEndsFacts DEF LInv
<1> QED
  BY <1>2, <1>5, <1>6, <1>7, <1>8, <1>9, PinsKept, OnceKept, VotesKept DEF LInv

LEMMA PollReturnsStep ==
  ASSUME LInv, NEW w \in Workers, PollReturns(w)
  PROVE  LInv'
BY PollReturnsPublishing, PollReturnsFollow

-----------------------------------------------------------------------------
(* A pin call returns.                                                     *)

LEMMA NewPinnedStep ==
  ASSUME LInv, NewPinned
  PROVE  LInv'
<1>1. PICK t, j, c : t = task["job"] /\ j = [t EXCEPT !.pc = "place", !.sent = 0] /\ c = t.chat
  OBVIOUS
<1>2. /\ t.pc = "pin" /\ task' = [task EXCEPT !["job"] = j]
      /\ UNCHANGED <<day, due, up, enabled, rows, votes, groups, workdays, active, away, consumed,
                     polls, cast, inbox, last>>
      /\ \/ /\ pinned' = pinned \cup {t.sent} /\ pin' = [pin EXCEPT ![c] = t.sent]
            /\ UNCHANGED <<history, budget>>
         \/ Can("reject") /\ Spend("reject") /\ UNCHANGED <<pinned, pin, history>>
         \/ /\ Can("lost") /\ Spend("lost")
            /\ pinned' = pinned \cup {t.sent}
            /\ history' = [history EXCEPT !.stray = @ \cup {t.sent}]
            /\ UNCHANGED pin
  BY <1>1 DEF NewPinned, Become, Record, world, updates
<1>3. "job" \in Workers /\ "job" \notin Handlers
  BY LunchAssumption DEF Workers
<1>4. /\ TypeOK /\ JobRight(t) /\ SentRight(t) /\ t \in Publication /\ t.chats \in SUBSET Chats
      /\ c \in t.chats /\ c \in Chats /\ t.day = day /\ t.todo \subseteq t.chats \ {c}
      /\ t.sent \in DOMAIN polls /\ polls[t.sent].chat = c /\ polls[t.sent].day = day
      /\ history \in HistoryValue
  <2>1. TypeOK /\ JobRight(t) /\ SentRight(t) /\ history \in HistoryValue
    BY <1>1, <1>3 DEF LInv, TypeOK, TasksRight, HistoryValue
  <2>2. t \in Publication /\ c \in t.chats /\ t.todo \subseteq t.chats \ {c} /\ t.day = day
    BY <1>1, <1>2, <2>1 DEF JobRight
  <2> QED
    BY <1>1, <1>2, <2>1, <2>2 DEF SentRight, Publication
<1>5. Like(j, t) /\ j.pc = "place" /\ j.sent = 0
  BY <1>1, <1>4, PlaceStep, Zenon
<1>6. PICK stray :
        /\ history' = [history EXCEPT !.stray = stray] /\ stray \in SUBSET DOMAIN polls
        /\ \/ stray = history.stray
           \/ stray = history.stray \cup {t.sent} /\ pin' = pin
        /\ pinned' \in {pinned, pinned \cup {t.sent}}
        /\ \/ pin' = [pin EXCEPT ![c] = t.sent]
           \/ pin' = pin /\ (pinned' = pinned \/ t.sent \in stray)
  <2> DEFINE Change(s) ==
         /\ history' = [history EXCEPT !.stray = s] /\ s \in SUBSET DOMAIN polls
         /\ \/ s = history.stray
            \/ s = history.stray \cup {t.sent} /\ pin' = pin
         /\ pinned' \in {pinned, pinned \cup {t.sent}}
         /\ \/ pin' = [pin EXCEPT ![c] = t.sent]
            \/ pin' = pin /\ (pinned' = pinned \/ t.sent \in s)
  <2>1. history = [history EXCEPT !.stray = history.stray] /\ history.stray \in SUBSET DOMAIN polls
    BY <1>4 DEF HistoryValue
  <2>2. CASE /\ pinned' = pinned \cup {t.sent} /\ pin' = [pin EXCEPT ![c] = t.sent]
             /\ history' = history
    <3>1. Change(history.stray)
      BY <2>1, <2>2
    <3> QED
      BY <3>1
  <2>3. CASE UNCHANGED <<pinned, pin, history>>
    <3>1. Change(history.stray)
      BY <2>1, <2>3
    <3> QED
      BY <3>1
  <2>4. CASE /\ pinned' = pinned \cup {t.sent} /\ pin' = pin
             /\ history' = [history EXCEPT !.stray = @ \cup {t.sent}]
    <3>1. Change(history.stray \cup {t.sent})
      BY <1>4, <2>1, <2>4
    <3> QED
      BY <3>1
  <2> QED
    BY <1>2, <2>2, <2>3, <2>4
<1>7. history' = [missed |-> history.missed, stray |-> stray, dropped |-> history.dropped,
                  failed |-> history.failed, on |-> history.on, life |-> history.life]
  BY <1>4, <1>6, OneField
<1>8. /\ pin' \in [Chats -> 0 .. Len(polls)]
      /\ \A d \in Chats : pin'[d] = pin[d] \/ (d = c /\ pin'[d] = t.sent)
  <2>1. pin \in [Chats -> 0 .. Len(polls)] /\ polls \in Seq(PollRecord)
    BY <1>4 DEF TypeOK
  <2>2. t.sent \in 0 .. Len(polls)
    BY <1>4, <2>1
  <2>3. CASE pin' = [pin EXCEPT ![c] = t.sent]
    BY <1>4, <2>1, <2>2, <2>3
  <2>4. CASE pin' = pin
    BY <2>1, <2>4
  <2> QED
    BY <1>6, <2>3, <2>4
<1>9. TypeOK'
  <2>1. task' \in [Workers -> TaskValue]
    BY <1>2, <1>4, <1>5 DEF TypeOK, TaskValue, Like
  <2>2. budget' \in [BudgetKinds -> Nat]
    BY <1>2, <1>4, SpendType DEF TypeOK, BudgetKinds
  <2>3. history' \in HistoryValue'
    BY <1>2, <1>4, <1>6, <1>7 DEF HistoryValue
  <2>4. up
    BY <1>1, <1>2, <1>3, <1>4 DEF TypeOK, Idle
  <2>5. pinned' \subseteq DOMAIN polls
    BY <1>4, <1>6 DEF TypeOK
  <2> QED
    BY <1>2, <1>4, <1>8, <2>1, <2>2, <2>3, <2>4, <2>5 DEF TypeOK, TaskValue, HistoryValue
<1>10. JobRight(j) /\ SentRight(j) /\ ~Sent(j) /\ Unserved(j) \subseteq Unserved(t)
  BY <1>2, <1>4, <1>5 DEF JobRight, SentRight, Sent, Unserved, Like
<1>11. \A v \in Workers : task'[v] = IF v = "job" THEN j ELSE task[v]
  BY <1>2, <1>4 DEF TypeOK
<1>12. TasksRight'
  BY <1>2, <1>3, <1>4, <1>7, <1>10, TasksMove DEF LInv
<1>13. Unregistered'
  BY <1>2, <1>10, <1>11, UnregisteredKept DEF LInv
<1>14. pin[c] = 0
  BY <1>1, <1>2, <1>4 DEF LInv, PinInv, Publishing, Ahead
<1>15. PinInv'
  <2>1. \A d \in Chats : pin'[d] # 0 => polls'[pin'[d]].chat = d
    BY <1>2, <1>4, <1>8 DEF LInv, PinInv
  <2>2. ASSUME NEW p \in pinned' \ history'.stray PROVE pin'[polls'[p].chat] = p
    <3>1. CASE p \in pinned /\ p \notin history.stray
      <4>1. /\ p \in DOMAIN polls /\ p # 0 /\ polls[p].chat \in Chats
            /\ pin[polls[p].chat] = p
        BY <1>4, <3>1, PollFacts DEF LInv, TypeOK, PinInv
      <4>2. polls[p].chat # c
        BY <1>14, <4>1
      <4> QED
        BY <1>2, <1>8, <4>1, <4>2
    <3>2. CASE p = t.sent
      <4>1. p \notin stray
        BY <1>7, <2>2
      <4>2. pin' = [pin EXCEPT ![c] = p] \/ p \in pinned
        BY <1>6, <3>2, <4>1, <2>2
      <4>3. CASE pin' = [pin EXCEPT ![c] = p]
        BY <1>2, <1>4, <3>2, <4>3 DEF TypeOK
      <4>4. CASE p \in pinned
        BY <1>6, <3>1, <4>1, <4>4
      <4> QED
        BY <4>2, <4>3, <4>4
    <3> QED
      BY <1>6, <1>7, <2>2, <3>1, <3>2
  <2>3. \A d \in j.chats : pin'[d] # 0 => d \notin Ahead(j) /\ polls'[pin'[d]].day = day
    <3>1. Ahead(j) = t.todo /\ j.chats = t.chats
      BY <1>5 DEF Ahead, Like
    <3>2. \A d \in t.chats : pin[d] # 0 => d \notin t.todo /\ polls[pin[d]].day = day
      BY <1>1, <1>2 DEF LInv, PinInv, Publishing, Ahead
    <3> QED
      BY <1>2, <1>4, <1>8, <3>1, <3>2
  <2> QED
    BY <1>2, <1>3, <1>5, <1>11, <2>1, <2>2, <2>3 DEF PinInv
<1>16. OnceInv'
  BY <1>1, <1>2, <1>3, <1>7, <1>10, <1>11, OnceKept DEF LInv
<1>17. SameFollows
  BY <1>3, <1>11 DEF SameFollows, Workers
<1> QED
  BY <1>2, <1>7, <1>9, <1>12, <1>13, <1>15, <1>16, <1>17, FollowsKept, VotesKept DEF LInv
-----------------------------------------------------------------------------
(* Telegram shows a poll.                                                  *)

LEMMA SentStep ==
  ASSUME NEW t \in Publication \cup FollowUp, NEW s \in Nat
  PROVE  /\ [t EXCEPT !.sent = s].pc = t.pc /\ [t EXCEPT !.sent = s].sent = s
         /\ [t EXCEPT !.sent = s].chat = t.chat /\ [t EXCEPT !.sent = s].day = t.day
         /\ [t EXCEPT !.sent = s].auto = t.auto
         /\ t \in Publication => Like([t EXCEPT !.sent = s], t)
         /\ t \in FollowUp =>
              [t EXCEPT !.sent = s] \in FollowUp /\ [t EXCEPT !.sent = s].parent = t.parent
<1>1. CASE t \in Publication
  <2>1. PICK j : j = [t EXCEPT !.sent = s]
    OBVIOUS
  <2>2. /\ j = [pc |-> t.pc, chat |-> t.chat, auto |-> t.auto, place |-> t.place, day |-> t.day,
                sent |-> s, chats |-> t.chats, todo |-> t.todo]
        /\ j \in Publication
    BY <1>1, <2>1 DEF Publication
  <2>3. t \notin FollowUp
    BY <1>1 DEF Publication, FollowUp
  <2> QED
    BY <2>1, <2>2, <2>3 DEF Like
<1>2. CASE t \in FollowUp
  <2>1. PICK j : j = [t EXCEPT !.sent = s]
    OBVIOUS
  <2>2. /\ j = [pc |-> t.pc, chat |-> t.chat, auto |-> t.auto, day |-> t.day,
                sent |-> s, parent |-> t.parent]
        /\ j \in FollowUp
    BY <1>2, <2>1 DEF FollowUp
  <2>3. t \notin Publication
    BY <1>2 DEF Publication, FollowUp
  <2> QED
    BY <2>1, <2>2, <2>3
<1> QED
  BY <1>1, <1>2

\* The polls before stay what they are, and the new one is none of them.
LEMMA NewPoll ==
  ASSUME TypeOK, NEW rec \in PollRecord, polls' = Append(polls, rec), NEW q, q = Len(polls) + 1
  PROVE  /\ q \in Nat \ {0} /\ q \notin DOMAIN polls /\ DOMAIN polls' = DOMAIN polls \cup {q}
         /\ polls' \in Seq(PollRecord) /\ Len(polls') = q /\ polls'[q] = rec
         /\ \A p \in DOMAIN polls : p # q /\ polls'[p] = polls[p]
         /\ \A c \in Chats : pin[c] \in 0 .. q /\ (pin[c] # 0 => pin[c] \in DOMAIN polls)
<1>1. polls \in Seq(PollRecord) /\ pin \in [Chats -> 0 .. Len(polls)]
  BY DEF TypeOK
<1>2. /\ Len(polls) \in Nat /\ DOMAIN polls = 1 .. Len(polls)
      /\ polls' \in Seq(PollRecord) /\ Len(polls') = q /\ DOMAIN polls' = 1 .. q
      /\ polls'[q] = rec /\ \A p \in 1 .. Len(polls) : polls'[p] = polls[p]
  BY <1>1
<1>3. DOMAIN polls' = DOMAIN polls \cup {q} /\ q \in Nat \ {0} /\ q \notin DOMAIN polls
  BY <1>2
<1>4. \A c \in Chats : pin[c] \in 0 .. q /\ (pin[c] # 0 => pin[c] \in DOMAIN polls)
  BY <1>1, <1>2
<1> QED
  BY <1>2, <1>3, <1>4

\* A worker w has sent a poll q of which Telegram knows what rec says.
Appears(w, t, j, q, rec) ==
  /\ TypeOK /\ t = task[w] /\ t.pc \in {"attend", "place", "follow"} /\ t.sent = 0
  /\ task' = [task EXCEPT ![w] = j] /\ polls' = Append(polls, rec) /\ q = Len(polls) + 1
  /\ j = [t EXCEPT !.sent = q]
  /\ UNCHANGED <<day, due, up, enabled, pin, rows, votes, groups, workdays, active, away, consumed,
                 pinned, cast, inbox, last, history, budget>>
  /\ t \in Publication \cup FollowUp
  /\ rec \in PollRecord /\ rec.chat = t.chat /\ rec.day = t.day /\ rec.auto = t.auto
  /\ rec.life = history.life
  /\ rec.kind = Attendance => t.pc = "attend"
  /\ rec.parent = IF t.pc = "follow" THEN t.parent ELSE 0

LEMMA AppearsFacts ==
  ASSUME LInv, NEW w \in Workers, PollAppears(w)
  PROVE  \E t, j, q, rec : Appears(w, t, j, q, rec)
<1>1. PICK t, rec :
        /\ t = task[w]
        /\ rec = [chat |-> t.chat, day |-> t.day, auto |-> t.auto, life |-> history.life,
                  kind |-> CASE t.pc = "attend" -> Attendance [] t.pc = "place" -> t.place
                             [] OTHER -> OtherFood,
                  parent |-> IF t.pc = "follow" THEN t.parent ELSE 0]
  OBVIOUS
<1>2. PICK q, j : q = Len(polls) + 1 /\ j = [t EXCEPT !.sent = q]
  OBVIOUS
<1>3. /\ t.pc \in {"attend", "place", "follow"} /\ t.sent = 0
      /\ polls' = Append(polls, rec) /\ task' = [task EXCEPT ![w] = j]
      /\ UNCHANGED <<day, due, up, enabled, pin, rows, votes, groups, workdays, active, away, consumed,
                     pinned, cast, inbox, last, history, budget>>
  BY <1>1, <1>2 DEF PollAppears, Become, database, world, updates
<1>4. TypeOK /\ history.life \in Nat
  BY DEF LInv, TypeOK
<1>5. /\ t.pc = "follow" => t \in FollowUp
      /\ t.pc # "follow" => t \in Publication
  BY <1>1, <1>3, <1>4, TaskFacts DEF Phases
<1>6. t.chat \in Chats /\ t.day \in Days /\ t.auto \in BOOLEAN
  <2>1. CASE t \in FollowUp
    BY <2>1 DEF FollowUp
  <2>2. CASE t \in Publication
    BY <2>2 DEF Publication
  <2> QED
    BY <1>5, <2>1, <2>2
<1>7. /\ rec.kind \in Kinds /\ rec.parent \in Nat
      /\ rec.kind = Attendance => t.pc = "attend"
  <2>1. CASE t.pc = "follow"
    <3>1. rec.kind = OtherFood /\ rec.parent = t.parent
      BY <1>1, <2>1
    <3> QED
      BY <1>5, <2>1, <3>1 DEF FollowUp, Kinds, OtherFood, Attendance
  <2>2. CASE t.pc = "attend"
    <3>1. rec.kind = Attendance /\ rec.parent = 0
      BY <1>1, <2>2
    <3> QED
      BY <2>2, <3>1 DEF Kinds
  <2>3. CASE t.pc = "place"
    <3>1. rec.kind = t.place /\ rec.parent = 0
      BY <1>1, <2>3
    <3>2. t.place \in PlaceKinds
      BY <1>5, <2>3 DEF Publication
    <3> QED
      BY <3>1, <3>2 DEF Kinds, PlaceKinds, Attendance
  <2> QED
    BY <1>3, <2>1, <2>2, <2>3
<1>8. rec \in PollRecord
  BY <1>1, <1>4, <1>6, <1>7 DEF PollRecord
<1>9. rec.parent = IF t.pc = "follow" THEN t.parent ELSE 0
  BY <1>1
<1>10. Appears(w, t, j, q, rec)
  BY <1>1, <1>2, <1>3, <1>4, <1>5, <1>7, <1>8, <1>9 DEF Appears
<1> QED
  BY <1>10
LEMMA AppearsTypes ==
  ASSUME LInv, NEW w \in Workers, NEW t, NEW j, NEW q, NEW rec, Appears(w, t, j, q, rec)
  PROVE  TypeOK'
<1>1. /\ q \in Nat \ {0} /\ DOMAIN polls' = DOMAIN polls \cup {q}
      /\ polls' \in Seq(PollRecord) /\ Len(polls') = q
      /\ \A c \in Chats : pin[c] \in 0 .. q
  BY NewPoll DEF Appears
<1>2. j \in TaskValue
  BY <1>1, SentStep DEF Appears, TaskValue, Like
<1>3. task' \in [Workers -> TaskValue] /\ up
  BY <1>2 DEF Appears, TypeOK, TaskValue, Idle
<1>4. pin' \in [Chats -> 0 .. Len(polls')]
  BY <1>1 DEF Appears, TypeOK
<1>5. rows' \in Seq(DOMAIN polls')
  BY <1>1 DEF Appears, TypeOK
<1>6. cast' \subseteq (DOMAIN polls') \X Users \X Options /\ pinned' \subseteq DOMAIN polls'
  BY <1>1 DEF Appears, TypeOK
<1>7. history' \in HistoryValue'
  <2>1. history \in HistoryValue
    BY DEF LInv, TypeOK, HistoryValue
  <2>2. /\ (DOMAIN polls) \X Users \subseteq (DOMAIN polls') \X Users
        /\ DOMAIN polls \subseteq DOMAIN polls'
    BY <1>1
  <2>3. history = [missed |-> history.missed, stray |-> history.stray, dropped |-> history.dropped,
                   failed |-> history.failed, on |-> history.on, life |-> history.life]
    BY <2>1 DEF HistoryValue
  <2>4. /\ history.missed \in SUBSET ((DOMAIN polls') \X Users)
        /\ history.stray \in SUBSET DOMAIN polls' /\ history.dropped \in SUBSET DOMAIN polls'
        /\ history.failed \in SUBSET (Chats \X Days) /\ history.on \in SUBSET (Chats \X Days)
        /\ history.life \in Nat
    BY <2>1, <2>2 DEF HistoryValue
  <2>5. PICK h : h = history /\ h = history'
    BY DEF Appears
  <2> QED
    BY <2>3, <2>4, <2>5 DEF HistoryValue
<1> QED
  BY <1>1, <1>3, <1>4, <1>5, <1>6, <1>7 DEF Appears, TypeOK, TaskValue, HistoryValue

LEMMA AppearsTasks ==
  ASSUME LInv, NEW w \in Workers, NEW t, NEW j, NEW q, NEW rec, Appears(w, t, j, q, rec)
  PROVE  TasksRight' /\ Unregistered'
<1>1. /\ q \in Nat \ {0} /\ q \notin DOMAIN polls /\ DOMAIN polls' = DOMAIN polls \cup {q}
      /\ polls'[q] = rec /\ \A p \in DOMAIN polls : polls'[p] = polls[p]
  BY NewPoll DEF Appears
<1>2. \A v \in Workers : task'[v] = IF v = w THEN j ELSE task[v]
  BY DEF Appears, TypeOK
<1>3. /\ j.pc = t.pc /\ j.sent = q /\ j.chat = t.chat /\ j.day = t.day /\ j.auto = t.auto
      /\ t \in Publication => Like(j, t)
      /\ t \in FollowUp => j \in FollowUp /\ j.parent = t.parent
  BY <1>1, SentStep DEF Appears
<1>4. "job" \in Workers /\ Handlers \subseteq Workers /\ "job" \notin Handlers
  BY LunchAssumption DEF Workers
<1>5. JobRight(task["job"]) /\ \A h \in Handlers : HandlerRight(task[h])
  BY DEF LInv, TasksRight
<1>6. w = "job" => JobRight(j)
  BY <1>3, <1>5 DEF Appears, JobRight, Like
<1>7. w \in Handlers => HandlerRight(j)
  BY <1>3, <1>5 DEF Appears, HandlerRight, Like
<1>8. \A v \in Workers \ {w} : SentRight(task[v]) /\ SentRight(task[v])'
  BY <1>1, <1>2 DEF LInv, TasksRight, SentRight, Sent
<1>9. SentRight(j)'
  <2>1. j.pc = "follow" => t \in FollowUp
    BY <1>3, TaskFacts DEF Appears
  <2> QED
    BY <1>1, <1>3, <2>1 DEF Appears, SentRight, Sent
<1>10. TasksRight'
  <2>1. JobRight(task["job"])'
    BY <1>2, <1>4, <1>5, <1>6 DEF Appears, JobRight
  <2>2. \A h \in Handlers : HandlerRight(task[h])'
    BY <1>2, <1>4, <1>5, <1>7
  <2>3. \A v \in Workers : SentRight(task[v])'
    BY <1>2, <1>8, <1>9
  <2> QED
    BY <2>1, <2>2, <2>3 DEF TasksRight
<1>11. Unregistered'
  <2>1. \A v \in Workers \ {w} : task'[v] = task[v] /\ (Sent(task[v]) => task[v].sent \in DOMAIN polls)
    BY <1>2, <1>8 DEF SentRight
  <2>2. q \notin ToSet(rows) /\ rows' = rows
    BY <1>1, RowFacts DEF Appears
  <2>3. task'[w] = j /\ j.sent = q
    BY <1>2, <1>3
  <2>4. \A v \in Workers : Sent(task'[v]) => task'[v].sent \notin ToSet(rows')
    BY <2>1, <2>2, <2>3 DEF LInv, Unregistered
  <2>5. \A u, v \in Workers :
          Sent(task'[u]) /\ Sent(task'[v]) /\ task'[u].sent = task'[v].sent => u = v
    BY <1>1, <2>1, <2>3 DEF LInv, Unregistered
  <2> QED
    BY <2>4, <2>5 DEF Unregistered
<1> QED
  BY <1>10, <1>11

LEMMA AppearsPins ==
  ASSUME LInv, NEW w \in Workers, NEW t, NEW j, NEW q, NEW rec, Appears(w, t, j, q, rec)
  PROVE  PinInv' /\ OnceInv'
<1>1. /\ q \in Nat \ {0} /\ q \notin DOMAIN polls /\ DOMAIN polls' = DOMAIN polls \cup {q}
      /\ polls'[q] = rec /\ \A p \in DOMAIN polls : p # q /\ polls'[p] = polls[p]
      /\ \A c \in Chats : pin[c] # 0 => pin[c] \in DOMAIN polls
  BY NewPoll DEF Appears
<1>2. \A v \in Workers : task'[v] = IF v = w THEN j ELSE task[v]
  BY DEF Appears, TypeOK
<1>3. /\ j.pc = t.pc /\ j.sent = q /\ j.chat = t.chat /\ j.day = t.day /\ j.auto = t.auto
      /\ t \in Publication => Like(j, t)
  BY <1>1, SentStep DEF Appears
<1>4. "job" \in Workers /\ Handlers \subseteq Workers /\ "job" \notin Handlers
  BY LunchAssumption DEF Workers
<1>5. JobRight(task["job"]) /\ \A h \in Handlers : HandlerRight(task[h])
  BY DEF LInv, TasksRight
<1>6. /\ w = "job" => /\ t \in Publication /\ t.auto /\ t.day = day /\ ~due /\ t.chats \subseteq Chats
                      /\ t.chat \in t.chats /\ t.todo \subseteq t.chats \ {t.chat}
                      /\ <<t.chat, day>> \in history.on
      /\ w # "job" => ~t.auto
  <2>1. t.pc \notin {"idle"}
    BY DEF Appears
  <2>2. CASE w = "job"
    <3>1. /\ t \in Publication /\ t.auto /\ t.day = day /\ ~due
          /\ t.chat \in t.chats /\ t.todo \subseteq t.chats \ {t.chat}
          /\ <<t.chat, day>> \in history.on
      BY <1>5, <2>1, <2>2 DEF Appears, JobRight
    <3> QED
      BY <2>2, <3>1 DEF Publication
  <2>3. CASE w # "job"
    BY <1>5, <2>1, <2>3 DEF Appears, HandlerRight, Workers
  <2> QED
    BY <2>2, <2>3
<1>7. PICK k, k1 : k = task["job"] /\ k1 = task'["job"]
  OBVIOUS
<1>8. \/ k1 = k /\ w # "job"
      \/ w = "job" /\ k = t /\ k1 = j /\ Like(k1, k) /\ k1.pc = k.pc
  BY <1>2, <1>3, <1>4, <1>6, <1>7 DEF Appears
<1>9. PinInv'
  <2>1. \A c \in Chats : pin'[c] # 0 => polls'[pin'[c]].chat = c
    BY <1>1 DEF Appears, LInv, PinInv
  <2>2. \A p \in pinned' \ history'.stray : pin'[polls'[p].chat] = p
    <3>1. pinned \subseteq DOMAIN polls
      BY DEF Appears, TypeOK
    <3> QED
      BY <1>1, <3>1 DEF Appears, LInv, PinInv
  <2>3. /\ k1.pc = k.pc
        /\ k.pc # "idle" => k1.chats = k.chats /\ Ahead(k1) = Ahead(k) /\ k.chats \subseteq Chats
    <3>1. k.pc # "idle" => k.chats \subseteq Chats
      BY <1>5, <1>7 DEF JobRight, Publication
    <3> QED
      BY <1>8, <3>1 DEF Like, Ahead
  <2>4. k1.pc = "clear" => \A c \in k1.chats : pin'[c] # 0 => c \in Ahead(k1)
    BY <1>7, <2>3 DEF Appears, LInv, PinInv
  <2>5. Publishing(k1) => \A c \in k1.chats :
          pin'[c] # 0 => c \notin Ahead(k1) /\ polls'[pin'[c]].day = day'
    <3>1. Publishing(k1) => Publishing(k) /\ k.pc # "idle"
      BY <2>3 DEF Publishing
    <3>2. Publishing(k) => \A c \in k.chats :
            pin[c] # 0 => c \notin Ahead(k) /\ polls[pin[c]].day = day
      BY <1>7 DEF LInv, PinInv
    <3> QED
      BY <1>1, <2>3, <3>1, <3>2 DEF Appears
  <2> QED
    BY <1>7, <2>1, <2>2, <2>4, <2>5 DEF PinInv
<1>10. OnceInv'
  <2>1. Unserved(k1) \subseteq Unserved(k)
    <3>1. CASE k1 = k
      BY <3>1
    <3>2. CASE w = "job" /\ k = t /\ k1 = j /\ Like(k1, k) /\ k1.pc = k.pc
      BY <1>1, <1>3, <3>2 DEF Unserved, Like, Appears
    <3> QED
      BY <1>8, <3>1, <3>2
  <2>2. \A p \in DOMAIN polls : IsAuto(p) =>
          /\ polls[p].day <= day
          /\ polls[p].day = day => ~due /\ polls[p].chat \notin Unserved(k)
    BY <1>7 DEF LInv, OnceInv
  <2>3. \A p \in DOMAIN polls : IsAuto(p)' = IsAuto(p)
    BY <1>1 DEF IsAuto
  <2>4. day \in Nat
    BY DEF Appears, TypeOK, Days
  <2>5. ASSUME IsAuto(q)'
        PROVE  /\ w = "job" /\ k = t /\ k1 = j /\ polls'[q].day = day /\ polls'[q].chat = t.chat
               /\ ~due /\ <<t.chat, day>> \in history.on
               /\ t.chat \in Unserved(k) /\ t.chat \notin Unserved(k1)
    <3>1. rec.auto /\ rec.kind = Attendance
      BY <1>1, <2>5 DEF IsAuto
    <3>2. w = "job" /\ t.pc = "attend"
      BY <1>6, <3>1 DEF Appears
    <3>3. /\ k = t /\ k1 = j /\ Like(j, t) /\ j.pc = "attend" /\ j.sent = q
      BY <1>3, <1>8, <3>2
    <3>4. /\ Unserved(k) = t.todo \cup {t.chat} /\ Unserved(k1) = t.todo
      BY <1>1, <3>2, <3>3 DEF Unserved, Like, Appears
    <3> QED
      BY <1>1, <1>6, <3>2, <3>3, <3>4 DEF Appears
  <2>6. \A p \in DOMAIN polls' : IsAuto(p)' =>
          /\ polls'[p].day <= day'
          /\ polls'[p].day = day' => ~due' /\ polls'[p].chat \notin Unserved(k1)
    BY <1>1, <2>1, <2>2, <2>3, <2>4, <2>5 DEF Appears
  <2>7. ASSUME NEW p \in DOMAIN polls', IsAuto(p)', NEW r \in DOMAIN polls', IsAuto(r)',
               polls'[r].chat = polls'[p].chat, polls'[r].day = polls'[p].day
        PROVE  r = p
    <3>1. CASE p \in DOMAIN polls /\ r \in DOMAIN polls
      BY <1>1, <2>3, <2>7, <3>1 DEF LInv, OnceInv, AutoOncePerDay, IsAuto
    <3>2. CASE p = q /\ r \in DOMAIN polls
      BY <1>1, <2>2, <2>3, <2>5, <2>7, <3>2
    <3>3. CASE r = q /\ p \in DOMAIN polls
      BY <1>1, <2>2, <2>3, <2>5, <2>7, <3>3
    <3> QED
      BY <1>1, <3>1, <3>2, <3>3
  <2>8. ASSUME NEW p \in DOMAIN polls', IsAuto(p)'
        PROVE  <<polls'[p].chat, polls'[p].day>> \in history'.on
    <3>1. CASE p \in DOMAIN polls
      BY <1>1, <2>3, <2>8, <3>1 DEF LInv, OnceInv, AutoOncePerDay, IsAuto, Appears
    <3>2. CASE p = q
      BY <2>5, <2>8, <3>2 DEF Appears
    <3> QED
      BY <1>1, <3>1, <3>2
  <2>9. AutoOncePerDay'
    BY <2>7, <2>8 DEF AutoOncePerDay, IsAuto
  <2> QED
    BY <1>7, <2>6, <2>9 DEF OnceInv
<1> QED
  BY <1>9, <1>10
LEMMA AppearsFollows ==
  ASSUME LInv, NEW w \in Workers, NEW t, NEW j, NEW q, NEW rec, Appears(w, t, j, q, rec)
  PROVE  FollowInv'
<1>1. /\ q \in Nat \ {0} /\ q \notin DOMAIN polls /\ DOMAIN polls' = DOMAIN polls \cup {q}
      /\ polls'[q] = rec /\ \A p \in DOMAIN polls : p # q /\ polls'[p] = polls[p]
  BY NewPoll DEF Appears
<1>2. \A v \in Workers : task'[v] = IF v = w THEN j ELSE task[v]
  BY DEF Appears, TypeOK
<1>3. /\ j.pc = t.pc /\ j.sent = q
      /\ t.pc = "follow" => j.parent = t.parent
  BY <1>1, SentStep, TaskFacts DEF Appears
<1>4. Handlers \subseteq Workers /\ "job" \notin Handlers
  BY LunchAssumption DEF Workers
<1>5. consumed \subseteq DOMAIN polls /\ ToSet(rows) \subseteq DOMAIN polls /\ history.life \in Nat
  BY RowFacts DEF Appears, TypeOK
<1>6. t.pc = "follow" => w \in Handlers /\ t.parent \in consumed
  BY FollowFacts DEF Appears
<1>7. /\ \A p \in DOMAIN polls' : FollowUps(p)' = FollowUps(p) \cup (IF rec.parent = p THEN {q} ELSE {})
      /\ FollowUps(q)' = {}
  <2>1. \A r \in DOMAIN polls : polls[r].parent # q
    BY <1>1 DEF LInv, FollowInv
  <2>2. rec.parent # q
    BY <1>1, <1>5, <1>6 DEF Appears
  <2> QED
    BY <1>1, <2>1, <2>2 DEF FollowUps
<1>8. \A h \in Handlers : /\ task'[h].pc = task[h].pc
                          /\ task[h].pc = "follow" => task'[h].parent = task[h].parent
                          /\ task'[h].sent = 0 => h # w /\ task[h].sent = 0
  <2> SUFFICES ASSUME NEW h \in Handlers
               PROVE  /\ task'[h].pc = task[h].pc
                      /\ task[h].pc = "follow" => task'[h].parent = task[h].parent
                      /\ task'[h].sent = 0 => h # w /\ task[h].sent = 0
    OBVIOUS
  <2>1. CASE h = w
    <3>1. task'[h] = j /\ task[h] = t
      BY <1>2, <2>1 DEF Appears
    <3> QED
      BY <1>1, <1>3, <3>1
  <2>2. CASE h # w
    BY <1>2, <1>4, <2>2
  <2> QED
    BY <2>1, <2>2
<1>9. \A p \in DOMAIN polls' :
        /\ polls'[p].life <= history'.life /\ polls'[p].parent \in DOMAIN polls' \cup {0}
        /\ polls'[p].life = history'.life /\ polls'[p].parent # 0 => polls'[p].parent \in consumed'
  <2>1. \A p \in DOMAIN polls :
        /\ polls'[p].life <= history'.life /\ polls'[p].parent \in DOMAIN polls' \cup {0}
        /\ polls'[p].life = history'.life /\ polls'[p].parent # 0 => polls'[p].parent \in consumed'
    BY <1>1 DEF Appears, LInv, FollowInv
  <2>2. /\ rec.life <= history.life /\ rec.parent \in DOMAIN polls \cup {0}
        /\ rec.parent # 0 => rec.parent \in consumed
    BY <1>5, <1>6 DEF Appears
  <2> QED
    BY <1>1, <2>1, <2>2 DEF Appears
<1>10. \A h \in Handlers : task[h].pc = "follow" =>
         /\ task[h].parent \in consumed
         /\ task[h].sent = 0 => \A r \in FollowUps(task[h].parent) : polls[r].life # history.life
         /\ \A g \in Handlers : task[g].pc = "follow" /\ task[g].parent = task[h].parent => g = h
  BY DEF LInv, FollowInv
<1>11. ASSUME NEW h \in Handlers, task[h].pc = "follow", h # w, task[h].sent = 0,
              NEW p, p = task[h].parent, NEW r \in FollowUps(p)'
       PROVE  polls'[r].life # history'.life
  <2>1. p \in DOMAIN polls /\ p # 0
    BY <1>5, <1>10, <1>11, RowFacts DEF Appears
  <2>2. rec.parent # p
    BY <1>6, <1>10, <1>11, <2>1 DEF Appears
  <2>3. r \in FollowUps(p)
    BY <1>1, <1>7, <1>11, <2>1, <2>2
  <2>4. r \in DOMAIN polls /\ polls[r].life # history.life
    BY <1>10, <1>11, <2>3 DEF FollowUps
  <2> QED
    BY <1>1, <2>4 DEF Appears
<1>12. FollowUpOnce'
  <2> SUFFICES ASSUME NEW p \in DOMAIN polls', NEW q1 \in FollowUps(p)', NEW q2 \in FollowUps(p)',
                      polls'[q1].life = polls'[q2].life
               PROVE  q1 = q2
    BY DEF FollowUpOnce
  <2>1. p \in DOMAIN polls /\ p # 0
    BY <1>1, <1>7, RowFacts DEF Appears
  <2>2. CASE rec.parent = p
    <3>1. t.pc = "follow" /\ t.parent = p
      BY <2>1, <2>2 DEF Appears
    <3>2. \A r \in FollowUps(p) : r \in DOMAIN polls /\ polls[r].life # history.life
      BY <1>6, <1>10, <3>1 DEF Appears, FollowUps
    <3>3. \A r \in FollowUps(p) : polls'[r].life # rec.life
      BY <1>1, <3>2 DEF Appears
    <3>4. CASE q1 \in FollowUps(p) /\ q2 \in FollowUps(p)
      BY <1>1, <2>1, <3>2, <3>4 DEF LInv, FollowInv, FollowUpOnce
    <3> QED
      BY <1>1, <1>7, <2>2, <3>3, <3>4
  <2>3. CASE rec.parent # p
    <3>1. q1 \in FollowUps(p) /\ q2 \in FollowUps(p)
      BY <1>7, <2>3
    <3>2. polls'[q1] = polls[q1] /\ polls'[q2] = polls[q2]
      BY <1>1, <3>1 DEF FollowUps
    <3> QED
      BY <2>1, <3>1, <3>2 DEF LInv, FollowInv, FollowUpOnce
  <2> QED
    BY <2>2, <2>3
<1>13. ASSUME NEW p \in DOMAIN polls, Followed(p) PROVE Followed(p)'
  <2>1. FollowUps(p) \subseteq FollowUps(p)'
    BY <1>1, <1>7
  <2>2. \A h \in Handlers : task[h].pc = "follow" /\ task[h].parent = p =>
          task'[h].pc = "follow" /\ task'[h].parent = p
    BY <1>8
  <2> QED
    BY <1>13, <2>1, <2>2 DEF Followed, Appears
<1>14. \A p \in consumed' : Followed(p)'
  BY <1>5, <1>13 DEF Appears, LInv, FollowInv
<1>15. OtherIsFollowed'
  <2>1. ASSUME NEW p \in ToSet(rows'), polls'[p].kind \in PlaceKinds, NEW u \in Users,
               <<p, u, "other">> \in votes'
        PROVE  Followed(p)'
    <3>1. p \in ToSet(rows) /\ p \in DOMAIN polls /\ polls'[p] = polls[p]
      BY <1>1, <1>5 DEF Appears
    <3>2. Followed(p)
      BY <2>1, <3>1 DEF Appears, LInv, FollowInv, OtherIsFollowed, Followed
    <3> QED
      BY <1>13, <3>1, <3>2
  <2> QED
    BY <2>1 DEF OtherIsFollowed, Followed
<1>16. PICK f : f = task'
  OBVIOUS
<1>17. \A h \in Handlers : f[h].pc = "follow" =>
         /\ f[h].parent \in consumed'
         /\ f[h].sent = 0 => \A r \in FollowUps(f[h].parent)' : polls'[r].life # history'.life
         /\ \A g \in Handlers : f[g].pc = "follow" /\ f[g].parent = f[h].parent => g = h
  <2>1. \A h \in Handlers : /\ f[h].pc = task[h].pc
                            /\ f[h].pc = "follow" => f[h].parent = task[h].parent
                            /\ f[h].sent = 0 => h # w /\ task[h].sent = 0
    BY <1>8, <1>16
  <2>2. consumed' = consumed
    BY DEF Appears
  <2> SUFFICES ASSUME NEW h \in Handlers, f[h].pc = "follow"
               PROVE  /\ f[h].parent \in consumed'
                      /\ f[h].sent = 0 =>
                           \A r \in FollowUps(f[h].parent)' : polls'[r].life # history'.life
                      /\ \A g \in Handlers : f[g].pc = "follow" /\ f[g].parent = f[h].parent => g = h
    OBVIOUS
  <2>3. f[h].parent \in consumed'
    BY <1>10, <2>1, <2>2
  <2>4. \A g \in Handlers : f[g].pc = "follow" /\ f[g].parent = f[h].parent => g = h
    BY <1>10, <2>1
  <2>5. ASSUME f[h].sent = 0, NEW r \in FollowUps(f[h].parent)'
        PROVE  polls'[r].life # history'.life
    <3>1. PICK p : p = f[h].parent
      OBVIOUS
    <3>2. h # w /\ task[h].sent = 0 /\ task[h].pc = "follow" /\ p = task[h].parent
      BY <2>1, <2>5, <3>1
    <3>3. r \in FollowUps(p)'
      BY <2>5, <3>1
    <3> QED
      BY <1>11, <3>2, <3>3
  <2> QED
    BY <2>3, <2>4, <2>5
<1> QED
  BY <1>9, <1>12, <1>14, <1>15, <1>16, <1>17 DEF FollowInv

LEMMA AppearsVotes ==
  ASSUME LInv, NEW w \in Workers, NEW t, NEW j, NEW q, NEW rec, Appears(w, t, j, q, rec)
  PROVE  VoteInv'
<1>1. /\ q \notin DOMAIN polls /\ DOMAIN polls' = DOMAIN polls \cup {q}
      /\ \A p \in DOMAIN polls : polls'[p] = polls[p]
  BY NewPoll DEF Appears
<1>2. votes \subseteq (DOMAIN polls) \X Users \X Options /\ cast \subseteq (DOMAIN polls) \X Users \X Options
  <2>1. votes \subseteq ToSet(rows) \X Users \X Options /\ ToSet(rows) \subseteq DOMAIN polls
    BY RowFacts DEF Appears, TypeOK
  <2> QED
    BY <2>1 DEF Appears, TypeOK
<1>3. \A p, u : Stored(p, u)' = Stored(p, u) /\ Chosen(p, u)' = Chosen(p, u)
                /\ Pending(p, u)' = Pending(p, u)
  BY DEF Stored, Chosen, Pending, Appears
<1>4. \A u : Stored(q, u) = {} /\ Chosen(q, u) = {}
  BY <1>1, <1>2 DEF Stored, Chosen
<1>5. ASSUME NEW p \in DOMAIN polls', NEW u \in Users
      PROVE  \/ Stored(p, u) = KnownOptions(polls'[p].kind, Chosen(p, u))
             \/ Pending(p, u) \/ <<p, u>> \in history'.missed
  <2>1. CASE p = q
    BY <1>4, <2>1 DEF KnownOptions
  <2>2. CASE p \in DOMAIN polls
    BY <1>1, <2>2 DEF LInv, VoteInv, AnswersFresh, Appears
  <2> QED
    BY <1>1, <2>1, <2>2
<1>6. \A a : Fresh(a)' = Fresh(a)
  BY DEF Fresh, Chosen, Appears
<1>7. /\ \A i \in DOMAIN inbox' :
           (\A k \in DOMAIN inbox' : k > i =>
              ~(inbox'[k].poll = inbox'[i].poll /\ inbox'[k].user = inbox'[i].user)) =>
            Fresh(inbox[i])'
      /\ Len(last') <= 1
      /\ \A i \in DOMAIN last' : Pending(last[i].poll, last[i].user)' \/ Fresh(last[i])'
      /\ \A i \in DOMAIN inbox' : inbox'[i].poll \in DOMAIN polls'
      /\ \A i \in DOMAIN last' : last'[i].poll \in DOMAIN polls'
  BY <1>1 DEF LInv, VoteInv, AnswersFresh, Appears, Fresh, Chosen, Pending
<1>8. \A p \in DOMAIN polls', u \in Users :
        \/ Stored(p, u)' = KnownOptions(polls'[p].kind, Chosen(p, u)')
        \/ Pending(p, u)' \/ <<p, u>> \in history'.missed
  BY <1>3, <1>5
<1> QED
  BY <1>7, <1>8 DEF VoteInv, AnswersFresh, Appears, KnownOptions

LEMMA PollAppearsStep ==
  ASSUME LInv, NEW w \in Workers, PollAppears(w)
  PROVE  LInv'
<1>1. PICK t, j, q, rec : Appears(w, t, j, q, rec)
  BY AppearsFacts
<1> QED
  BY <1>1, AppearsTypes, AppearsTasks, AppearsPins, AppearsFollows, AppearsVotes DEF LInv
-----------------------------------------------------------------------------
(* Votes.                                                                  *)

LEMMA TailFacts ==
  ASSUME NEW S, NEW s \in Seq(S), s # <<>>
  PROVE  /\ Head(s) \in S /\ Head(s) = s[1] /\ 1 \in DOMAIN s /\ DOMAIN s \subseteq Nat \ {0}
         /\ Tail(s) \in Seq(S) /\ DOMAIN Tail(s) \subseteq Nat \ {0}
         /\ \A i \in DOMAIN Tail(s) : i + 1 \in DOMAIN s /\ Tail(s)[i] = s[i + 1]
         /\ \A i \in DOMAIN s : i = 1 \/ (i - 1 \in DOMAIN Tail(s) /\ Tail(s)[i - 1] = s[i])
<1>1. /\ Len(s) \in Nat /\ Len(s) > 0 /\ DOMAIN s = 1 .. Len(s)
      /\ Head(s) = s[1] /\ s[1] \in S
      /\ Tail(s) \in Seq(S) /\ DOMAIN Tail(s) = 1 .. Len(s) - 1
      /\ \A i \in 1 .. Len(s) - 1 : Tail(s)[i] = s[i + 1]
  OBVIOUS
<1>2. \A i \in DOMAIN Tail(s) : i \in Nat \ {0} /\ i + 1 \in DOMAIN s /\ Tail(s)[i] = s[i + 1]
  BY <1>1
<1>3. \A i \in DOMAIN s : i = 1 \/ (i - 1 \in DOMAIN Tail(s) /\ Tail(s)[i - 1] = s[i])
  BY <1>1
<1> QED
  BY <1>1, <1>2, <1>3

\* What one user has chosen in one poll changes.
LEMMA VoteStep ==
  ASSUME LInv, NEW u \in Users, NEW p \in DOMAIN polls, NEW chosen \in Ballots[polls[p].kind],
         Vote(u, p, chosen)
  PROVE  LInv'
<1>1. PICK a, kept :
        /\ a = [poll |-> p, user |-> u, chosen |-> chosen]
        /\ kept = {v \in cast : v[1] # p \/ v[2] # u}
  OBVIOUS
<1>2. /\ cast' = kept \cup {<<p, u, o>> : o \in chosen} /\ inbox' = Append(inbox, a)
      /\ Can("vote") /\ Spend("vote")
      /\ UNCHANGED <<day, due, up, enabled, pin, rows, votes, groups, workdays, active, away,
                     consumed, task, polls, pinned, last, history>>
  BY <1>1 DEF Vote, database, world
<1>3. TypeOK /\ chosen \subseteq Options /\ p \in Nat
  <2>1. polls[p].kind \in Kinds
    BY PollFacts DEF LInv, PollRecord
  <2> QED
    BY <2>1, PollFacts, LunchAssumption DEF LInv
<1>4. cast \subseteq (DOMAIN polls) \X Users \X Options /\ inbox \in Seq(AnAnswer) /\ a \in AnAnswer
  BY <1>1, <1>3 DEF TypeOK, AnAnswer
<1>5. TypeOK'
  <2>1. cast' \subseteq (DOMAIN polls) \X Users \X Options /\ inbox' \in Seq(AnAnswer)
    BY <1>1, <1>2, <1>3, <1>4
  <2>2. budget' \in [BudgetKinds -> Nat]
    BY <1>2, <1>3, SpendType DEF BudgetKinds
  <2> QED
    BY <1>2, <1>3, <2>1, <2>2 DEF TypeOK
<1>6. /\ Chosen(p, u)' = chosen
      /\ \A r \in DOMAIN polls, s \in Users : r # p \/ s # u => Chosen(r, s)' = Chosen(r, s)
  BY <1>1, <1>2, <1>3, <1>4 DEF Chosen
<1>7. PICK n : n = Len(inbox) + 1
  OBVIOUS
<1>8. /\ n \in Nat /\ n \notin DOMAIN inbox /\ DOMAIN inbox' = DOMAIN inbox \cup {n} /\ inbox'[n] = a
      /\ \A i \in DOMAIN inbox : inbox'[i] = inbox[i] /\ i < n
  <2>1. /\ Len(inbox) \in Nat /\ DOMAIN inbox = 1 .. Len(inbox) /\ DOMAIN inbox' = 1 .. n
        /\ inbox'[n] = a /\ \A i \in 1 .. Len(inbox) : inbox'[i] = inbox[i]
    BY <1>2, <1>4, <1>7
  <2> QED
    BY <1>7, <2>1
<1>9. \A i \in DOMAIN inbox : inbox[i].poll \in DOMAIN polls /\ inbox[i].user \in Users
  <2>1. \A i \in DOMAIN inbox : inbox[i] \in AnAnswer
    BY <1>4
  <2> QED
    BY <2>1 DEF LInv, VoteInv, AnswersFresh, AnAnswer
<1>10. \A r, s : Pending(r, s) \/ (r = p /\ s = u) => Pending(r, s)'
  <2>1. a.poll = p /\ a.user = u
    BY <1>1
  <2> QED
    BY <1>8, <2>1 DEF Pending
<1>11. ASSUME NEW i \in DOMAIN inbox',
              \A k \in DOMAIN inbox' : k > i =>
                ~(inbox'[k].poll = inbox'[i].poll /\ inbox'[k].user = inbox'[i].user)
       PROVE  inbox'[i].chosen = Chosen(inbox[i].poll, inbox[i].user)'
  <2>1. CASE i = n
    BY <1>1, <1>6, <1>8, <2>1
  <2>2. CASE i \in DOMAIN inbox
    <3>1. inbox[i].poll # p \/ inbox[i].user # u
      BY <1>1, <1>8, <1>11, <2>2
    <3>2. inbox[i].chosen = Chosen(inbox[i].poll, inbox[i].user)
      BY <1>8, <1>11, <2>2 DEF LInv, VoteInv, AnswersFresh, Fresh
    <3>3. PICK b : b = inbox[i] /\ b = inbox'[i]
      BY <1>8, <2>2
    <3>4. b.chosen = Chosen(b.poll, b.user) /\ Chosen(b.poll, b.user)' = Chosen(b.poll, b.user)
      BY <1>6, <1>9, <2>2, <3>1, <3>2, <3>3
    <3>5. Chosen(inbox[i].poll, inbox[i].user)' = Chosen(b.poll, b.user)'
      BY <3>3
    <3> QED
      BY <3>3, <3>4, <3>5
  <2> QED
    BY <1>8, <1>11, <2>1, <2>2
<1>12. ASSUME NEW i \in DOMAIN last'
       PROVE  Pending(last[i].poll, last[i].user)' \/ Fresh(last[i])'
  <2>1. PICK b : b = last[i] /\ b = last'[i]
    BY <1>2
  <2>2. /\ b.poll \in DOMAIN polls /\ b.user \in Users
        /\ Pending(b.poll, b.user) \/ b.chosen = Chosen(b.poll, b.user)
    <3>1. b \in AnAnswer
      BY <1>2, <1>3, <1>12, <2>1 DEF TypeOK
    <3> QED
      BY <1>2, <1>12, <2>1, <3>1 DEF LInv, VoteInv, AnswersFresh, Fresh, AnAnswer
  <2>3. Pending(b.poll, b.user)' \/ b.chosen = Chosen(b.poll, b.user)'
    BY <1>6, <1>10, <2>2
  <2> QED
    BY <2>1, <2>3 DEF Fresh
<1>13. \A r \in DOMAIN polls, s \in Users :
         \/ Stored(r, s)' = KnownOptions(polls[r].kind, Chosen(r, s))'
         \/ Pending(r, s)' \/ <<r, s>> \in history'.missed
  <2> SUFFICES ASSUME NEW r \in DOMAIN polls, NEW s \in Users
               PROVE  \/ Stored(r, s)' = KnownOptions(polls[r].kind, Chosen(r, s))'
                      \/ Pending(r, s)' \/ <<r, s>> \in history'.missed
    OBVIOUS
  <2>1. CASE r = p /\ s = u
    BY <1>10, <2>1
  <2>2. CASE r # p \/ s # u
    <3>1. \/ Stored(r, s) = KnownOptions(polls[r].kind, Chosen(r, s))
          \/ Pending(r, s) \/ <<r, s>> \in history.missed
      BY DEF LInv, VoteInv, AnswersFresh
    <3>2. Stored(r, s)' = Stored(r, s) /\ KnownOptions(polls[r].kind, Chosen(r, s))' = KnownOptions(polls[r].kind, Chosen(r, s))
      BY <1>2, <1>6, <2>2 DEF Stored, KnownOptions
    <3> QED
      BY <1>2, <1>10, <3>1, <3>2
  <2> QED
    BY <2>1, <2>2
<1>14. VoteInv'
  <2>1. \A i \in DOMAIN inbox' : inbox'[i].poll \in DOMAIN polls'
    BY <1>1, <1>2, <1>8, <1>9
  <2>2. Len(last') <= 1 /\ \A i \in DOMAIN last' : last'[i].poll \in DOMAIN polls'
    BY <1>2 DEF LInv, VoteInv, AnswersFresh
  <2>3. \A i \in DOMAIN inbox' :
          (\A k \in DOMAIN inbox' : k > i =>
             ~(inbox'[k].poll = inbox'[i].poll /\ inbox'[k].user = inbox'[i].user)) => Fresh(inbox[i])'
    BY <1>11 DEF Fresh
  <2>4. DOMAIN polls' = DOMAIN polls
    BY <1>2
  <2> QED
    BY <1>12, <1>13, <2>1, <2>2, <2>3, <2>4 DEF VoteInv, AnswersFresh
<1>15. SameFollows /\ TasksRight'
  BY <1>2 DEF SameFollows, LInv, TasksRight, JobRight, HandlerRight, SentRight, Sent
<1>16. Unregistered' /\ PinInv' /\ OnceInv' /\ FollowInv'
  BY <1>2, <1>15, UnregisteredKept, PinsKept, OnceKept, FollowsKept DEF LInv
<1> QED
  BY <1>5, <1>14, <1>15, <1>16 DEF LInv
\* The answer at the head of the queue is handled: either another of the same user waits, or it
\* says what Telegram shows.
LEMMA AnswerTaken ==
  ASSUME LInv, inbox # <<>>, NEW a, a = Head(inbox), Handled(a), UNCHANGED <<polls, cast>>
  PROVE  /\ a \in AnAnswer /\ a.poll \in DOMAIN polls /\ a.user \in Users /\ a.chosen \subseteq Options
         /\ inbox' \in Seq(AnAnswer) /\ last' \in Seq(AnAnswer)
         /\ AnswersFresh'
         /\ \A r, s : Pending(r, s) /\ ~(r = a.poll /\ s = a.user) => Pending(r, s)'
         /\ Pending(a.poll, a.user)' \/ a.chosen = Chosen(a.poll, a.user)
<1>1. inbox \in Seq(AnAnswer) /\ inbox' = Tail(inbox) /\ last' = <<a>>
  BY DEF LInv, TypeOK, Handled
<1>2. /\ a \in AnAnswer /\ a = inbox[1] /\ 1 \in DOMAIN inbox /\ DOMAIN inbox \subseteq Nat \ {0}
      /\ inbox' \in Seq(AnAnswer) /\ DOMAIN inbox' \subseteq Nat \ {0}
      /\ \A i \in DOMAIN inbox' : i + 1 \in DOMAIN inbox /\ inbox'[i] = inbox[i + 1]
      /\ \A i \in DOMAIN inbox : i = 1 \/ (i - 1 \in DOMAIN inbox' /\ inbox'[i - 1] = inbox[i])
  BY <1>1, TailFacts
<1>3. /\ a.poll \in DOMAIN polls /\ a.user \in Users /\ a.chosen \subseteq Options
      /\ last' \in Seq(AnAnswer)
  BY <1>1, <1>2 DEF LInv, VoteInv, AnswersFresh, AnAnswer
<1>4. \A r, s : Pending(r, s) /\ ~(r = a.poll /\ s = a.user) => Pending(r, s)'
  BY <1>2 DEF Pending
<1>5. Pending(a.poll, a.user)' \/ a.chosen = Chosen(a.poll, a.user)
  <2> SUFFICES ASSUME ~Pending(a.poll, a.user)' PROVE a.chosen = Chosen(a.poll, a.user)
    OBVIOUS
  <2>1. \A k \in DOMAIN inbox' : ~(inbox'[k].poll = a.poll /\ inbox'[k].user = a.user)
    BY DEF Pending
  <2>2. \A k \in DOMAIN inbox : k > 1 => ~(inbox[k].poll = inbox[1].poll /\ inbox[k].user = inbox[1].user)
    <3> SUFFICES ASSUME NEW k \in DOMAIN inbox, k > 1
                 PROVE  ~(inbox[k].poll = inbox[1].poll /\ inbox[k].user = inbox[1].user)
      OBVIOUS
    <3>1. k # 1
      BY <1>2
    <3>2. k - 1 \in DOMAIN inbox' /\ inbox'[k - 1] = inbox[k]
      BY <1>2, <3>1
    <3> QED
      BY <1>2, <2>1, <3>2
  <2> QED
    BY <1>2, <2>2 DEF LInv, VoteInv, AnswersFresh, Fresh
<1>6. ASSUME NEW i \in DOMAIN inbox',
             \A k \in DOMAIN inbox' : k > i =>
               ~(inbox'[k].poll = inbox'[i].poll /\ inbox'[k].user = inbox'[i].user)
      PROVE  Fresh(inbox[i])'
  <2>1. PICK b : b = inbox'[i] /\ b = inbox[i + 1]
    BY <1>2, <1>6
  <2>2. \A k \in DOMAIN inbox : k > i + 1 => ~(inbox[k].poll = b.poll /\ inbox[k].user = b.user)
    <3> SUFFICES ASSUME NEW k \in DOMAIN inbox, k > i + 1
                 PROVE  ~(inbox[k].poll = b.poll /\ inbox[k].user = b.user)
      OBVIOUS
    <3>1. i \in Nat /\ k \in Nat /\ k # 1
      BY <1>2, <1>6
    <3>2. k - 1 \in DOMAIN inbox' /\ inbox'[k - 1] = inbox[k] /\ k - 1 > i
      BY <1>2, <3>1
    <3> QED
      BY <1>6, <2>1, <3>2
  <2>3. b.chosen = Chosen(b.poll, b.user)
    BY <1>2, <1>6, <2>1, <2>2 DEF LInv, VoteInv, AnswersFresh, Fresh
  <2> QED
    BY <2>1, <2>3 DEF Fresh, Chosen
<1>7. /\ \A i \in DOMAIN inbox' : inbox'[i].poll \in DOMAIN polls'
      /\ Len(last') <= 1 /\ DOMAIN last' = {1} /\ last'[1] = a
  BY <1>1, <1>2 DEF LInv, VoteInv, AnswersFresh
<1>8. Pending(last[1].poll, last[1].user)' \/ Fresh(last[1])'
  <2>1. PICK b : b = a /\ b = last'[1]
    BY <1>7
  <2>2. Pending(b.poll, b.user)' \/ b.chosen = Chosen(b.poll, b.user)
    BY <1>5, <2>1
  <2>3. Pending(b.poll, b.user)' \/ b.chosen = Chosen(b.poll, b.user)'
    BY <2>2 DEF Chosen
  <2> QED
    BY <2>1, <2>3 DEF Fresh
<1>9. AnswersFresh'
  <2>1. \A i \in DOMAIN last' : last'[i].poll \in DOMAIN polls'
    BY <1>3, <1>7
  <2>2. \A i \in DOMAIN last' : Pending(last[i].poll, last[i].user)' \/ Fresh(last[i])'
    BY <1>7, <1>8
  <2>3. \A i \in DOMAIN inbox' :
          (\A k \in DOMAIN inbox' : k > i =>
             ~(inbox'[k].poll = inbox'[i].poll /\ inbox'[k].user = inbox'[i].user)) => Fresh(inbox[i])'
    BY <1>6
  <2> QED
    BY <1>7, <2>1, <2>2, <2>3 DEF AnswersFresh
<1> QED
  BY <1>2, <1>3, <1>4, <1>5, <1>9

\* An answer to a poll that is not registered.
LEMMA IgnoreAnswerStep ==
  ASSUME LInv, IgnoreAnswer
  PROVE  LInv'
<1>1. PICK a, x : a = Head(inbox) /\ x = history.missed \cup {<<a.poll, a.user>>}
  OBVIOUS
<1>2. /\ inbox # <<>> /\ Handled(a) /\ history' = [history EXCEPT !.missed = x]
      /\ UNCHANGED <<day, due, up, enabled, pin, rows, votes, groups, workdays, active, away,
                     consumed, task, polls, pinned, cast, budget>>
  BY <1>1 DEF IgnoreAnswer, Record, database, world, telegram
<1>3. /\ a \in AnAnswer /\ a.poll \in DOMAIN polls /\ a.user \in Users
      /\ inbox' \in Seq(AnAnswer) /\ last' \in Seq(AnAnswer) /\ AnswersFresh'
      /\ \A r, s : Pending(r, s) /\ ~(r = a.poll /\ s = a.user) => Pending(r, s)'
  BY <1>1, <1>2, AnswerTaken
<1>4. TypeOK /\ history \in HistoryValue
  BY DEF LInv, TypeOK, HistoryValue
<1>5. history' = [missed |-> x, stray |-> history.stray, dropped |-> history.dropped,
                  failed |-> history.failed, on |-> history.on, life |-> history.life]
  BY <1>2, <1>4, OneField
<1>6. TypeOK'
  <2>1. history' \in HistoryValue'
    BY <1>1, <1>2, <1>3, <1>4, <1>5 DEF HistoryValue
  <2> QED
    BY <1>2, <1>3, <1>4, <2>1 DEF TypeOK, HistoryValue
<1>7. \A r \in DOMAIN polls, s \in Users :
        \/ Stored(r, s)' = KnownOptions(polls[r].kind, Chosen(r, s))'
        \/ Pending(r, s)' \/ <<r, s>> \in history'.missed
  <2> SUFFICES ASSUME NEW r \in DOMAIN polls, NEW s \in Users
               PROVE  \/ Stored(r, s)' = KnownOptions(polls[r].kind, Chosen(r, s))'
                      \/ Pending(r, s)' \/ <<r, s>> \in history'.missed
    OBVIOUS
  <2>1. \/ Stored(r, s) = KnownOptions(polls[r].kind, Chosen(r, s))
        \/ Pending(r, s) \/ <<r, s>> \in history.missed
    BY DEF LInv, VoteInv
  <2>2. Stored(r, s)' = Stored(r, s) /\ KnownOptions(polls[r].kind, Chosen(r, s))' = KnownOptions(polls[r].kind, Chosen(r, s))
    BY <1>2 DEF Stored, KnownOptions, Chosen
  <2>3. history.missed \subseteq history'.missed /\ <<a.poll, a.user>> \in history'.missed
    BY <1>1, <1>5
  <2> QED
    BY <1>3, <2>1, <2>2, <2>3
<1>8. VoteInv'
  <2>1. DOMAIN polls' = DOMAIN polls
    BY <1>2
  <2> QED
    BY <1>3, <1>7, <2>1 DEF VoteInv
<1>9. SameFollows /\ TasksRight'
  BY <1>2, <1>5 DEF SameFollows, LInv, TasksRight, JobRight, HandlerRight, SentRight, Sent
<1>10. Unregistered' /\ PinInv' /\ OnceInv' /\ FollowInv'
  BY <1>2, <1>5, <1>9, UnregisteredKept, PinsKept, OnceKept, FollowsKept DEF LInv
<1> QED
  BY <1>6, <1>8, <1>9, <1>10 DEF LInv
\* A registered poll's answer, as what it changes in rows and tasks.
Answers(a, x) ==
  /\ TypeOK /\ up /\ inbox # <<>> /\ a = Head(inbox) /\ Handled(a) /\ a.poll \in ToSet(rows)
  /\ StoreAnswer(a) /\ x = history.missed \ {<<a.poll, a.user>>}
  /\ history' = [history EXCEPT !.missed = x]
  /\ UNCHANGED <<day, due, up, enabled, pin, rows, groups, workdays, active, away, polls, pinned,
                 cast, budget>>

LEMMA AnswersFacts ==
  ASSUME LInv, NEW a, NEW x, Answers(a, x)
  PROVE  /\ history' = [missed |-> x, stray |-> history.stray, dropped |-> history.dropped,
                        failed |-> history.failed, on |-> history.on, life |-> history.life]
         /\ history' \in HistoryValue'
         /\ a.poll \in DOMAIN polls /\ a.user \in Users
         /\ inbox' \in Seq(AnAnswer) /\ last' \in Seq(AnAnswer)
         /\ votes' \subseteq ToSet(rows) \X Users \X Options
         /\ VoteInv'
<1>1. /\ a \in AnAnswer /\ a.poll \in DOMAIN polls /\ a.user \in Users /\ a.chosen \subseteq Options
      /\ inbox' \in Seq(AnAnswer) /\ last' \in Seq(AnAnswer) /\ AnswersFresh'
      /\ \A r, s : Pending(r, s) /\ ~(r = a.poll /\ s = a.user) => Pending(r, s)'
      /\ Pending(a.poll, a.user)' \/ a.chosen = Chosen(a.poll, a.user)
  BY AnswerTaken DEF Answers
<1>2. TypeOK /\ history \in HistoryValue /\ votes \subseteq ToSet(rows) \X Users \X Options
  BY DEF LInv, TypeOK, HistoryValue
<1>3. history' = [missed |-> x, stray |-> history.stray, dropped |-> history.dropped,
                  failed |-> history.failed, on |-> history.on, life |-> history.life]
  BY <1>2, OneField DEF Answers
<1>4. history' \in HistoryValue'
  <2>1. x \in SUBSET ((DOMAIN polls) \X Users) /\ polls' = polls
    BY <1>2 DEF Answers, HistoryValue
  <2> QED
    BY <1>2, <1>3, <2>1 DEF HistoryValue
<1>5. PICK known : known = KnownOptions(polls[a.poll].kind, a.chosen) /\ known \subseteq Options
  BY <1>1 DEF KnownOptions
<1>6. votes' = {v \in votes : v[1] # a.poll \/ v[2] # a.user} \cup {<<a.poll, a.user, o>> : o \in known}
  BY <1>5 DEF Answers, StoreAnswer
<1>7. votes' \subseteq ToSet(rows) \X Users \X Options
  BY <1>1, <1>2, <1>5, <1>6 DEF Answers
<1>8. /\ Stored(a.poll, a.user)' = known
      /\ \A r \in DOMAIN polls, s \in Users : r # a.poll \/ s # a.user => Stored(r, s)' = Stored(r, s)
  <2>1. ASSUME NEW r, NEW s, NEW o
        PROVE  <<r, s, o>> \in votes' <=>
                 \/ <<r, s, o>> \in votes /\ (r # a.poll \/ s # a.user)
                 \/ r = a.poll /\ s = a.user /\ o \in known
    BY <1>6
  <2>2. PICK p, u : p = a.poll /\ u = a.user
    OBVIOUS
  <2>3. Stored(p, u)' = known
    BY <1>5, <2>1, <2>2 DEF Stored
  <2>4. a' = a
    OBVIOUS
  <2>5. \A r \in DOMAIN polls, s \in Users : r # p \/ s # u => Stored(r, s)' = Stored(r, s)
    BY <2>1, <2>2 DEF Stored
  <2> QED
    BY <2>2, <2>3, <2>5
<1>9. \A r \in DOMAIN polls, s \in Users :
        \/ Stored(r, s)' = KnownOptions(polls[r].kind, Chosen(r, s))'
        \/ Pending(r, s)' \/ <<r, s>> \in history'.missed
  <2> SUFFICES ASSUME NEW r \in DOMAIN polls, NEW s \in Users
               PROVE  \/ Stored(r, s)' = KnownOptions(polls[r].kind, Chosen(r, s))'
                      \/ Pending(r, s)' \/ <<r, s>> \in history'.missed
    OBVIOUS
  <2>1. KnownOptions(polls[r].kind, Chosen(r, s))' = KnownOptions(polls[r].kind, Chosen(r, s))
    BY DEF KnownOptions, Chosen, Answers
  <2>2. CASE r = a.poll /\ s = a.user
    <3>1. PICK p, u : p = a.poll /\ u = a.user /\ p = r /\ u = s
      BY <2>2
    <3>2. Stored(p, u)' = known /\ (Pending(p, u)' \/ a.chosen = Chosen(p, u))
      BY <1>1, <1>8, <3>1
    <3> QED
      BY <1>5, <2>1, <3>1, <3>2
  <2>3. CASE r # a.poll \/ s # a.user
    <3>1. \/ Stored(r, s) = KnownOptions(polls[r].kind, Chosen(r, s))
          \/ Pending(r, s) \/ <<r, s>> \in history.missed
      BY DEF LInv, VoteInv
    <3>2. <<r, s>> \in history.missed => <<r, s>> \in history'.missed
      <4>1. <<r, s>> # <<a.poll, a.user>>
        BY <2>3
      <4> QED
        BY <1>3, <4>1 DEF Answers
    <3> QED
      BY <1>1, <1>8, <2>1, <2>3, <3>1, <3>2
  <2> QED
    BY <2>2, <2>3
<1>10. VoteInv'
  <2>1. DOMAIN polls' = DOMAIN polls
    BY DEF Answers
  <2> QED
    BY <1>1, <1>9, <2>1 DEF VoteInv
<1> QED
  BY <1>1, <1>3, <1>4, <1>7, <1>10
\* A stored "other" that is new asks for a follow-up; one that is not was followed before.
LEMMA OtherRequested ==
  ASSUME LInv, NEW a, NEW x, Answers(a, x),
         NEW p \in ToSet(rows), polls[p].kind \in PlaceKinds,
         NEW u \in Users, <<p, u, "other">> \in votes'
  PROVE  Followed(p) \/ (p = a.poll /\ Requested(a))
<1>1. CASE <<p, u, "other">> \in votes
  BY <1>1 DEF LInv, FollowInv, OtherIsFollowed, Followed
<1>2. CASE <<p, u, "other">> \notin votes
  <2>1. /\ p = a.poll /\ u = a.user
        /\ "other" \in KnownOptions(polls[a.poll].kind, a.chosen)
    BY <1>2 DEF Answers, StoreAnswer
  <2>2. "other" \in NewOptions(a)
    BY <1>2, <2>1 DEF NewOptions
  <2>3. HasAction(polls[a.poll].kind, "other")
    BY <2>1 DEF HasAction
  <2>4. Requested(a) \/ a.poll \in consumed
    BY <2>2, <2>3 DEF Requested
  <2> QED
    BY <2>1, <2>4 DEF LInv, FollowInv
<1> QED
  BY <1>1, <1>2

\* An answer that starts nothing.
LEMMA StoredOnlyStep ==
  ASSUME LInv, NEW a, NEW x, Answers(a, x), ~Requested(a), UNCHANGED <<consumed, task>>
  PROVE  LInv'
<1>1. /\ history' = [missed |-> x, stray |-> history.stray, dropped |-> history.dropped,
                     failed |-> history.failed, on |-> history.on, life |-> history.life]
      /\ history' \in HistoryValue'
      /\ inbox' \in Seq(AnAnswer) /\ last' \in Seq(AnAnswer)
      /\ votes' \subseteq ToSet(rows) \X Users \X Options
      /\ VoteInv'
  BY AnswersFacts
<1>2. TypeOK'
  BY <1>1 DEF Answers, TypeOK, HistoryValue
<1>3. SameFollows /\ TasksRight'
  BY <1>1 DEF Answers, SameFollows, LInv, TasksRight, JobRight, HandlerRight, SentRight, Sent
<1>4. Unregistered' /\ PinInv' /\ OnceInv'
  BY <1>1, <1>3, UnregisteredKept, PinsKept, OnceKept DEF LInv, Answers
<1>5. \A p : Followed(p)' = Followed(p)
  BY <1>1 DEF Followed, FollowUps, Answers
<1>6. OtherIsFollowed'
  <2>1. ASSUME NEW p \in ToSet(rows'), polls'[p].kind \in PlaceKinds,
               NEW u \in Users, <<p, u, "other">> \in votes'
        PROVE  Followed(p)'
    <3>1. p \in ToSet(rows) /\ polls[p].kind \in PlaceKinds
      BY <2>1 DEF Answers
    <3> QED
      BY <1>5, <2>1, <3>1, OtherRequested
  <2> QED
    BY <2>1 DEF OtherIsFollowed, Followed
<1>7. FollowInv'
  <2>1. FollowUpOnce' /\ \A p \in consumed' : Followed(p)'
    BY <1>5 DEF LInv, FollowInv, FollowUpOnce, FollowUps, Answers
  <2>2. /\ \A q \in DOMAIN polls' :
             /\ polls'[q].life <= history'.life /\ polls'[q].parent \in DOMAIN polls' \cup {0}
             /\ polls'[q].life = history'.life /\ polls'[q].parent # 0 => polls'[q].parent \in consumed'
        /\ \A h \in Handlers : task'[h].pc = "follow" =>
             /\ task'[h].parent \in consumed'
             /\ task'[h].sent = 0 =>
                  \A q \in FollowUps(task[h].parent)' : polls'[q].life # history'.life
             /\ \A g \in Handlers :
                  task'[g].pc = "follow" /\ task'[g].parent = task'[h].parent => g = h
    BY <1>1 DEF LInv, FollowInv, FollowUps, Answers
  <2> QED
    BY <1>6, <2>1, <2>2 DEF FollowInv
<1> QED
  BY <1>1, <1>2, <1>3, <1>4, <1>7 DEF LInv

\* The first vote for "other": the action is consumed, and a handler sends the follow-up.
LEMMA FollowStartsStep ==
  ASSUME LInv, NEW a, NEW x, Answers(a, x), Requested(a),
         consumed' = consumed \cup {a.poll},
         Handle([pc |-> "follow", chat |-> polls[a.poll].chat, auto |-> FALSE,
                 day |-> polls[a.poll].day, sent |-> 0, parent |-> a.poll])
  PROVE  LInv'
<1>1. /\ history' = [missed |-> x, stray |-> history.stray, dropped |-> history.dropped,
                     failed |-> history.failed, on |-> history.on, life |-> history.life]
      /\ history' \in HistoryValue'
      /\ a.poll \in DOMAIN polls
      /\ inbox' \in Seq(AnAnswer) /\ last' \in Seq(AnAnswer)
      /\ votes' \subseteq ToSet(rows) \X Users \X Options
      /\ VoteInv'
  BY AnswersFacts
<1>2. PICK j, p :
        /\ p = a.poll
        /\ j = [pc |-> "follow", chat |-> polls[p].chat, auto |-> FALSE, day |-> polls[p].day,
                sent |-> 0, parent |-> p]
  OBVIOUS
<1>3. PICK h \in Handlers : task[h] = Idle /\ task' = [task EXCEPT ![h] = j]
  BY <1>2 DEF Handle, Become
<1>4. TypeOK /\ p \in DOMAIN polls /\ p # 0 /\ p \in ToSet(rows) /\ p \notin consumed
  BY <1>1, <1>2, RowFacts DEF Answers, Requested
<1>5. j \in FollowUp /\ j.pc = "follow" /\ ~j.auto /\ j.sent = 0 /\ j.parent = p
  BY <1>2, <1>4, PollFacts DEF FollowUp
<1>6. /\ h \in Workers /\ h # "job" /\ Handlers \subseteq Workers /\ "job" \in Workers
      /\ \A v \in Workers : task'[v] = IF v = h THEN j ELSE task[v]
      /\ task' \in [Workers -> TaskValue]
  <2>1. h \in Workers /\ h # "job" /\ Handlers \subseteq Workers /\ "job" \in Workers
    BY LunchAssumption DEF Workers
  <2> QED
    BY <1>3, <1>4, <1>5, <2>1 DEF TypeOK, TaskValue
<1>7. TypeOK'
  <2>1. consumed' \subseteq ToSet(rows')
    BY <1>2, <1>4 DEF Answers, TypeOK
  <2> QED
    BY <1>1, <1>6, <2>1 DEF Answers, TypeOK, TaskValue, HistoryValue
<1>8. HandlerRight(j) /\ SentRight(j) /\ ~Sent(j)
  BY <1>5 DEF HandlerRight, SentRight, Sent
<1>9. TasksRight'
  BY <1>1, <1>3, <1>4, <1>6, <1>8, TasksMove DEF LInv, Answers
<1>10. task'["job"] = task["job"]
  BY <1>6
<1>11. Unregistered' /\ PinInv' /\ OnceInv'
  <2>1. Unregistered'
    BY <1>6, <1>8, UnregisteredKept DEF LInv, Answers
  <2> QED
    BY <1>1, <1>10, <2>1, PinsKept, OnceKept DEF LInv, Answers
<1>12. \A q : FollowUps(q)' = FollowUps(q)
  BY DEF FollowUps, Answers
<1>13. ASSUME NEW q, Followed(q) PROVE Followed(q)'
  <2>1. ASSUME NEW g \in Handlers, task[g].pc = "follow", task[g].parent = q
        PROVE  task'[g].pc = "follow" /\ task'[g].parent = q
    <3>1. g # h
      BY <1>3, <2>1 DEF Idle
    <3> QED
      BY <1>6, <2>1, <3>1
  <2>2. FollowUps(q) # {} => FollowUps(q)' # {}
    BY <1>12
  <2> QED
    BY <1>1, <1>13, <2>1, <2>2 DEF Followed
<1>14. Followed(p)'
  BY <1>5, <1>6 DEF Followed
<1>15. OtherIsFollowed'
  <2>1. ASSUME NEW q \in ToSet(rows'), polls'[q].kind \in PlaceKinds,
               NEW u \in Users, <<q, u, "other">> \in votes'
        PROVE  Followed(q)'
    <3>1. q \in ToSet(rows) /\ polls[q].kind \in PlaceKinds
      BY <2>1 DEF Answers
    <3>2. Followed(q) \/ q = p
      BY <1>2, <2>1, <3>1, OtherRequested
    <3> QED
      BY <1>13, <1>14, <3>2
  <2> QED
    BY <2>1 DEF OtherIsFollowed, Followed
<1>16. PICK f : f = task'
  OBVIOUS
<1>17. \A g \in Handlers : f[g] = IF g = h THEN j ELSE task[g]
  BY <1>6, <1>16
<1>18. \A g \in Handlers : task[g].pc = "follow" =>
         /\ task[g].parent \in consumed
         /\ task[g].sent = 0 => \A r \in FollowUps(task[g].parent) : polls[r].life # history.life
         /\ \A i \in Handlers : task[i].pc = "follow" /\ task[i].parent = task[g].parent => i = g
  BY DEF LInv, FollowInv
<1>19. \A r \in FollowUps(p) : polls[r].life # history.life
  BY <1>4 DEF LInv, FollowInv, FollowUps
<1>20. history'.life = history.life /\ polls' = polls
  BY <1>1 DEF Answers
<1>21. \A g \in Handlers : f[g].pc = "follow" =>
         /\ f[g].parent \in consumed'
         /\ f[g].sent = 0 => \A r \in FollowUps(f[g].parent)' : polls'[r].life # history'.life
         /\ \A i \in Handlers : f[i].pc = "follow" /\ f[i].parent = f[g].parent => i = g
  <2> SUFFICES ASSUME NEW g \in Handlers, f[g].pc = "follow"
               PROVE  /\ f[g].parent \in consumed'
                      /\ f[g].sent = 0 =>
                           \A r \in FollowUps(f[g].parent)' : polls'[r].life # history'.life
                      /\ \A i \in Handlers : f[i].pc = "follow" /\ f[i].parent = f[g].parent => i = g
    OBVIOUS
  <2>1. PICK q : q = f[g].parent
    OBVIOUS
  <2>2. q \in consumed' /\ (g # h => q \in consumed /\ q # p)
    BY <1>2, <1>4, <1>5, <1>17, <1>18, <2>1
  <2>3. ASSUME f[g].sent = 0 PROVE \A r \in FollowUps(q)' : polls'[r].life # history'.life
    <3>1. \A r \in FollowUps(q) : polls[r].life # history.life
      BY <1>5, <1>17, <1>18, <1>19, <2>1, <2>3
    <3> QED
      BY <1>12, <1>20, <3>1
  <2>4. \A i \in Handlers : f[i].pc = "follow" /\ f[i].parent = q => i = g
    <3> SUFFICES ASSUME NEW i \in Handlers, f[i].pc = "follow", f[i].parent = q PROVE i = g
      OBVIOUS
    <3>1. i # h => task[i].pc = "follow" /\ task[i].parent = q /\ q \in consumed
      BY <1>17, <1>18
    <3>2. g # h => task[g].pc = "follow" /\ task[g].parent = q
      BY <1>17, <2>1
    <3>3. i = h \/ g = h => q = p
      BY <1>5, <1>17, <2>1
    <3> QED
      BY <1>4, <1>18, <3>1, <3>2, <3>3
  <2> QED
    BY <2>1, <2>2, <2>3, <2>4
<1>22. FollowInv'
  <2>1. FollowUpOnce'
    BY <1>12, <1>20 DEF LInv, FollowInv, FollowUpOnce
  <2>2. \A q \in consumed' : Followed(q)'
    BY <1>2, <1>13, <1>14 DEF LInv, FollowInv
  <2>3. \A q \in DOMAIN polls' :
          /\ polls'[q].life <= history'.life /\ polls'[q].parent \in DOMAIN polls' \cup {0}
          /\ polls'[q].life = history'.life /\ polls'[q].parent # 0 => polls'[q].parent \in consumed'
    BY <1>20 DEF LInv, FollowInv
  <2> QED
    BY <1>15, <1>16, <1>21, <2>1, <2>2, <2>3 DEF FollowInv
<1> QED
  BY <1>1, <1>7, <1>9, <1>11, <1>22 DEF LInv

LEMMA HandleAnswerStep ==
  ASSUME LInv, HandleAnswer
  PROVE  LInv'
<1>1. PICK a, x : a = Head(inbox) /\ x = history.missed \ {<<a.poll, a.user>>}
  OBVIOUS
<1>2. Answers(a, x)
  BY <1>1 DEF HandleAnswer, Answers, LInv, world, telegram
<1>3. \/ ~Requested(a) /\ UNCHANGED <<consumed, task>>
      \/ /\ Requested(a) /\ consumed' = consumed \cup {a.poll}
         /\ Handle([pc |-> "follow", chat |-> polls[a.poll].chat, auto |-> FALSE,
                    day |-> polls[a.poll].day, sent |-> 0, parent |-> a.poll])
  BY <1>1 DEF HandleAnswer
<1> QED
  BY <1>2, <1>3, StoredOnlyStep, FollowStartsStep
-----------------------------------------------------------------------------
(* Days, crashes, and what leaves the invariant alone.                     *)

LEMMA NewDayStep ==
  ASSUME LInv, NewDay
  PROVE  LInv'
<1>1. /\ day < LastDay /\ ~due /\ task["job"] = Idle /\ day' = day + 1 /\ due' = TRUE
      /\ Can("day") /\ Spend("day")
      /\ UNCHANGED <<up, enabled, pin, rows, votes, groups, workdays, active, away, consumed, task,
                     polls, pinned, cast, inbox, last, history>>
  BY DEF NewDay, database, world, telegram, updates
<1>2. TypeOK /\ day \in Nat /\ day' \in Days
  BY <1>1, LunchAssumption DEF LInv, TypeOK, Days
<1>3. TypeOK'
  <2>1. budget' \in [BudgetKinds -> Nat]
    BY <1>1, <1>2, SpendType DEF BudgetKinds
  <2> QED
    BY <1>1, <1>2, <2>1 DEF TypeOK
<1>4. Idle.pc = "idle"
  BY DEF Idle
<1>5. TasksRight'
  BY <1>1, <1>4 DEF LInv, TasksRight, JobRight, HandlerRight, SentRight, Sent
<1>6. Unregistered'
  BY <1>1, UnregisteredKept DEF LInv
<1>7. PinInv'
  BY <1>1, <1>4 DEF LInv, PinInv, Publishing
<1>8. OnceInv'
  <2>1. \A p \in DOMAIN polls : polls[p].day \in Nat
    BY <1>2, PollFacts DEF Days
  <2>2. \A p \in DOMAIN polls : IsAuto(p) => polls[p].day <= day' /\ polls[p].day # day'
    BY <1>1, <1>2, <2>1 DEF LInv, OnceInv
  <2> QED
    BY <1>1, <2>2 DEF LInv, OnceInv, AutoOncePerDay, IsAuto
<1>9. SameFollows
  BY <1>1 DEF SameFollows
<1> QED
  BY <1>1, <1>3, <1>5, <1>6, <1>7, <1>8, <1>9, FollowsKept, VotesKept DEF LInv

LEMMA FourFields ==
  ASSUME NEW h \in HistoryValue, NEW x, NEW y, NEW z, NEW n
  PROVE  [h EXCEPT !.stray = x, !.failed = y, !.dropped = z, !.life = n] =
           [missed |-> h.missed, stray |-> x, dropped |-> z, failed |-> y, on |-> h.on, life |-> n]
<1> DEFINE R(s, d, f, l) ==
             [missed |-> h.missed, stray |-> s, dropped |-> d, failed |-> f, on |-> h.on, life |-> l]
<1>1. [h EXCEPT !.stray = x] = R(x, h.dropped, h.failed, h.life)
  BY DEF HistoryValue
<1>2. /\ [R(x, h.dropped, h.failed, h.life) EXCEPT !.failed = y] = R(x, h.dropped, y, h.life)
      /\ [R(x, h.dropped, y, h.life) EXCEPT !.dropped = z] = R(x, z, y, h.life)
      /\ [R(x, z, y, h.life) EXCEPT !.life = n] = R(x, z, y, n)
  OBVIOUS
<1>3. [h EXCEPT !.stray = x, !.failed = y, !.dropped = z, !.life = n] =
        [[[[h EXCEPT !.stray = x] EXCEPT !.failed = y] EXCEPT !.dropped = z] EXCEPT !.life = n]
  OBVIOUS
<1> QED
  BY <1>1, <1>2, <1>3

\* An answer that is delivered again comes before those that wait.
LEMMA AgainFacts ==
  ASSUME NEW S, NEW s \in Seq(S), NEW t \in Seq(S), Len(s) <= 1
  PROVE  /\ s \o t \in Seq(S) /\ DOMAIN t \subseteq Nat \ {0}
         /\ \/ s \o t = t
            \/ /\ 1 \in DOMAIN s /\ 1 \in DOMAIN (s \o t) /\ (s \o t)[1] = s[1]
               /\ \A i \in DOMAIN t : i + 1 \in DOMAIN (s \o t) /\ (s \o t)[i + 1] = t[i]
               /\ \A i \in DOMAIN (s \o t) : i = 1 \/ (i - 1 \in DOMAIN t /\ (s \o t)[i] = t[i - 1])
               /\ DOMAIN (s \o t) \subseteq Nat \ {0}
<1>1. PICK r, n, m : r = s \o t /\ n = Len(s) /\ m = Len(t)
  OBVIOUS
<1>2. /\ r \in Seq(S) /\ n \in Nat /\ m \in Nat /\ n <= 1
      /\ DOMAIN t = 1 .. m /\ DOMAIN s = 1 .. n /\ DOMAIN r = 1 .. n + m
      /\ \A i \in 1 .. n + m : r[i] = IF i <= n THEN s[i] ELSE t[i - n]
  BY <1>1
<1>3. CASE n = 0
  <2>1. DOMAIN r = 1 .. m /\ \A i \in 1 .. m : r[i] = t[i]
    BY <1>2, <1>3
  <2>2. r = t
    BY <1>2, <2>1
  <2>3. DOMAIN t \subseteq Nat \ {0}
    BY <1>2
  <2> QED
    BY <1>1, <1>2, <2>2, <2>3
<1>4. CASE n = 1
  <2>1. DOMAIN t \subseteq Nat \ {0} /\ DOMAIN r \subseteq Nat \ {0}
    BY <1>2
  <2>2. 1 \in DOMAIN s /\ 1 \in DOMAIN r /\ r[1] = s[1]
    BY <1>2, <1>4
  <2>3. \A i \in DOMAIN t : i + 1 \in DOMAIN r /\ r[i + 1] = t[i]
    BY <1>2, <1>4
  <2>4. \A i \in DOMAIN r : i = 1 \/ (i - 1 \in DOMAIN t /\ r[i] = t[i - 1])
    BY <1>2, <1>4
  <2> QED
    BY <1>1, <1>2, <2>1, <2>2, <2>3, <2>4
<1> QED
  BY <1>2, <1>3, <1>4

LEMMA CrashVotes ==
  ASSUME LInv, inbox' \in {inbox, last \o inbox}, last' = <<>>, UNCHANGED <<polls, cast, votes>>,
         history'.missed = history.missed
  PROVE  inbox' \in Seq(AnAnswer) /\ VoteInv'
<1>1. /\ inbox \in Seq(AnAnswer) /\ last \in Seq(AnAnswer) /\ Len(last) <= 1
  BY DEF LInv, TypeOK, VoteInv, AnswersFresh
<1>2. inbox' \in Seq(AnAnswer)
  <2>1. last \o inbox \in Seq(AnAnswer)
    BY <1>1
  <2> QED
    BY <1>1, <2>1
<1>3. \/ inbox' = inbox
      \/ /\ 1 \in DOMAIN last /\ 1 \in DOMAIN inbox' /\ inbox'[1] = last[1]
         /\ DOMAIN inbox \subseteq Nat \ {0} /\ DOMAIN inbox' \subseteq Nat \ {0}
         /\ \A i \in DOMAIN inbox : i + 1 \in DOMAIN inbox' /\ inbox'[i + 1] = inbox[i]
         /\ \A i \in DOMAIN inbox' : i = 1 \/ (i - 1 \in DOMAIN inbox /\ inbox'[i] = inbox[i - 1])
  <2>1. CASE inbox' = last \o inbox
    <3>1. PICK s : s = last \o inbox
      OBVIOUS
    <3> QED
      BY <1>1, <2>1, AgainFacts
  <2> QED
    BY <2>1
<1>4. \A r, s : Pending(r, s) => Pending(r, s)'
  BY <1>3 DEF Pending
<1>5. \A i \in DOMAIN inbox' : inbox'[i].poll \in DOMAIN polls'
  BY <1>3 DEF LInv, VoteInv, AnswersFresh
<1>6. ASSUME NEW i \in DOMAIN inbox',
             \A k \in DOMAIN inbox' : k > i =>
               ~(inbox'[k].poll = inbox'[i].poll /\ inbox'[k].user = inbox'[i].user)
      PROVE  Fresh(inbox[i])'
  <2>1. PICK b : b = inbox'[i]
    OBVIOUS
  <2>2. CASE inbox' = inbox
    <3>1. b.chosen = Chosen(b.poll, b.user)
      BY <1>6, <2>1, <2>2 DEF LInv, VoteInv, AnswersFresh, Fresh
    <3> QED
      BY <2>1, <3>1 DEF Fresh, Chosen
  <2>3. CASE /\ 1 \in DOMAIN last /\ 1 \in DOMAIN inbox' /\ inbox'[1] = last[1]
             /\ DOMAIN inbox \subseteq Nat \ {0} /\ DOMAIN inbox' \subseteq Nat \ {0}
             /\ \A k \in DOMAIN inbox : k + 1 \in DOMAIN inbox' /\ inbox'[k + 1] = inbox[k]
             /\ \A k \in DOMAIN inbox' : k = 1 \/ (k - 1 \in DOMAIN inbox /\ inbox'[k] = inbox[k - 1])
    <3>1. CASE i = 1
      <4>1. \A k \in DOMAIN inbox : ~(inbox[k].poll = b.poll /\ inbox[k].user = b.user)
        <5> SUFFICES ASSUME NEW k \in DOMAIN inbox
                     PROVE  ~(inbox[k].poll = b.poll /\ inbox[k].user = b.user)
          OBVIOUS
        <5>1. k + 1 \in DOMAIN inbox' /\ inbox'[k + 1] = inbox[k] /\ k + 1 > 1
          BY <2>3
        <5> QED
          BY <1>6, <2>1, <3>1, <5>1
      <4>2. b = last[1] /\ ~Pending(b.poll, b.user)
        BY <2>1, <2>3, <3>1, <4>1 DEF Pending
      <4>3. b.chosen = Chosen(b.poll, b.user)
        BY <2>3, <4>2 DEF LInv, VoteInv, AnswersFresh, Fresh
      <4> QED
        BY <2>1, <4>3 DEF Fresh, Chosen
    <3>2. CASE i # 1
      <4>1. i - 1 \in DOMAIN inbox /\ b = inbox[i - 1] /\ i \in Nat
        BY <2>1, <2>3, <3>2
      <4>2. \A k \in DOMAIN inbox : k > i - 1 => ~(inbox[k].poll = b.poll /\ inbox[k].user = b.user)
        <5> SUFFICES ASSUME NEW k \in DOMAIN inbox, k > i - 1
                     PROVE  ~(inbox[k].poll = b.poll /\ inbox[k].user = b.user)
          OBVIOUS
        <5>1. k + 1 \in DOMAIN inbox' /\ inbox'[k + 1] = inbox[k] /\ k + 1 > i
          BY <2>3, <4>1
        <5> QED
          BY <1>6, <2>1, <5>1
      <4>3. b.chosen = Chosen(b.poll, b.user)
        BY <4>1, <4>2 DEF LInv, VoteInv, AnswersFresh, Fresh
      <4> QED
        BY <2>1, <4>3 DEF Fresh, Chosen
    <3> QED
      BY <3>1, <3>2
  <2> QED
    BY <1>3, <2>2, <2>3
<1>7. AnswersFresh'
  <2>1. Len(last') <= 1 /\ DOMAIN last' = {}
    OBVIOUS
  <2>2. \A i \in DOMAIN inbox' :
          (\A k \in DOMAIN inbox' : k > i =>
             ~(inbox'[k].poll = inbox'[i].poll /\ inbox'[k].user = inbox'[i].user)) => Fresh(inbox[i])'
    BY <1>6
  <2> QED
    BY <1>5, <2>1, <2>2 DEF AnswersFresh
<1>8. \A r \in DOMAIN polls', s \in Users :
        \/ Stored(r, s)' = KnownOptions(polls[r].kind, Chosen(r, s))'
        \/ Pending(r, s)' \/ <<r, s>> \in history'.missed
  <2> SUFFICES ASSUME NEW r \in DOMAIN polls', NEW s \in Users
               PROVE  \/ Stored(r, s)' = KnownOptions(polls[r].kind, Chosen(r, s))'
                      \/ Pending(r, s)' \/ <<r, s>> \in history'.missed
    OBVIOUS
  <2>1. \/ Stored(r, s) = KnownOptions(polls[r].kind, Chosen(r, s))
        \/ Pending(r, s) \/ <<r, s>> \in history.missed
    BY DEF LInv, VoteInv
  <2>2. Stored(r, s)' = Stored(r, s) /\ KnownOptions(polls[r].kind, Chosen(r, s))' = KnownOptions(polls[r].kind, Chosen(r, s))
    BY DEF Stored, KnownOptions, Chosen
  <2> QED
    BY <1>4, <2>1, <2>2
<1> QED
  BY <1>2, <1>7, <1>8 DEF VoteInv
\* What a crash cuts short.
LEMMA CutFacts ==
  ASSUME LInv
  PROVE  /\ CutPin \in SUBSET DOMAIN polls
         /\ CutRun \in SUBSET (Chats \X Days)
         /\ CutFollowUps \in SUBSET DOMAIN polls
<1>1. PICK t : t = task["job"]
  OBVIOUS
<1>2. JobRight(t) /\ SentRight(t)
  BY <1>1 DEF LInv, TasksRight, Workers
<1>3. CutPin \in SUBSET DOMAIN polls
  BY <1>1, <1>2 DEF CutPin, SentRight
<1>4. CutRun \in SUBSET (Chats \X Days)
  <2>1. CASE t.pc = "idle"
    BY <1>1, <2>1 DEF CutRun
  <2>2. CASE t.pc # "idle"
    <3>1. t \in Publication
      BY <1>2, <2>2 DEF JobRight
    <3>2. t.chats \in SUBSET Chats /\ t.todo \in SUBSET Chats /\ t.chat \in Chats /\ t.day \in Days
      BY <3>1 DEF Publication
    <3> QED
      BY <1>1, <3>2 DEF CutRun
  <2> QED
    BY <2>1, <2>2
<1>5. CutFollowUps \in SUBSET DOMAIN polls
  BY FollowFacts DEF CutFollowUps, Workers
<1> QED
  BY <1>3, <1>4, <1>5

LEMMA CrashStep ==
  ASSUME LInv, Crash
  PROVE  LInv'
<1>1. PICK x, y, z, n :
        /\ x = history.stray \cup CutPin /\ y = history.failed \cup CutRun
        /\ z = history.dropped \cup CutFollowUps /\ n = history.life + 1
  OBVIOUS
<1>2. /\ Can("crash") /\ Spend("crash") /\ up' = FALSE /\ consumed' = {}
      /\ task' = [w \in Workers |-> Idle]
      /\ pinned' \subseteq pinned \cup CutPin
      /\ history' = [history EXCEPT !.stray = x, !.failed = y, !.dropped = z, !.life = n]
      /\ inbox' \in {inbox, last \o inbox} /\ last' = <<>>
      /\ UNCHANGED <<day, due, enabled, pin, rows, votes, groups, workdays, active, away, polls, cast>>
  BY <1>1 DEF Crash, database, world
<1>3. TypeOK /\ history \in HistoryValue
  BY DEF LInv, TypeOK, HistoryValue
<1>4. history' = [missed |-> history.missed, stray |-> x, dropped |-> z, failed |-> y,
                  on |-> history.on, life |-> n]
  BY <1>2, <1>3, FourFields
<1>5. inbox' \in Seq(AnAnswer) /\ VoteInv'
  BY <1>2, <1>4, CrashVotes
<1>6. TypeOK'
  <2>1. /\ CutPin \in SUBSET DOMAIN polls /\ CutRun \in SUBSET (Chats \X Days)
        /\ CutFollowUps \in SUBSET DOMAIN polls
    BY CutFacts
  <2>2. /\ x \in SUBSET DOMAIN polls /\ y \in SUBSET (Chats \X Days) /\ z \in SUBSET DOMAIN polls
        /\ n \in Nat
    BY <1>1, <1>3, <2>1 DEF HistoryValue
  <2>3. history' \in HistoryValue'
    BY <1>2, <1>3, <1>4, <2>2 DEF HistoryValue
  <2>4. budget' \in [BudgetKinds -> Nat]
    BY <1>2, <1>3, SpendType DEF BudgetKinds
  <2>5. /\ task' \in [Workers -> TaskValue] /\ \A w \in Workers : task'[w] = Idle
        /\ pinned' \subseteq DOMAIN polls /\ last' \in Seq(AnAnswer)
    BY <1>2, <1>3, <2>1 DEF TaskValue, TypeOK
  <2> QED
    BY <1>2, <1>3, <1>5, <2>3, <2>4, <2>5 DEF TypeOK, HistoryValue, TaskValue
<1>7. /\ \A w \in Workers : task'[w] = Idle
      /\ "job" \in Workers /\ Handlers \subseteq Workers /\ Idle.pc = "idle"
  BY <1>2 DEF Workers, Idle
<1>8. TasksRight' /\ Unregistered'
  BY <1>7 DEF TasksRight, JobRight, HandlerRight, SentRight, Sent, Unregistered
<1>9. PinInv'
  <2>1. \A p \in pinned' \ history'.stray : p \in pinned \ history.stray
    BY <1>1, <1>2, <1>4
  <2> QED
    BY <1>2, <1>7, <2>1 DEF LInv, PinInv, Publishing
<1>10. OnceInv'
  BY <1>2, <1>4, <1>7, OnceKept DEF LInv, Unserved
<1>11. FollowInv'
  <2>1. \A p : FollowUps(p)' = FollowUps(p)
    BY <1>2 DEF FollowUps
  <2>2. FollowUpOnce'
    BY <1>2, <2>1 DEF LInv, FollowInv, FollowUpOnce
  <2>3. ASSUME NEW p, Followed(p) PROVE FollowUps(p)' # {} \/ p \in history'.dropped
    BY <1>1, <1>4, <2>1, <2>3 DEF Followed, CutFollowUps
  <2>4. OtherIsFollowed'
    <3>1. ASSUME NEW p \in ToSet(rows'), polls'[p].kind \in PlaceKinds,
                 NEW u \in Users, <<p, u, "other">> \in votes'
          PROVE  FollowUps(p)' # {} \/ p \in history'.dropped
      <4>1. Followed(p)
        BY <1>2, <3>1 DEF LInv, FollowInv, OtherIsFollowed, Followed
      <4> QED
        BY <2>3, <4>1
    <3> QED
      BY <3>1 DEF OtherIsFollowed
  <2>5. \A q \in DOMAIN polls' : polls'[q].life <= n /\ polls'[q].life # n
    <3>1. \A q \in DOMAIN polls : polls[q].life \in Nat /\ polls[q].life <= history.life
      <4>1. \A q \in DOMAIN polls : polls[q] \in PollRecord
        BY <1>3, PollFacts
      <4> QED
        BY <4>1 DEF LInv, FollowInv, PollRecord
    <3>2. history.life \in Nat
      BY <1>3 DEF HistoryValue
    <3> QED
      BY <1>1, <1>2, <3>1, <3>2
  <2>6. \A q \in DOMAIN polls' : polls'[q].parent \in DOMAIN polls' \cup {0}
    BY <1>2 DEF LInv, FollowInv
  <2> QED
    BY <1>2, <1>4, <1>7, <2>2, <2>4, <2>5, <2>6 DEF FollowInv
<1> QED
  BY <1>5, <1>6, <1>8, <1>9, <1>10, <1>11 DEF LInv

\* Missed runs, restarts, switches, users, and the end of the model.
LEMMA QuietStep ==
  ASSUME LInv,
         \/ MissRun \/ Restart \/ Rest \/ UNCHANGED vars
         \/ \E c \in groups : SwitchOn(c) \/ SwitchOff(c)
         \/ \E u \in Users : UserChanges(u)
  PROVE  LInv'
<1>1. TypeOK
  BY DEF LInv
<1>2. CASE MissRun
  <2>1. TypeOK' /\ (due' => due)
    BY <1>1, <1>2 DEF MissRun, TypeOK, database, world, telegram, updates
  <2> QED
    BY <1>2, <2>1, AsideStep DEF MissRun, database, world, telegram, updates
<1>3. CASE Restart
  <2>1. TypeOK' /\ (due' => due)
    BY <1>1, <1>3 DEF Restart, TypeOK, database, world, telegram, updates
  <2> QED
    BY <1>3, <2>1, AsideStep DEF Restart, database, world, telegram, updates
<1>4. CASE Rest \/ UNCHANGED vars
  <2>1. UNCHANGED vars
    BY <1>4 DEF Rest
  <2>2. TypeOK' /\ (due' => due)
    BY <1>1, <2>1 DEF vars, TypeOK, database, world, telegram, updates
  <2> QED
    BY <2>1, <2>2, AsideStep DEF vars, database, world, telegram, updates
<1>5. ASSUME NEW c \in groups, SwitchOn(c) \/ SwitchOff(c) PROVE LInv'
  <2>1. /\ Can("switch") /\ Spend("switch") /\ enabled' \subseteq groups
        /\ UNCHANGED <<day, due, up, pin, rows, votes, groups, workdays, active, away, consumed, task,
                       polls, pinned, cast, inbox, last, history>>
    BY <1>1, <1>5 DEF SwitchOn, SwitchOff, TypeOK, world, telegram, updates
  <2>2. budget' \in [BudgetKinds -> Nat]
    BY <1>1, <2>1, SpendType DEF BudgetKinds
  <2>3. TypeOK'
    BY <1>1, <2>1, <2>2 DEF TypeOK
  <2> QED
    BY <2>1, <2>3, AsideStep
<1>6. ASSUME NEW u \in Users, UserChanges(u) PROVE LInv'
  <2>1. /\ Can("away") /\ Spend("away") /\ active' \subseteq Users /\ away' \subseteq Users
        /\ UNCHANGED <<day, due, up, enabled, pin, rows, votes, groups, workdays, consumed, task,
                       polls, pinned, cast, inbox, last, history>>
    BY <1>1, <1>6 DEF UserChanges, AbsenceChanges, StatusChanges, TypeOK, database, telegram, updates
  <2>2. budget' \in [BudgetKinds -> Nat]
    BY <1>1, <2>1, SpendType DEF BudgetKinds
  <2>3. TypeOK'
    BY <1>1, <2>1, <2>2 DEF TypeOK
  <2> QED
    BY <2>1, <2>3, AsideStep
<1> QED
  BY <1>2, <1>3, <1>4, <1>5, <1>6

-----------------------------------------------------------------------------
(* The theorems.                                                           *)

LEMMA LInit == Init => LInv
<1> SUFFICES ASSUME Init PROVE LInv
  OBVIOUS
<1>1. PICK s \in Scenarios :
        groups = s.groups /\ enabled = s.auto /\ workdays = s.work /\ budget = s.budget
  BY DEF Init
<1>2. /\ groups \subseteq Chats /\ enabled \subseteq groups /\ workdays \subseteq Days
      /\ budget \in [BudgetKinds -> Nat]
  BY <1>1, LunchAssumption
<1>3. /\ day \in Days /\ pin \in [Chats -> 0 .. Len(polls)] /\ DOMAIN polls = {}
      /\ polls \in Seq(PollRecord) /\ rows \in Seq(DOMAIN polls) /\ IsInjective(rows)
      /\ ToSet(rows) = {} /\ inbox \in Seq(AnAnswer) /\ last \in Seq(AnAnswer)
      /\ DOMAIN inbox = {} /\ DOMAIN last = {} /\ Len(last) <= 1
  BY LunchAssumption DEF Init, Days, IsInjective, ToSet
<1>4. /\ task \in [Workers -> TaskValue] /\ \A w \in Workers : task[w] = Idle
      /\ "job" \in Workers /\ Handlers \subseteq Workers /\ Idle.pc = "idle"
  BY DEF Init, TaskValue, Workers, Idle
<1>5. history \in HistoryValue
  BY DEF Init, HistoryValue
<1>6. TypeOK
  BY <1>2, <1>3, <1>4, <1>5 DEF Init, TypeOK, TaskValue, HistoryValue
<1>7. TasksRight /\ Unregistered
  BY <1>4 DEF TasksRight, JobRight, HandlerRight, SentRight, Sent, Unregistered
<1>8. PinInv
  BY <1>4 DEF Init, PinInv, Publishing
<1>9. OnceInv
  BY <1>3 DEF OnceInv, AutoOncePerDay
<1>10. FollowInv
  BY <1>3, <1>4 DEF Init, FollowInv, FollowUpOnce, OtherIsFollowed
<1>11. VoteInv
  BY <1>3 DEF VoteInv, AnswersFresh
<1> QED
  BY <1>6, <1>7, <1>8, <1>9, <1>10, <1>11 DEF LInv

LEMMA LStep == LInv /\ [Next]_vars => LInv'
<1> SUFFICES ASSUME LInv, [Next]_vars PROVE LInv'
  OBVIOUS
<1>1. CASE JobStep
  BY <1>1, StartRunStep, PinClearedStep, NewPinnedStep DEF JobStep
<1>2. ASSUME NEW w \in Workers, CallReturns(w) PROVE LInv'
  BY <1>2, AnnouncedStep, PollAppearsStep, PollReturnsStep, SendFailsStep DEF CallReturns
<1>3. ASSUME NEW c \in groups, NEW s \in Selections, PublishCommand(c, s) PROVE LInv'
  BY <1>3, PublishCommandStep
<1>4. ASSUME NEW u \in Users, NEW p \in DOMAIN polls, NEW chosen \in Ballots[polls[p].kind],
             Vote(u, p, chosen)
      PROVE  LInv'
  BY <1>4, VoteStep
<1>5. CASE Answer
  BY <1>5, IgnoreAnswerStep, HandleAnswerStep DEF Answer
<1>6. CASE NewDay \/ Crash
  BY <1>6, NewDayStep, CrashStep
<1>7. CASE \/ MissRun \/ Restart \/ Rest \/ UNCHANGED vars
           \/ \E c \in groups : SwitchOn(c) \/ SwitchOff(c)
           \/ \E u \in Users : UserChanges(u)
  BY <1>7, QuietStep
<1> QED
  BY <1>1, <1>2, <1>3, <1>4, <1>5, <1>6, <1>7 DEF Next

\* The inductive invariant holds in every state.
THEOREM LunchInvariant == Spec => []LInv
<1>1. Init => LInv
  BY LInit
<1>2. LInv /\ [Next]_vars => LInv'
  BY LStep
<1> QED
  BY <1>1, <1>2, PTL DEF Spec

\* Every variable keeps its type: rows are of polls that Telegram shows and registered once, votes
\* of registered polls, and a stopped process keeps nothing in memory.
THEOREM LunchTypes == Spec => []TypeOK
<1>1. LInv => TypeOK
  BY DEF LInv
<1> QED
  BY <1>1, LunchInvariant, PTL

\* A poll that a chat shows as pinned is the saved one, but for failed calls; once the job publishes
\* no chat of its list shows an earlier pin; and a pin is never replaced (PinInv, with the poll the
\* job holds while it waits for its pin).
THEOREM PinsAreTracked == Spec => []PinsTracked
<1>1. ASSUME LInv PROVE PinsTracked
  <2>1. PICK t : t = task["job"]
    OBVIOUS
  <2>2. JobRight(t) /\ PinInv /\ TypeOK
    BY <1>1, <2>1 DEF LInv, TasksRight
  <2>3. ASSUME Publishing(t), NEW p \in pinned \ history.stray, polls[p].chat \in t.chats
        PROVE  polls[p].day = day
    <3>1. pin[polls[p].chat] = p /\ p # 0
      BY <2>2, <2>3, PollFacts DEF PinInv, TypeOK
    <3> QED
      BY <2>1, <2>2, <2>3, <3>1 DEF PinInv
  <2>4. t.pc = "pin" => pin[t.chat] = 0
    <3>1. ASSUME t.pc = "pin" PROVE Publishing(t) /\ t.chat \in t.chats /\ t.chat \in Ahead(t)
      BY <2>2, <3>1 DEF Publishing, JobRight, Ahead
    <3> QED
      BY <2>1, <2>2, <3>1 DEF PinInv
  <2> QED
    BY <2>1, <2>2, <2>3, <2>4 DEF PinsTracked, PinInv
<1> QED
  BY <1>1, LunchInvariant, PTL

\* The job sends a chat one attendance poll a day at most, and only to a chat that was switched on
\* at 11:30, whatever fails and whenever the process stops and starts.
THEOREM OncePerDay == Spec => []AutoOncePerDay
<1>1. LInv => AutoOncePerDay
  BY DEF LInv, OnceInv
<1> QED
  BY <1>1, LunchInvariant, PTL

\* A place poll gets one follow-up poll at most in each life of the process.
THEOREM OneFollowUp == Spec => []FollowUpOnce
<1>1. LInv => FollowUpOnce
  BY DEF LInv, FollowInv
<1> QED
  BY <1>1, LunchInvariant, PTL

\* A stored "other" has its follow-up, or gets it, or lost it to a failed call or a crash.
THEOREM OthersFollowed == Spec => []OtherIsFollowed
<1>1. LInv => OtherIsFollowed
  BY DEF LInv, FollowInv
<1> QED
  BY <1>1, LunchInvariant, PTL

\* What the database holds of a vote is what Telegram shows of it, but for an answer that waits and
\* for one that came before its poll was registered.
THEOREM VotesAreStored == Spec => []VotesStored
<1>1. ASSUME LInv PROVE VotesStored
  <2>1. ASSUME NEW p \in ToSet(rows), NEW u \in Voters[polls[p].chat]
        PROVE  p \in DOMAIN polls /\ u \in Users
    <3>1. TypeOK /\ p \in DOMAIN polls
      BY <1>1, <2>1, RowFacts DEF LInv
    <3>2. polls[p].chat \in Chats
      BY <3>1, PollFacts
    <3> QED
      BY <2>1, <3>1, <3>2, LunchAssumption
  <2>2. \A p \in DOMAIN polls, u \in Users :
          \/ {o \in Options : <<p, u, o>> \in votes} = KnownOptions(polls[p].kind, Chosen(p, u))
          \/ Pending(p, u) \/ <<p, u>> \in history.missed
    BY <1>1 DEF LInv, VoteInv, Stored
  <2> QED
    BY <2>1, <2>2 DEF VotesStored
<1> QED
  BY <1>1, LunchInvariant, PTL

-----------------------------------------------------------------------------
(* Who is told to be in the office.                                        *)

LEMMA MaxFacts ==
  ASSUME NEW N \in Nat, NEW S \in SUBSET (1 .. N), S # {}
  PROVE  Max(S) \in S /\ \A y \in S : y <= Max(S)
<1> DEFINE Gaps == {N - x : x \in S}
<1>1. Gaps \in SUBSET Nat /\ Gaps # {}
  <2>1. ASSUME NEW x \in S PROVE N - x \in Nat
    <3>1. x \in 1 .. N
      OBVIOUS
    <3> QED
      BY <3>1
  <2> QED
    BY <2>1
<1>2. Min(Gaps) \in Gaps /\ \A g \in Gaps : Min(Gaps) <= g
  <2> HIDE DEF Gaps
  <2> QED
    BY <1>1, MinFacts
<1>3. PICK x \in S : Min(Gaps) = N - x
  BY <1>2
<1>4. ASSUME NEW y \in S PROVE x >= y
  <2>1. N - x <= N - y
    BY <1>2, <1>3
  <2> QED
    BY <2>1
<1> QED
  BY <1>4 DEF Max

\* Telegram shows choices of the users who see the poll only.
CastByVoters ==
  \A p \in DOMAIN polls, u \in Users, o \in Options :
    <<p, u, o>> \in cast => u \in Voters[polls[p].chat]

LEMMA CastStep == LInv /\ CastByVoters /\ [Next]_vars => CastByVoters'
<1> SUFFICES ASSUME LInv, CastByVoters, [Next]_vars PROVE CastByVoters'
  OBVIOUS
<1>1. /\ TypeOK /\ polls \in Seq(PollRecord)
      /\ cast \subseteq (DOMAIN polls) \X Users \X Options
  BY DEF LInv, TypeOK
<1>2. CASE UNCHANGED <<polls, cast>>
  BY <1>2 DEF CastByVoters
<1>3. ASSUME NEW w \in Workers, PollAppears(w) PROVE CastByVoters'
  <2>1. PICK rec : polls' = Append(polls, rec) /\ cast' = cast
    BY <1>3 DEF PollAppears
  <2>2. \A p \in DOMAIN polls : polls'[p] = polls[p]
    BY <1>1, <2>1
  <2>3. \A p, u, o : <<p, u, o>> \in cast' => p \in DOMAIN polls
    BY <1>1, <2>1
  <2> QED
    BY <2>1, <2>2, <2>3 DEF CastByVoters
<1>4. ASSUME NEW u \in Users, NEW p \in DOMAIN polls, NEW chosen \in Ballots[polls[p].kind],
             Vote(u, p, chosen)
      PROVE  CastByVoters'
  <2>1. /\ polls' = polls /\ u \in Voters[polls[p].chat]
        /\ cast' = {v \in cast : v[1] # p \/ v[2] # u} \cup {<<p, u, o>> : o \in chosen}
    BY <1>4 DEF Vote
  <2>2. ASSUME NEW q, NEW s, NEW o, <<q, s, o>> \in cast'
        PROVE  <<q, s, o>> \in cast \/ (q = p /\ s = u)
    BY <2>1, <2>2
  <2> QED
    BY <2>1, <2>2 DEF CastByVoters
<1>5. ASSUME NEW w \in Workers, Announced(w) \/ PollReturns(w) \/ SendFails(w)
      PROVE  UNCHANGED <<polls, cast>>
  BY <1>5 DEF Announced, PollReturns, SendFails, telegram
<1>6. CASE JobStep \/ MissRun \/ NewDay \/ Crash \/ Restart \/ Rest \/ UNCHANGED vars
  <2>1. UNCHANGED <<polls, cast>>
    BY <1>6 DEF JobStep, StartRun, PinCleared, NewPinned, MissRun, NewDay, Crash, Restart, Rest, vars, telegram
  <2> QED
    BY <1>2, <2>1
<1>7. CASE \/ Answer
           \/ \E c \in groups, s \in Selections : PublishCommand(c, s)
           \/ \E c \in groups : SwitchOn(c) \/ SwitchOff(c)
           \/ \E u \in Users : UserChanges(u)
  <2>1. UNCHANGED <<polls, cast>>
    BY <1>7 DEF Answer, IgnoreAnswer, HandleAnswer, PublishCommand, SwitchOn, SwitchOff, UserChanges, telegram
  <2> QED
    BY <1>2, <2>1
<1> QED
  BY <1>2, <1>3, <1>4, <1>5, <1>6, <1>7 DEF Next, CallReturns

\* With the rows in the order of the polls, the newest row is that of the newest poll.
LEMMA LatestIsNewest ==
  ASSUME TypeOK, InOrder(rows), NEW c, NEW d, NEW kinds
  PROVE  Latest(c, d, kinds) = Newest(c, d, kinds)
<1> DEFINE mine == RowsFor(c, d, kinds)
           shown == {p \in ToSet(rows) :
                       polls[p].chat = c /\ polls[p].day = d /\ polls[p].kind \in kinds}
<1>1. /\ rows \in Seq(ToSet(rows)) /\ ToSet(rows) \subseteq Nat
      /\ DOMAIN rows = 1 .. Len(rows) /\ Len(rows) \in Nat
  BY RowFacts
<1>2. shown = {rows[i] : i \in mine} /\ mine \subseteq 1 .. Len(rows)
  BY <1>1 DEF ToSet, RowsFor
<1>3. CASE mine = {}
  BY <1>2, <1>3 DEF Latest, Newest
<1>4. CASE mine # {}
  <2>1. PICK m \in mine : m = Max(mine) /\ \A i \in mine : i <= m
    <3> HIDE DEF mine
    <3> QED
      BY <1>1, <1>2, <1>4, MaxFacts
  <2>2. rows[m] \in shown /\ \A p \in shown : rows[m] >= p
    <3>1. ASSUME NEW i \in mine PROVE rows[m] >= rows[i]
      <4>1. i \in DOMAIN rows /\ m \in DOMAIN rows /\ i <= m /\ i \in Nat /\ m \in Nat
        BY <1>1, <1>2, <2>1
      <4>2. rows[i] \in Nat /\ rows[m] \in Nat
        BY <1>1, <4>1
      <4>3. CASE i = m
        BY <4>2, <4>3
      <4>4. CASE i < m
        BY <4>1, <4>2, <4>4 DEF InOrder
      <4> QED
        BY <4>1, <4>3, <4>4
    <3> QED
      BY <1>2, <2>1, <3>1
  <2>3. Max(shown) = rows[m]
    <3>1. shown \subseteq Nat
      BY <1>1
    <3>2. \A x, y \in Nat : x >= y /\ y >= x => x = y
      OBVIOUS
    <3> HIDE DEF shown, mine
    <3> QED
      BY <2>2, <3>1, <3>2 DEF Max
  <2> QED
    BY <1>2, <1>4, <2>1, <2>2, <2>3 DEF Latest, Newest
<1> QED
  BY <1>3, <1>4

\* A known option is stored of exactly those who chose it, once every answer is handled.
LEMMA StoredIsCast ==
  ASSUME LInv, inbox = <<>>, history.missed = {},
         NEW p \in ToSet(rows), NEW o \in OptionsOf(polls[p].kind), NEW u \in Users
  PROVE  <<p, u, o>> \in votes <=> o \in Chosen(p, u)
<1>1. p \in DOMAIN polls
  BY RowFacts DEF LInv
<1>2. ~Pending(p, u)
  BY DEF Pending
<1>3. Stored(p, u) = KnownOptions(polls[p].kind, Chosen(p, u))
  BY <1>1, <1>2 DEF LInv, VoteInv
<1>4. o \in Options
  BY DEF OptionsOf, Options
<1> QED
  BY <1>3, <1>4 DEF Stored, KnownOptions

\* Once all answers are handled, none came too early and the rows are in the order of the polls, the
\* bot takes exactly those for coming to the office who say so in the newest polls of the day: it asks
\* for the newest row of a kind (Latest), and what is stored there is the choice Telegram shows.
THEOREM AttendeesAreTold == Spec => []AttendeesTold
<1>1. Init => CastByVoters
  BY DEF Init, CastByVoters
<1>2. LInv /\ CastByVoters => AttendeesTold
  <2> SUFFICES ASSUME LInv, CastByVoters, inbox = <<>>, history.missed = {}, InOrder(rows),
                      NEW c \in Chats, NEW d \in Days
               PROVE  OfficeUsers(c, d) = {u \in active \cap Voters[c] : ComesToOffice(u, c, d)}
    BY DEF AttendeesTold
  <2>1. TypeOK /\ active \subseteq Users
    BY DEF LInv, TypeOK
  <2>2. /\ Latest(c, d, {Attendance}) = Newest(c, d, {Attendance})
        /\ Latest(c, d, PlaceKinds) = Newest(c, d, PlaceKinds)
    BY <2>1, LatestIsNewest
  <2>3. ASSUME NEW kinds, NEW p \in Latest(c, d, kinds)
        PROVE  /\ p \in ToSet(rows) /\ p \in DOMAIN polls
               /\ polls[p].chat = c /\ polls[p].kind \in kinds
    <3>1. RowsFor(c, d, kinds) \subseteq 1 .. Len(rows) /\ Len(rows) \in Nat
      BY <2>1, RowFacts DEF RowsFor
    <3>2. RowsFor(c, d, kinds) # {} /\ p = rows[Max(RowsFor(c, d, kinds))]
      BY <2>3 DEF Latest
    <3>3. Max(RowsFor(c, d, kinds)) \in RowsFor(c, d, kinds)
      BY <3>1, <3>2, MaxFacts
    <3>4. p \in ToSet(rows) /\ polls[p].chat = c /\ polls[p].kind \in kinds
      BY <3>2, <3>3 DEF RowsFor, ToSet
    <3> QED
      BY <2>1, <3>4, RowFacts
  <2>4. ASSUME NEW p \in Latest(c, d, {Attendance}), NEW u \in Users
        PROVE  <<p, u, "office">> \in votes <=> "office" \in Chosen(p, u)
    <3>1. p \in ToSet(rows) /\ polls[p].kind = Attendance
      BY <2>3
    <3>2. "office" \in OptionsOf(polls[p].kind)
      BY <3>1 DEF OptionsOf, Attendance, OtherFood
    <3> QED
      BY <3>1, <3>2, StoredIsCast
  <2>5. ASSUME NEW p \in Latest(c, d, PlaceKinds), NEW u \in Users, NEW o \in {"place", "other"}
        PROVE  <<p, u, o>> \in votes <=> o \in Chosen(p, u)
    <3>1. p \in ToSet(rows) /\ polls[p].kind \in PlaceKinds
      BY <2>3
    <3>2. o \in OptionsOf(polls[p].kind)
      BY <3>1 DEF OptionsOf, PlaceKinds, Attendance, OtherFood
    <3> QED
      BY <3>1, <3>2, StoredIsCast
  <2>6. ASSUME NEW kinds, NEW p \in Latest(c, d, kinds), NEW u \in Users, NEW o \in Chosen(p, u)
        PROVE  u \in Voters[c]
    BY <2>3, <2>6 DEF CastByVoters, Chosen
  <2>7. ASSUME NEW u \in active
        PROVE  u \in OfficeUsers(c, d) <=> ComesToOffice(u, c, d)
    <3>1. u \in OfficeUsers(c, d) <=>
            \/ \E p \in Latest(c, d, {Attendance}) : <<p, u, "office">> \in votes
            \/ \E p \in Latest(c, d, PlaceKinds) :
                 \E o \in {"place", "other"} : <<p, u, o>> \in votes
      <4>1. \A p : u \in ActiveVoters(p, {"office"}) <=> <<p, u, "office">> \in votes
        BY <2>7 DEF ActiveVoters
      <4>2. \A p : u \in ActiveVoters(p, {"place", "other"}) <=>
                     \E o \in {"place", "other"} : <<p, u, o>> \in votes
        BY <2>7 DEF ActiveVoters
      <4> QED
        BY <4>1, <4>2 DEF OfficeUsers
    <3>2. u \in Users
      BY <2>1, <2>7
    <3>3. ASSUME NEW p \in Latest(c, d, {Attendance})
          PROVE  <<p, u, "office">> \in votes <=> "office" \in Chosen(p, u)
      BY <2>4, <3>2
    <3>4. ASSUME NEW p \in Latest(c, d, PlaceKinds)
          PROVE  (\E o \in {"place", "other"} : <<p, u, o>> \in votes)
                 <=> Chosen(p, u) \cap {"place", "other"} # {}
      <4>1. \A o \in {"place", "other"} : <<p, u, o>> \in votes <=> o \in Chosen(p, u)
        BY <2>5, <3>2
      <4> QED
        BY <4>1
    <3> QED
      BY <2>2, <3>1, <3>3, <3>4 DEF ComesToOffice
  <2>8. OfficeUsers(c, d) \subseteq active
    BY DEF OfficeUsers, ActiveVoters
  <2>9. ASSUME NEW u \in active, ComesToOffice(u, c, d) PROVE u \in Voters[c]
    BY <2>1, <2>2, <2>6, <2>9 DEF ComesToOffice
  <2> QED
    BY <2>7, <2>8, <2>9
<1> QED
  BY <1>1, <1>2, CastStep, LunchInvariant, PTL DEF Spec
=============================================================================
