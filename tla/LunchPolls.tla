----------------------------- MODULE LunchPolls -----------------------------
(***************************************************************************)
(* Lunch announcements (features/lunch) and the polls they send            *)
(* (features/polls).  Every day at 11:30 a job publishes an announcement,  *)
(* an attendance poll, which it pins, and a place poll in every chat that  *)
(* has automatic lunch switched on; /lunch does the same without a pin.    *)
(* Votes are stored as Telegram reports them, and the first vote for       *)
(* "other" in a place poll starts a follow-up poll.                        *)
(*                                                                         *)
(* A step is the code between two awaits.  A call to Telegram may be       *)
(* refused ("reject": no effect) or take effect while its caller sees an   *)
(* error ("lost").  Simplifications: a day has one moment of interest,     *)
(* 11:30; users reach a poll of their own chats only; who is away          *)
(* (a vacation, or lunch calls switched off) is a set of users, changed    *)
(* from outside; admins do not pin or unpin by hand.                       *)
(***************************************************************************)
EXTENDS Naturals, FiniteSets, Sequences, SequencesExt, FiniteSetsExt, Functions

CONSTANTS
  Chats,      \* chat ids: naturals, since the job takes chats in their order
  Users,      \* registered users
  Voters,     \* Voters[c]: the users who see the polls of chat c
  Ballots,    \* Ballots[kind]: the answers enumerated for a poll of that kind (a bound)
  Handlers,   \* update handlers that may await a call at the same time (a bound)
  LastDay,    \* days are 1 .. LastDay (a bound)
  Tuesdays,   \* those on which the office is Rose
  Selections, \* the offices enumerated for /lunch (a bound)
  Scenarios   \* which chats there are, those with automatic lunch at first, the working days,
              \* and how often each kind of event may happen (bounds)

BudgetKinds == {"command", "switch", "vote", "away", "reject", "lost", "crash", "day"}

(* Poll kinds and options.  "own" stands for an option a user has added to a poll. *)

Attendance == "lunch_attendance_v1"
PlaceKinds == {"lunch_place_skyline_v1", "lunch_place_rose_v1"}
OtherFood  == "lunch_other_food_v1"
Kinds == {Attendance, OtherFood} \cup PlaceKinds

Options == {"office", "home", "food", "place", "other", "view", "own"}

OfficeSelections == {"automatic", "skyline", "rose"}

Days == 1 .. LastDay

ASSUME LunchAssumption ==
  /\ Chats \subseteq Nat \ {0}
  /\ Voters \in [Chats -> SUBSET Users]
  /\ LastDay \in Nat \ {0}
  /\ Tuesdays \subseteq Days
  /\ Scenarios \subseteq [groups : SUBSET Chats, auto : SUBSET Chats, work : SUBSET Days,
                           budget : [BudgetKinds -> Nat]]
  /\ \A s \in Scenarios : s.auto \subseteq s.groups
  /\ "job" \notin Handlers
  /\ Selections \subseteq OfficeSelections
  /\ Ballots \in [Kinds -> SUBSET SUBSET Options]
  /\ \A b \in Ballots[Attendance] : Cardinality(b) <= 1   \* a single choice

Workers == Handlers \cup {"job"}

VARIABLES
  day, due,         \* today; whether today's 11:30 is still to come
  up,               \* whether the bot runs
  enabled,          \* rows of lunch_auto_chats with enabled = 1
  pin,              \* rows of lunch_pinned_messages: a poll, 0 without a row
  rows,             \* rows of polls, in the order of their rowid
  votes,            \* rows of poll_selected_options: <<poll, user, option>>
  active, away,     \* users with status active; users not to be called for lunch
  consumed,         \* PollTrackingService._consumed_actions, in memory
  task,             \* what each coroutine awaits, with its local variables
  polls,            \* what Telegram shows: every poll sent, by its id
  pinned, cast,     \* the polls it shows as pinned; the options it shows as chosen
  inbox, last,      \* poll answers not yet handled; the one handled last
  history,          \* what the properties remember of failures
  groups, workdays, \* the chats the bot is in; the working days (an external calendar)
  budget            \* the events left

database == <<enabled, pin, rows, votes>>
telegram == <<polls, pinned, cast>>
updates  == <<inbox, last>>
world    == <<groups, workdays, active, away>>
vars == <<day, due, up, database, world, consumed, task, telegram, updates, history, budget>>

-----------------------------------------------------------------------------
(* Poll definitions *)

\* The options the bot knows, those with the same use taken together.
OptionsOf(kind) ==
  CASE kind = Attendance -> {"office", "home"}
    [] kind = OtherFood  -> {"food"}
    [] OTHER             -> {"place", "other", "view"}

KnownOptions(kind, chosen) == chosen \cap OptionsOf(kind)

HasAction(kind, option) == kind \in PlaceKinds /\ option = "other"

\* LunchPollCatalog.select: the place poll of an office.
PlaceKind(selection, d) ==
  IF selection = "rose" \/ (selection = "automatic" /\ d \in Tuesdays)
    THEN "lunch_place_rose_v1" ELSE "lunch_place_skyline_v1"

-----------------------------------------------------------------------------
(* State formulae *)

Idle == [pc |-> "idle"]
AnAnswer == [poll : Nat, user : Users, chosen : SUBSET Options]

PollRecord ==
  [chat : Chats, kind : Kinds, day : Days, auto : BOOLEAN, parent : Nat, life : Nat]

\* A publication in a chat: the polls' kind and date, the poll sent last, and, for the
\* job, the chats it was started with and those still to come.
Publication ==
  [pc : {"clear", "announce", "attend", "pin", "place"}, chat : Chats, auto : BOOLEAN,
   place : PlaceKinds, day : Days, sent : Nat, chats : SUBSET Chats, todo : SUBSET Chats]

FollowUp == [pc : {"follow"}, chat : Chats, auto : {FALSE}, day : Days, sent : Nat, parent : Nat]

TypeOK ==
  /\ day \in Days /\ due \in BOOLEAN /\ up \in BOOLEAN
  /\ enabled \subseteq groups /\ groups \subseteq Chats /\ workdays \subseteq Days
  /\ pin \in [Chats -> 0 .. Len(polls)]
  /\ polls \in Seq(PollRecord)
  /\ rows \in Seq(DOMAIN polls) /\ IsInjective(rows)
  /\ votes \subseteq ToSet(rows) \X Users \X Options
  /\ cast \subseteq (DOMAIN polls) \X Users \X Options
  /\ active \subseteq Users /\ away \subseteq Users
  /\ consumed \subseteq ToSet(rows) /\ pinned \subseteq DOMAIN polls
  /\ inbox \in Seq(AnAnswer) /\ last \in Seq(AnAnswer)
  /\ task \in [Workers -> {Idle} \cup Publication \cup FollowUp]
  /\ ~up => consumed = {} /\ \A w \in Workers : task[w] = Idle
  /\ history \in [missed : SUBSET ((DOMAIN polls) \X Users), stray : SUBSET DOMAIN polls,
                  dropped : SUBSET DOMAIN polls, failed : SUBSET (Chats \X Days),
                  on : SUBSET (Chats \X Days), life : Nat]
  /\ budget \in [BudgetKinds -> Nat]

Can(event) == budget[event] > 0
Spend(event) == budget' = [budget EXCEPT ![event] = @ - 1]

\* LunchPollPublisher._active_users_available_for_lunch
Available == active \ away

\* The rows of polls of some kinds in a chat and for a day.
RowsFor(c, d, kinds) ==
  {i \in DOMAIN rows :
     polls[rows[i]].chat = c /\ polls[rows[i]].day = d /\ polls[rows[i]].kind \in kinds}

\* Mutant: the oldest row.
LatestOldest(c, d, kinds) ==
  LET mine == RowsFor(c, d, kinds) IN IF mine = {} THEN {} ELSE {rows[Min(mine)]}

\* PollRepository.latest_for_kinds: the newest row, as a set of at most one poll.
Latest(c, d, kinds) ==
  LET mine == RowsFor(c, d, kinds) IN IF mine = {} THEN {} ELSE {rows[Max(mine)]}

\* PollRepository.list_active_users_with_any_option
ActiveVoters(p, options) ==
  {u \in active : \E o \in options : <<p, u, o>> \in votes}

\* LunchAttendanceService.list_office_users
OfficeUsers(c, d) ==
  (UNION {ActiveVoters(p, {"office"}) : p \in Latest(c, d, {Attendance})})
    \cup (UNION {ActiveVoters(p, {"place", "other"}) : p \in Latest(c, d, PlaceKinds)})

-----------------------------------------------------------------------------
(* The local state of a coroutine after the code between two awaits *)

Become(w, local) == task' = [task EXCEPT ![w] = local]

\* A new handler; which of the idle names it gets makes no difference.
Handle(local) ==
  LET free == {h \in Handlers : task[h] = Idle} IN
  free # {} /\ Become(CHOOSE h \in free : TRUE, local)

Record(field, more) == history' = [history EXCEPT ![field] = @ \cup more]

\* The loop over chats in run_due_lunch: publish() in the first of `todo`.  Without invitees it
\* returns SKIPPED_NO_INVITEES at once, in that chat and in all that follow.
PublishIn(todo, chats, d) ==
  IF todo = {} \/ Available = {} THEN Idle
  ELSE [pc |-> "announce", chat |-> Min(todo), auto |-> TRUE,
        place |-> PlaceKind("automatic", d), day |-> d, sent |-> 0,
        chats |-> chats, todo |-> todo \ {Min(todo)}]

Skipped(todo) == IF Available = {} THEN todo \X {day} ELSE {}

\* _clear_saved_lunch_pins from the chats `todo` on: a chat without a saved pin needs no call.
\* After the last of them the working day is looked up and the publications start.
ClearPins(todo, chats, d) ==
  LET saved == {c \in todo : pin[c] # 0} IN
  IF saved # {}
    THEN [pc |-> "clear", chat |-> Min(saved), auto |-> TRUE,
          place |-> PlaceKind("automatic", d), day |-> d, sent |-> 0,
          chats |-> chats, todo |-> {c \in saved : c > Min(saved)}]
    ELSE IF d \in workdays THEN PublishIn(chats, chats, d) ELSE Idle

\* The same, as what `history` learns of chats passed over.
ClearSkips(todo, chats, d) ==
  IF d \in workdays /\ {c \in todo : pin[c] # 0} = {} THEN Skipped(chats) ELSE {}

\* What follows publish() in one chat, whether it returned or raised TelegramAPIError.
NextChat(t) == IF t.auto THEN PublishIn(t.todo, t.chats, t.day) ELSE Idle
NextSkips(t) == IF t.auto THEN Skipped(t.todo) ELSE {}

-----------------------------------------------------------------------------
(* The daily job *)

\* LunchSchedulerService.run_due_lunch up to its first call.
StartRun ==
  /\ up /\ due /\ task["job"] = Idle
  /\ due' = FALSE
  /\ Become("job", ClearPins(enabled, enabled, day))
  /\ history' = [history EXCEPT !.failed = @ \cup ClearSkips(enabled, enabled, day),
                                !.on = @ \cup enabled \X {day}]
  /\ UNCHANGED <<day, up, database, world, consumed, telegram, updates, budget>>

\* A bot that is down at 11:30 does not make up for it: the cron job looks ahead only.
MissRun ==
  /\ ~up /\ due
  /\ due' = FALSE
  /\ UNCHANGED <<day, up, database, world, consumed, task, telegram, updates, history, budget>>

\* Mutant: the row goes without an unpin call.
PinForgotten ==
  LET t == task["job"] IN
  /\ t.pc = "clear"
  /\ pin' = [pin EXCEPT ![t.chat] = 0]
  /\ Become("job", ClearPins(t.todo, t.chats, t.day))
  /\ Record("failed", ClearSkips(t.todo, t.chats, t.day))
  /\ UNCHANGED <<day, due, up, enabled, rows, votes, world, consumed, telegram, updates, budget>>

\* clear_saved_pin after its unpin call: the row goes, whatever became of the pin.
PinCleared ==
  LET t == task["job"] IN
  /\ t.pc = "clear"
  /\ pin' = [pin EXCEPT ![t.chat] = 0]
  /\ LET after == ClearPins(t.todo, t.chats, t.day)
         skips == ClearSkips(t.todo, t.chats, t.day) IN
     /\ Become("job", after)
     /\ \/ /\ pinned' = pinned \ {pin[t.chat]}
           /\ history' = [history EXCEPT !.failed = @ \cup skips]
           /\ UNCHANGED budget
        \/ /\ Can("reject") /\ Spend("reject")
           /\ history' = [history EXCEPT !.failed = @ \cup skips,
                                         !.stray = @ \cup ({pin[t.chat]} \cap pinned)]
           /\ UNCHANGED pinned
  /\ UNCHANGED <<day, due, up, enabled, rows, votes, world, consumed, polls, cast, updates>>

-----------------------------------------------------------------------------
(* Publication *)

\* /lunch: publish() with mode MANUAL, up to the announcement.
PublishCommand(c, selection) ==
  /\ up /\ Can("command") /\ Spend("command")
  /\ Handle([pc |-> "announce", chat |-> c, auto |-> FALSE,
             place |-> PlaceKind(selection, day), day |-> day, sent |-> 0,
             chats |-> {}, todo |-> {}])
  /\ UNCHANGED <<day, due, up, database, world, consumed, telegram, updates, history>>

\* The announcement was sent.
Announced(w) ==
  /\ task[w].pc = "announce"
  /\ Become(w, [task[w] EXCEPT !.pc = "attend"])
  /\ UNCHANGED <<day, due, up, database, world, consumed, telegram, updates, history, budget>>

\* Telegram shows the poll of a send_poll call; the answer is still on its way.
PollAppears(w) ==
  LET t == task[w] IN
  /\ t.pc \in {"attend", "place", "follow"} /\ t.sent = 0
  /\ polls' = Append(polls,
       [chat |-> t.chat, day |-> t.day, auto |-> t.auto, life |-> history.life,
        kind |-> CASE t.pc = "attend" -> Attendance [] t.pc = "place" -> t.place
                   [] OTHER -> OtherFood,
        parent |-> IF t.pc = "follow" THEN t.parent ELSE 0])
  /\ Become(w, [t EXCEPT !.sent = Len(polls) + 1])
  /\ UNCHANGED <<day, due, up, database, world, consumed, pinned, cast, updates, history, budget>>

\* send_poll returns: register_poll, then the code up to the next call.
PollReturns(w) ==
  LET t == task[w] IN
  /\ t.pc \in {"attend", "place", "follow"} /\ t.sent # 0
  /\ rows' = Append(rows, t.sent)
  /\ CASE t.pc = "attend" ->
            /\ Become(w, IF t.auto THEN [t EXCEPT !.pc = "pin"]
                         ELSE [t EXCEPT !.pc = "place", !.sent = 0])
            /\ UNCHANGED history
       [] t.pc = "place" -> Become(w, NextChat(t)) /\ Record("failed", NextSkips(t))
       [] OTHER -> Become(w, Idle) /\ UNCHANGED history
  /\ UNCHANGED <<day, due, up, enabled, pin, votes, world, consumed, telegram, updates, budget>>

\* Mutants: the error ends the run; the chat is tried again.
SendEndsRun(w) ==
  LET t == task[w] IN
  /\ t.pc \in {"announce", "attend", "place", "follow"}
  /\ IF t.sent = 0 THEN Can("reject") /\ Spend("reject") ELSE Can("lost") /\ Spend("lost")
  /\ Become(w, Idle)
  /\ IF t.pc = "follow" THEN Record("dropped", {t.parent})
     ELSE Record("failed", IF t.auto THEN {<<t.chat, t.day>>} ELSE {})
  /\ UNCHANGED <<day, due, up, database, world, consumed, telegram, updates>>

SendRetries(w) ==
  LET t == task[w] IN
  /\ t.pc \in {"announce", "attend", "place", "follow"}
  /\ IF t.sent = 0 THEN Can("reject") /\ Spend("reject") ELSE Can("lost") /\ Spend("lost")
  /\ Become(w, IF t.auto THEN PublishIn(t.todo \cup {t.chat}, t.chats, t.day) ELSE Idle)
  /\ UNCHANGED <<day, due, up, database, world, consumed, telegram, updates, history>>

\* The announcement or a poll raises TelegramAPIError, before or after it took effect.  The job
\* goes on with the next chat; the error of a command or of a poll answer ends its handler.
SendFails(w) ==
  LET t == task[w] IN
  /\ t.pc \in {"announce", "attend", "place", "follow"}
  /\ IF t.sent = 0 THEN Can("reject") /\ Spend("reject") ELSE Can("lost") /\ Spend("lost")
  /\ IF t.pc = "follow"
       THEN Become(w, Idle) /\ Record("dropped", {t.parent})
       ELSE /\ Become(w, NextChat(t))
            /\ Record("failed", NextSkips(t) \cup (IF t.auto THEN {<<t.chat, t.day>>} ELSE {}))
  /\ UNCHANGED <<day, due, up, database, world, consumed, telegram, updates>>

\* replace_pin: the row is written only when the call says it succeeded.  The unpin of a pin saved
\* before is never reached: the run has cleared the row of every chat of its list (PinsTracked).
NewPinned ==
  LET t == task["job"] IN
  /\ t.pc = "pin"
  /\ Become("job", [t EXCEPT !.pc = "place", !.sent = 0])
  /\ \/ /\ pinned' = pinned \cup {t.sent}
        /\ pin' = [pin EXCEPT ![t.chat] = t.sent]
        /\ UNCHANGED <<history, budget>>
     \/ Can("reject") /\ Spend("reject") /\ UNCHANGED <<pinned, pin, history>>
     \/ /\ Can("lost") /\ Spend("lost")
        /\ pinned' = pinned \cup {t.sent}
        /\ Record("stray", {t.sent})
        /\ UNCHANGED pin
  /\ UNCHANGED <<day, due, up, enabled, rows, votes, world, consumed, polls, cast, updates>>

-----------------------------------------------------------------------------
(* Votes *)

\* A user answers or retracts an answer; Telegram queues the update, also while the bot is down.
Vote(u, p, chosen) ==
  /\ Can("vote") /\ Spend("vote")
  /\ p \in DOMAIN polls /\ u \in Voters[polls[p].chat] /\ chosen \in Ballots[polls[p].kind]
  /\ LET kept == {v \in cast : v[1] # p \/ v[2] # u}
         new  == kept \cup {<<p, u, o>> : o \in chosen} IN
     /\ new # cast
     /\ cast' = new
  /\ inbox' = Append(inbox, [poll |-> p, user |-> u, chosen |-> chosen])
  /\ UNCHANGED <<day, due, up, database, world, consumed, task, polls, pinned, last, history>>

Handled(a) == inbox' = Tail(inbox) /\ last' = <<a>>

\* Mutant: an answer to an unknown poll is stored all the same.
StoreUnknown ==
  LET a == Head(inbox) IN
  /\ up /\ inbox # <<>> /\ a.poll \notin ToSet(rows)
  /\ Handled(a)
  /\ votes' = votes \cup {<<a.poll, a.user, o>> : o \in a.chosen}
  /\ Record("missed", {<<a.poll, a.user>>})
  /\ UNCHANGED <<day, due, up, enabled, pin, rows, world, consumed, task, telegram, budget>>

\* PollAnswerController.handle for a poll nobody has registered.
IgnoreAnswer ==
  LET a == Head(inbox) IN
  /\ up /\ inbox # <<>> /\ a.poll \notin ToSet(rows)
  /\ Handled(a)
  /\ Record("missed", {<<a.poll, a.user>>})
  /\ UNCHANGED <<day, due, up, database, world, consumed, task, telegram, budget>>

\* Mutant: a new answer is added to the old one.
StoreAdded(a) ==
  votes' = votes \cup
    {<<a.poll, a.user, o>> : o \in KnownOptions(polls[a.poll].kind, a.chosen)}

\* consume_action_requests: PollRepository.replace_selected_options, then the actions of the
\* options that are new.  All place polls know one action, consumed once per poll.
StoreAnswer(a) ==
  votes' = {v \in votes : v[1] # a.poll \/ v[2] # a.user}
             \cup {<<a.poll, a.user, o>> : o \in KnownOptions(polls[a.poll].kind, a.chosen)}

NewOptions(a) ==
  {o \in KnownOptions(polls[a.poll].kind, a.chosen) : <<a.poll, a.user, o>> \notin votes}

\* Mutants: an action is consumed for all polls at once; or never.
RequestedByAction(a) ==
  /\ \E o \in NewOptions(a) : HasAction(polls[a.poll].kind, o)
  /\ consumed = {}

RequestedAlways(a) == \E o \in NewOptions(a) : HasAction(polls[a.poll].kind, o)

Requested(a) ==
  /\ \E o \in NewOptions(a) : HasAction(polls[a.poll].kind, o)
  /\ a.poll \notin consumed

\* PollAnswerController.handle for a known poll, up to the send_poll of the follow-up.
HandleAnswer ==
  LET a == Head(inbox) IN
  /\ up /\ inbox # <<>> /\ a.poll \in ToSet(rows)
  /\ Handled(a)
  /\ StoreAnswer(a)
  /\ history' = [history EXCEPT !.missed = @ \ {<<a.poll, a.user>>}]
  /\ IF Requested(a)
       THEN /\ consumed' = consumed \cup {a.poll}
            /\ Handle([pc |-> "follow", chat |-> polls[a.poll].chat, auto |-> FALSE,
                       day |-> polls[a.poll].day, sent |-> 0, parent |-> a.poll])
       ELSE UNCHANGED <<consumed, task>>
  /\ UNCHANGED <<day, due, up, enabled, pin, rows, world, telegram, budget>>

-----------------------------------------------------------------------------
(* Switches, users, days, the process *)

\* /lunch_auto_on and /lunch_auto_off; the reply that follows changes nothing.
SwitchOn(c) ==
  /\ up /\ Can("switch") /\ Spend("switch")
  /\ c \notin enabled /\ enabled' = enabled \cup {c}
  /\ UNCHANGED <<day, due, up, pin, rows, votes, world, consumed, task, telegram, updates, history>>

SwitchOff(c) ==
  /\ up /\ Can("switch") /\ Spend("switch")
  /\ c \in enabled /\ enabled' = enabled \ {c}
  /\ UNCHANGED <<day, due, up, pin, rows, votes, world, consumed, task, telegram, updates, history>>

\* A user goes on vacation or switches lunch calls off, and comes back.
AbsenceChanges(u) ==
  away' = (IF u \in away THEN away \ {u} ELSE away \cup {u}) /\ UNCHANGED active

\* A user quits, and is registered and approved again.
StatusChanges(u) ==
  active' = (IF u \in active THEN active \ {u} ELSE active \cup {u}) /\ UNCHANGED away

\* What the commands of the other components change meanwhile.
UserChanges(u) ==
  /\ Can("away") /\ Spend("away")
  /\ AbsenceChanges(u) \/ StatusChanges(u)
  /\ UNCHANGED <<day, due, up, database, groups, workdays, consumed, task, telegram, updates, history>>

\* Midnight.  A run is over long before: every call has a timeout.
NewDay ==
  /\ Can("day") /\ Spend("day") /\ day < LastDay /\ ~due /\ task["job"] = Idle
  /\ day' = day + 1 /\ due' = TRUE
  /\ UNCHANGED <<up, database, world, consumed, task, telegram, updates, history>>

\* Polls whose pinning a crash cuts short, having taken effect or not.
CutPin == IF task["job"].pc = "pin" THEN {task["job"].sent} ELSE {}

\* The chats the job has not served: all of them while it clears pins.
CutRun ==
  LET t == task["job"] IN
  IF t.pc = "idle" THEN {}
  ELSE IF t.pc = "clear" THEN t.chats \X {t.day}
  ELSE (t.todo \cup {t.chat}) \X {t.day}

CutFollowUps == {task[w].parent : w \in {h \in Handlers : task[h].pc = "follow"}}

\* The process stops.  What it has in memory is lost; of the calls in flight a poll appears or not
\* before (PollAppears), a pin or unpin may have taken effect; the answer handled last may not be
\* confirmed to Telegram yet and is then delivered again.
Crash ==
  /\ up /\ Can("crash") /\ Spend("crash")
  /\ up' = FALSE
  /\ consumed' = {}
  /\ task' = [w \in Workers |-> Idle]
  /\ \/ UNCHANGED pinned
     \/ task["job"].pc = "pin" /\ pinned' = pinned \cup CutPin
     \/ task["job"].pc = "clear" /\ pinned' = pinned \ {pin[task["job"].chat]}
  /\ history' = [history EXCEPT !.stray = @ \cup CutPin,
                                !.failed = @ \cup CutRun,
                                !.dropped = @ \cup CutFollowUps,
                                !.life = @ + 1]
  /\ inbox' \in {inbox, last \o inbox}
  /\ last' = <<>>
  /\ UNCHANGED <<day, due, database, world, polls, cast>>

\* main.run: the job is registered for the next 11:30.
Restart ==
  /\ ~up /\ up' = TRUE
  /\ UNCHANGED <<day, due, database, world, consumed, task, telegram, updates, history, budget>>

\* The model stops after the last day.
Rest ==
  /\ (day = LastDay \/ ~Can("day")) /\ ~due /\ up /\ inbox = <<>> /\ \A w \in Workers : task[w] = Idle
  /\ UNCHANGED vars

-----------------------------------------------------------------------------
(* The specification *)

\* An installation in use: some chats switched on, everybody active and present.
Init ==
  /\ day = 1 /\ due = TRUE /\ up = TRUE
  /\ \E s \in Scenarios :
       groups = s.groups /\ enabled = s.auto /\ workdays = s.work /\ budget = s.budget
  /\ pin = [c \in Chats |-> 0]
  /\ rows = <<>> /\ votes = {} /\ polls = <<>> /\ pinned = {} /\ cast = {}
  /\ active = Users /\ away = {}
  /\ consumed = {}
  /\ task = [w \in Workers |-> Idle]
  /\ inbox = <<>> /\ last = <<>>
  /\ history = [missed |-> {}, stray |-> {}, dropped |-> {}, failed |-> {}, on |-> {}, life |-> 0]

CallReturns(w) == Announced(w) \/ PollAppears(w) \/ PollReturns(w) \/ SendFails(w)
JobStep == StartRun \/ PinCleared \/ NewPinned
Answer == IgnoreAnswer \/ HandleAnswer

Next ==
  \/ JobStep \/ MissRun
  \/ \E w \in Workers : CallReturns(w)
  \/ \E c \in groups, s \in Selections : PublishCommand(c, s)
  \/ \E u \in Users, p \in DOMAIN polls : \E chosen \in Ballots[polls[p].kind] : Vote(u, p, chosen)
  \/ Answer
  \/ \E c \in groups : SwitchOn(c) \/ SwitchOff(c)
  \/ \E u \in Users : UserChanges(u)
  \/ NewDay \/ Crash \/ Restart \/ Rest

Spec == Init /\ [][Next]_vars

\* aiogram's client gives up a call after a minute, so every call returns; the event loop runs the
\* code after it, and a started job to its end.
Fairness == WF_vars(JobStep) /\ \A w \in Workers : WF_vars(CallReturns(w))

FairSpec == Spec /\ Fairness

-----------------------------------------------------------------------------
(* Properties *)

Publishing(t) == t.pc \in {"announce", "attend", "pin", "place"}

\* Every lunch poll that a chat shows as pinned is the one saved for the chat, unless a pin or
\* unpin of that poll failed or was cut short; once the job publishes, no chat of its list still
\* shows a pin of an earlier day; and a new pin never replaces one (replace_pin and
\* clear_saved_pin, across their awaits).
PinsTracked ==
  /\ \A p \in pinned \ history.stray : pin[polls[p].chat] = p
  /\ Publishing(task["job"]) =>
       \A p \in pinned \ history.stray :
         polls[p].chat \in task["job"].chats => polls[p].day = day
  /\ task["job"].pc = "pin" => pin[task["job"].chat] = 0

Pending(p, u) == \E i \in DOMAIN inbox : inbox[i].poll = p /\ inbox[i].user = u

Chosen(p, u) == {o \in Options : <<p, u, o>> \in cast}

\* What the database holds of a user's vote in a registered poll is what Telegram shows, without
\* options added by users, unless an answer is still to be handled or came before the poll was
\* registered (send_poll registers after the call, replace_selected_options replaces).
VotesStored ==
  \A p \in ToSet(rows) : \A u \in Voters[polls[p].chat] :
    \/ {o \in Options : <<p, u, o>> \in votes} = KnownOptions(polls[p].kind, Chosen(p, u))
    \/ Pending(p, u)
    \/ <<p, u>> \in history.missed

FollowUps(p) == {q \in DOMAIN polls : polls[q].parent = p}

\* A place poll has at most one follow-up poll for each life of the process: the action is marked
\* as consumed before the call, not after it.
FollowUpOnce ==
  \A p \in DOMAIN polls : \A q1, q2 \in FollowUps(p) :
    polls[q1].life = polls[q2].life => q1 = q2

\* A place poll in which somebody's stored choice is "other" has its follow-up poll, or it is being
\* sent, or sending it failed or was cut short: an action consumed for one poll is not consumed
\* for another one, nor by an answer that does not start it.
OtherIsFollowed ==
  \A p \in ToSet(rows) :
    (polls[p].kind \in PlaceKinds /\ \E u \in Users : <<p, u, "other">> \in votes) =>
      \/ FollowUps(p) # {}
      \/ \E w \in Handlers : task[w].pc = "follow" /\ task[w].parent = p
      \/ p \in history.dropped

\* The newest of a chat's registered polls of some kinds, judged by what Telegram shows.
Newest(c, d, kinds) ==
  LET shown == {p \in ToSet(rows) : polls[p].chat = c /\ polls[p].day = d /\ polls[p].kind \in kinds}
  IN  IF shown = {} THEN {} ELSE {Max(shown)}

ComesToOffice(u, c, d) ==
  \/ \E p \in Newest(c, d, {Attendance}) : "office" \in Chosen(p, u)
  \/ \E p \in Newest(c, d, PlaceKinds) : Chosen(p, u) \cap {"place", "other"} # {}

InOrder(s) == \A i, j \in DOMAIN s : i < j => s[i] < s[j]

\* Once all answers are handled, none came too early, and the polls were registered in the order
\* they were sent, those the bot takes to be in the office (and mentions for coffee) are the active
\* users who say so in the day's newest polls.
AttendeesTold ==
  (inbox = <<>> /\ history.missed = {} /\ InOrder(rows)) =>
    \A c \in Chats, d \in Days :
      OfficeUsers(c, d) = {u \in active \cap Voters[c] : ComesToOffice(u, c, d)}

\* The job sends a chat at most one attendance poll a day, whatever fails or restarts, and only if
\* the chat was switched on at 11:30: the list read then is stale for one run at most.
AutoOncePerDay ==
  \A p \in DOMAIN polls : (polls[p].auto /\ polls[p].kind = Attendance) =>
    /\ <<polls[p].chat, polls[p].day>> \in history.on
    /\ \A q \in DOMAIN polls :
         (polls[q].auto /\ polls[q].kind = Attendance /\ polls[q].chat = polls[p].chat
            /\ polls[q].day = polls[p].day) => q = p

Served(c, d) ==
  \E p \in DOMAIN polls : polls[p].auto /\ polls[p].chat = c /\ polls[p].day = d

InRun(c, d) == task["job"].pc # "idle" /\ c \in task["job"].chats /\ task["job"].day = d

\* On a working day every chat of a started run gets its attendance poll, or its own calls failed,
\* nobody was to be invited, or the process stopped: a chat whose calls fail costs the others
\* nothing (the except clause in run_due_lunch).
ChatsServed ==
  \A c \in Chats, d \in Days :
    (InRun(c, d) /\ d \in workdays) ~> (Served(c, d) \/ <<c, d>> \in history.failed)

=============================================================================
