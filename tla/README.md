# FoodBot: a TLA+ verification project

FoodBot (`src/`) is a Telegram bot for office lunches and coffee breaks: one Python process,
aiogram for Telegram, SQLite for what must survive, APScheduler (in memory) for what must happen
later. All code runs on one asyncio event loop, so it is interrupted only where it awaits; almost
every await is a call to Telegram or Splitwise. What is hard to get right, and hard to test, is
what other handlers and jobs do during those awaits, and what a crash leaves behind.

## Inventory

| Component (under `src/src/office_food_bot/`) | State it keeps | Operations | Interacts with | Hard behaviour |
| --- | --- | --- | --- | --- |
| Coffee sessions (`features/coffee`) | rows `coffee_sessions` and participants, one lock per chat | `/coffee <time>`, join, leave, completion, countdown, recovery, retry | scheduler (jobs), messenger (card, pin, messages), users, preferences, attendance | interleaving at awaits, failed and lost calls, crashes, late jobs |
| Job scheduler (`infrastructure/scheduler.py`) | jobs, in memory | `add_date`, `add_daily_cron`, `remove` | coffee, lunch | jobs lost at a crash, late jobs dropped, one running instance |
| Messenger (`messaging.py`) | none (the chat is Telegram's) | send, edit or send, try_..., pin, unpin, polls | Telegram | a call that fails, or takes effect and still raises |
| Lunch (`features/lunch`, `commands/lunch*.py`) | `lunch_pins`, `lunch_auto_chats` | publish, automatic run at 11:30, switch on and off | scheduler, messenger, polls, vacation, invitations | half-published polls, stale list of chats, forgotten pins |
| Poll tracking (`features/polls`) | `polls`, votes; follow-up actions already taken (memory) | register, vote | lunch, Telegram poll answers | a vote before registration, follow-ups after a restart |
| Flows (`flows`) | FSM session per chat and user (memory) | start, message, cancel, abort | registration, commands | messages handled while a step awaits |
| Registration (`features/registration`, `infrastructure/persistence`) | `users`, accounts, Splitwise links, requests, preferences | register, complete, approve, quit, request | flows, Splitwise | several transactions per save, approval of who has quit |
| Command access and dispatch (`commanding`, `commands/router.py`, `features/debug`) | debug mode per admin; menus, kept by Telegram | which command is shown to and accepted from whom, `/debug` | all commands | agreement of help, menus and access; menu calls that overlap, fail or are cut off |
| Vacation, invitations (`features/vacation`, `features/invitations`) | one row per user | set, clear, toggle | lunch, coffee | dates at a boundary |
| Presence (`features/presence`, `/meta`, `/eta`) | none | one reply | - | days and years in a short reply |
| Balance (`features/balance`, `integrations`) | none | one reply | Splitwise | none beyond a failed call |
| Database, migrations (`database`) | schema and its version | migrate at start | all repositories | a crash between a script and its version |
| Configuration, guard, previews, tooling | settings read once | - | - | - |

What makes each of them correct:

* **Coffee**: a chat has one open meeting; a meeting that ended stays ended; those called are those
  who had joined when it closed; it is called at its time and once; card, pin, row and job agree
  between operations; nothing is forgotten over a crash; every meeting ends.
* **Lunch and polls**: at most one lunch pin per chat that the bot knows of; a vote counts once; the
  second poll is started once; an automatic run respects the switch and the calendar.
* **Registration**: only an approval makes a pending user active; a user who quit is not revived by a
  message of an old conversation; a saved registration is complete or absent.
* **Migrations**: after any number of crashes and restarts the schema is that of its version, and
  nothing that was stored is gone.
* **Access**: what help and menus show is what is allowed; nothing is announced from a private chat.
* **Dates and times**: a command means the day and time its words mean.

`PROJECT.json` lists every component, hazard (at the line where it bites) and run.

## Plan

Most important first. All of it is done: every safety property a passing run checks is also proved.

1. `CoffeeSession` (the code of coffee meetings), `MCCoffee`; `CoffeeSession_proofs`: types, locks
   and what is final; `CoffeeJobs_proofs`: jobs; `CoffeeCards_proofs`: cards and pins. **Done.**
2. `CoffeeMeeting` (what is promised) and `CoffeeRefinement` (the code implements it); in
   `CoffeeSession_proofs`: the refinement, and how often a meeting is called. **Done.**
3. `RegistrationFlow` (conversation, service and persistence of registrations as concurrent handlers),
   `UserLife` (what is promised about a user), `MCRegistration`; `RegistrationFlow_proofs`: every
   safety property and the refinement. **Done.**
4. `LunchPolls` (publication, pins, the daily job, polls and votes), `MCLunch`; `LunchPolls_proofs`:
   types, pins, the daily run, follow-ups, votes and who is told to be in the office. **Done.**
5. `MigrationScripts` (the SQL scripts) and `MigrationRunner` (versions, stops, releases),
   `MCMigration`; `MigrationRunner_proofs`: types, order of versions, tables and facts. **Done.**
6. `CommandAccess` (help, menus, access) and `OfficeCalendar` (vacations, coffee times, arrivals),
   `MCCalendar`; `CommandAccess_proofs`: help, announcements and menus; `OfficeCalendar_proofs`: dates,
   who is away, meetings and arrivals. **Done.**

What stays with TLC alone is liveness: `MeetingsEnd`, `Announced`, `ChatsServed` and `UpgradeEnds`.

The modules share no variable: components interact through the database (users, preferences), which
each module shows as the changes the others may make, at any time (`UserChanges` in `LunchPolls`).

## The coffee model

`CoffeeSession` counts time in whole minutes. A step is the code between two awaits.

| In the code | In the model |
| --- | --- |
| a row of `coffee_sessions` with its participants | `rows[s]`, a record; `s` is the id. An SQL statement is an operator on such a record (`Reschedule`, `MarkCompleting`, ...) with the guard of its WHERE |
| APScheduler's job store | `jobs`: records keyed by kind and session; `AddDate` replaces, as `replace_existing` does |
| `CoffeeChatLocks` | `lock[c]`: the coroutine that holds the lock of chat `c`, with the call it awaits (`pc`) and its local variables `previous_session` (`old`) and `session` (`cur`); `queue[c]`: those that wait, in order, as in `asyncio.Lock` |
| the chat as Telegram shows it | `cards` (time and participants shown, buttons, pin, deleted or not) and `pings` (calls that reached the chat) |
| the clock, the process | `now`, `up` |

Each `Start...` action is a coroutine that takes the lock up to its first call to Telegram. The
others are the return of a call, with the code that follows it: `CardPublished`/`CardFails` for
`_publish_card` and its except clauses, `UnpinOld` and `Pin` for `replace_pin`, `CompleteUnpin`,
`CompleteClose`, `ReadySent`, `ReadyFails` for `complete`. `FireJob` is the scheduler starting a
job; `DiscardJob` is the scheduler dropping one (APScheduler 3.11 drops a date job that is more than
a second late or whose previous run has not ended). `Crash` loses everything in memory, and a call
in flight may or may not take effect; `Restart` is `restore_jobs`, which the bot runs before the
scheduler and the polling start.

A Telegram call may fail without effect ("reject") or take effect while its caller sees an error
("lost"). `try_` calls swallow the error; for those whose result nobody reads, only "reject" is
distinguished.

Simplifications: one restart refuses at most one pin; a tap that is refused before the lock, the
status command and the wording of messages are left out because they change nothing; the extra
message to office users (`send_shout`) has no effect the properties tell apart; users are registered
and active, and stay so.

### What is promised

`CoffeeMeeting` knows no locks, jobs or restarts: a meeting is open, closing, then held or dropped;
attendees change only while it is open; it is held only after a call reached the chat, or with
nobody to call. `CoffeeRefinement` maps each row to such a meeting.

### Runs

All bounds are constants of the module: `Horizon` (latest time a proposal can name), `MaxTime` (where
the clock stops) and `Budget` (how often each kind of event may happen: commands, taps, refused and
lost calls, crashes, deleted cards). The number of messages, rows and jobs follows from them. Users
are interchangeable, so `coffee_chat` uses them as a symmetry set. Chats
share no lock, row or job, and the inductive invariant is proved for any number of them, so one is run.

| Run | Instance | Checks |
| --- | --- | --- |
| `coffee_chat` | 1 chat, 2 users, times to 2, clock to 3; 2 commands, 2 taps, 1 refusal, 1 deletion | `JobNotBeforeMeeting`, `CardNotAhead`, `PinFollowsMeeting`, `TerminalIsFinal`, `ParticipantsFrozen` |
| `coffee_restart` | 1 chat, 1 user, clock to 9; 2 commands, 1 lost answer, 2 crashes | `IInv` (with `TypeOK`), `OneOpenPerChat`, `NoMeetingForgotten`, `CompletedCardIsClosed`, and `MeetingsEnd` under `FairSpec` |
| `coffee_retry` | 1 chat, 2 users, clock to 9; 1 command, 1 tap, 4 refusals, 1 lost answer, 1 crash; symmetric users | `CalledAtMostOnce`, `CompletedMeansCalled`, `KeepsPromise` (refinement of `CoffeeMeeting`) |

Why these bounds are enough: two commands give a meeting and its reschedule, or two proposals that
race; two taps give a tap that waits behind every other operation. A meeting at minute 1 or 2 is
retried until minute 7 at the latest and expires after minute 7, so a clock to 9 covers every retry
and every late restart. Four refusals exhaust the three retries. The branch of the countdown for
meetings more than an hour away lies outside these bounds.

`MeetingsEnd` assumes weak fairness of `SystemStep` as a whole: calls to Telegram return (aiogram's
client has a timeout), the event loop runs due jobs and waiting coroutines, time passes and systemd
restarts the bot (`Restart=on-failure`). No fairness is assumed of users or of failures. The clock
stops at `MaxTime`, where the model idles; a meeting must have ended by then.

Each property has a mutant in the module: a plausible slip in the code (an unchecked status, a
stale list, a missing job) under which TLC finds the property violated.

### Where documentation and code differ

The run `coffee_early` checks a sentence of `src/README.md` (lines 58-63), "At the chosen time the
bot ... mentions current participants", and ends in a counterexample. If the meeting is moved while
its old completion job is due, that job waits for the lock and then completes the meeting at once,
before its new time (`jobs.py:76-88` looks at the status only).

Four more differences are consequences of single statements and have no run:

* A new time "keeps its participants". When the card of a reschedule cannot be published, the
  compensation (`session.py:92-100`) adds the previous proposer again, who may have left.
* "Scheduled coffee jobs are restored after a bot restart". A job restored for "now" can be late by
  the time the scheduler starts, and is then discarded (`jobs.py:50`).
* "A new `/coffee` time edits the existing meeting". A session left in creation by a crash is adopted
  by the next `/coffee`, whose time is ignored (`queries.py:42-51` requires `active`).
* A meeting found more than five minutes late is marked expired in the database only, and its card
  keeps buttons and pin although the README says a card loses them when its time arrives
  (`jobs.py:52-61`).

The properties that pass say what holds nevertheless, with the exception named in each: `missed` is
the set of sessions whose job was discarded, `JobNotBeforeMeeting` and `CardNotAhead` are about the
states between operations.

## The registration model

`RegistrationFlow` is about what survives a conversation. aiogram handles every update in a task of
its own, and the flow session is a value in `MemoryStorage` whose calls do not suspend, so a handler
runs without interruption up to the first call to Splitwise or Telegram. A step is such a piece.

| In the code | In the model |
| --- | --- |
| `users`, `splitwise_users`, `user_invitation_preferences`, `registration_requests` | `status` ("none" without a row) and `name`, `link`, `prefs`, `requests` |
| `FlowSession` with its `RegistrationDraft` | `session[a]`, for the user `a` who types; `target` is whom it registers |
| a handler that awaits Splitwise, with the draft it read | `tasks[t]` of kind "lookup" |
| a handler that sends the reply and then `RegistrationAdminNotification` | `tasks[t]` of kind "notice", with the data it will show |
| what the admins have read | `told`: users whose data as it stands was sent |

`RegistrationFlowUseCase.complete` is `Complete`, one operator for each `RegistrationKind`. `Save` is
`_save_pending_registration`: all of it, the violated key of `splitwise_users` after the first
transaction (`SaveClashes`), or an end of the process between two transactions (`SaveStops`).
`Continue` is the second half of the Splitwise step, run at once for "skip" and after the await
otherwise. `EndSession` is "no", `/cancel`, and every other command, all of which abort the flow first;
commands that are refused change nothing else.

Simplifications: answers that a validator refuses leave the step as it is; the Telegram profile that
each message refreshes, lists and replies are left out; a group chat has no flow of its own (`/register`
is private), so a command there only differs in leaving the session alone; the notices to the single
admins are one step; users pending at the start are already known to the admins. That a notice was
sent is recorded by `told`; a lost reply loses the notices with it, as in `_apply`.

`UserLife` is the promise: only a user who is not blocked is saved as one who waits, data changes
only then, an approval or a departure changes nothing else.

| Run | Instance | Checks |
| --- | --- | --- |
| `reg_calm` | admin and user, 1 name, 1 member, 2 waiting handlers; 3 commands | `DraftsComplete`, `RequestsClosed`, `PendingIsAnnounced`, `ReregistrationConfirmed`, `PreferencesKept` |
| `reg_faults` | the same, the user's row has the role admin; 2 commands, 1 clash, 1 lost notice, 1 crash; no symmetry | `LinksLive`, `KeepsUserLife` (refinement of `UserLife`), `Announced` under `FairSpec` |

Every pair of statuses is an initial state, so one conversation meets each of them, and two
conversations and a third command (an approval, a departure, a toggle) meet between any two of their
steps. One name is enough: data changes also when a member is chosen or given up, and this tells an
update from a repetition; two waiting handlers are two notices, or a lookup and a notice, that
overtake each other; a member is free or taken. Messages of a conversation are not
bounded: every one of them moves it on. The runs end when the commands are used up, so deadlock is
not checked.

`Announced` assumes weak fairness of `Announce` only: a call to Telegram returns.

The run `reg_cancelled` ends in a counterexample to a test: `/cancel` ends a conversation; a handler
that waits for Splitwise writes its draft back afterwards (`runner.py:62`).

Three more differences follow from single statements and have no run: when the Splitwise member of
an updated request belongs to somebody else, name and status are saved before the key is violated,
and no notice to the admins follows (`users.py:103`); `/approve` "approves a pending user" but
activates anyone with a row, also one who quit or was rejected (`users.py:183`); who returns from
`/quit` is asked for preferences, but an open confirmation of an admin brings them back without
(`use_case.py:188`).

## The lunch model

`LunchPolls` covers `features/lunch` and `features/polls`: what the job of 11:30 and `/lunch` send, and
what becomes of the answers.

| In the code | In the model |
| --- | --- |
| `lunch_auto_chats`, `lunch_pinned_messages` | `enabled` (the rows with 1) and `pin` (a poll, or 0) |
| `polls`, `poll_selected_options` | `rows`, in the order of `rowid`, and `votes` |
| `PollTrackingService._consumed_actions` | `consumed`, lost at a crash |
| a coroutine at an await, with its local variables | `task[w]`: the job, or one of the `Handlers` |
| Telegram | `polls` (all that were sent), `pinned`, `cast` (the choices it shows), `inbox` (updates not yet handled) |

`StartRun` is `run_due_lunch` up to its first call, `PinCleared` an `unpin` of
`_clear_saved_lunch_pins`, then each chat of the list read at the start goes through `Announced`,
`PollAppears`, `PollReturns` and `NewPinned`. Between `PollAppears` and `PollReturns` the chat sees the
poll and its answers arrive, but the poll has no row. `SendFails` is any of these calls raising,
before or after it took effect. `HandleAnswer` stores a vote and, for the first vote for "other",
starts the follow-up poll; `IgnoreAnswer` drops a vote for a poll without a row. `Crash` may deliver
the answer handled last once more. `UserChanges` is what the other components do meanwhile: a user
goes on vacation or switches lunch calls off, and comes back (`AbsenceChanges`), or quits, and is
registered and approved again (`StatusChanges`).

`history` remembers the failures the properties except: votes that came before their poll was
registered (`missed`), polls whose pin or unpin failed (`stray`), follow-ups that were not sent
(`dropped`), chats the run could not serve (`failed`).

| Run | Instance | Checks |
| --- | --- | --- |
| `lunch_days` | 2 chats, 2 users, 2 days, 2 handlers, in four scenarios | `PinsTracked`, `VotesStored`, `FollowUpOnce`, `OtherIsFollowed`, `AttendeesTold`, `AutoOncePerDay`, and `ChatsServed` under `FairSpec` |

The scenarios share out the events, so that those that interact meet and the rest is absent:
a publication by command beside the job, with two votes; two votes around a restart, a lost answer
and a user who leaves; two runs over two chats with a refused call, a lost call, a switch
and a crash; and a holiday, on which the pins of the day before are cleared and nothing is sent, with
users who leave until there is nobody to invite.
Two chats suffice for one chat's failure to cost the other something; two votes for a retraction, a
change of mind, or two users who want "other". One follow-up is awaited at a time and a second poll
may start another, hence two handlers.

`ChatsServed` assumes weak fairness of the job's steps and of the returns of calls: aiogram's client
gives up a call after a minute, so it returns or raises. Nothing is assumed of users or failures.

Read from the model, and not contradicted by any document: a chat switched off during a run is served
once more, and keeps its pin until it is switched on again; the pin of a poll whose `unpin` failed
stays for good, since its row is gone; when the place poll fails, the attendance poll stays alone, in
that chat only; a vote before the registration is lost until its user votes again; a restart allows a
second follow-up poll; a bot that is down at 11:30 misses the day. The unpin inside `replace_pin` is
never reached, because a run clears the rows of all its chats first.

## The migration model

`MigrationScripts` has the fourteen scripts, statement by statement, on an abstraction of the tables:
a table is absent, or a set of rows, each an identity with at most one foreign key. `Executed` and
`Refused` say what SQLite does with `CREATE`, `INSERT ... SELECT`, `DROP`, `RENAME` and
`PRAGMA foreign_keys`, cascades of a dropped table included. Columns, defaults, checks and indexes are left out.

`MigrationRunner` is `runner.py` with the process around it. `executescript` leaves each statement in
a transaction of its own and the version is committed after the script, so `Statement`, `CheckKeys`
and `RecordVersion` are steps and `Stop` may fall between any two. `Store` is the serving program
writing a row where its release keeps it; `kept` remembers these rows. `Deploy` puts another release in
place, also an older one (`RefuseNewer`); `Restart` is systemd after a failed start.

| Run | Instance | Checks |
| --- | --- | --- |
| `migrations` | 2 identities; releases with 1, 8, 13 and 14 migrations; 2 stops | `IInv` (with `TypeOK`), `ServedSchema`, `DataKept`, and `UpgradeEnds` under `FairSpec` |
| `migration_loss` | the same | `DataSurvives`, violated |

Two identities are an account with and one without a user; the releases are the first, those
that keep facts where a later one no longer looks (seen accounts at 8, coffee settings at 13), and the last.
A stop and a stop in the rerun are two. The database starts empty or as it was before versions,
its keys possibly broken by hand (`orphaned`).

`torn` marks a stop after which the script cannot run again: a plain `CREATE TABLE` was executed,
or a table was dropped and its copy not yet renamed. `ServedSchema`, `DataKept` and `UpgradeEnds` say
that everywhere else a rerun is harmless. `UpgradeEnds` assumes weak fairness of starting, migrating
and restarting (`Restart=on-failure`).

`migration_loss` shows what a torn script can do, against `src/README.md:175`, "Preserve existing data
explicitly when rebuilding a table". The scripts 0002, 0003 and 0006 start with `DROP TABLE IF EXISTS
..._new`. After a stop between `DROP TABLE users` and the renaming of its copy, the only copy is what
that statement discards. The script then fails where it copies, at every restart.

## Commands and menus

`CommandAccess` has the twenty commands with their scopes, help entries, validators and the forms
their resolvers refuse: no argument, "on", "off", another argument, an impossible one. `Outcome` is what
`CommandDispatcher.dispatch` makes of a message, `Effect` what `/lunch` and `/coffee` then do, `HelpShown`
and `Visible` what help and menus show. The state is the debug mode, and Telegram's copies of the
menus: `Start`, `SetMenu` and `SetMenuFails` are start-up, which writes them one by one; `Toggle`,
`Apply`, `Return` and `Refuse` are `/debug`, whose call may overlap another one for the same admin.

| Run | Instance | Checks |
| --- | --- | --- |
| `commands` | 2 people, each admin or not, 2 handlers; 2 toggles, 1 refused call, 2 stops | `HelpIsExact`, `AnnouncedInGroups`, `MenuHonest`, `StartMends` |

Every command, form, chat type and sender is tried in every state. Two people and two handlers let
calls of one admin overlap, and let the admins of two starts differ; two toggles and two stops give
an overlap or a fault, a start that mends it, and a stop in that start. The system may sit idle, so deadlock is not
checked.

`MenuHonest` excepts people in `stray`, whose menu may be out of step; the cases are: the two calls
of two quick `/debug` take effect in the other order, or one is refused (`debug.py:151`); somebody is
no admin any more and keeps the menu of one (`menu.py:69`); an admin opens the chat only after
start-up and has no admin menu before the next start or `/debug` (`menu.py:92`). `StartMends`: a start
that is not cut off writes the menu of every admin whose chat is open.

Three differences have no run. In debug mode the help of a private chat shows "/lunch" with the
words for settings, but it publishes (`lunch.py:158-163`). A private chat that was switched to
automatic lunch in debug mode cannot be switched off without it. A command ends an open conversation
before anybody asks whether the sender may use it (`dispatcher.py:53-67`).

## Dates and times

`OfficeCalendar` is what the bot makes of dates and times: vacations (`ParseVacation`, `Away`), the time
of a meeting (`ParseCoffee`, `AllowedTime`), announced arrivals (`Reply`, `Label`). Dates are ordinals of
the Gregorian calendar; a time zone has an offset that may change once, and local arithmetic is that of
`datetime`: on the clock face, and with `fold` 0. Times are counted in units of which `Minute` are a
minute, since the lead `_is_allowed_time` asks for is a full minute by the second: at 16:29:30, `/coffee
16:30` is refused. TLC counts seconds; the theorems are about any unit. `CoffeeResolution` has every
outcome of the resolver, the errors it raises included: minutes behind the last datetime (`Overflows`,
`LastYear`), and digits such as "²" that `isdigit()` knows and `int()` refuses ("odd").

| Run | Instance | Checks |
| --- | --- | --- |
| `calendar` | 1 user, three days in seconds, 2 vacations; seven scenarios | `DatesUnderstood`, `AwayAsAsked`, `MeetingAsAsked`, `PresenceReads` |

The scenarios are the turns of a calendar: the ends of a year before a leap year and of a leap year, the
ends of February in both, the two changes of clocks in Belgrade, and one back over midnight, where a day
comes twice (`DayComesAgain`): whoever asked on the second day is then away on the first again, which
`AwayAsAsked` allows. Commands run at every half hour, and 60 and 59 seconds before every other hour, so
that a time of day just far enough ahead and one a second too near are both asked for; the last of the
minutes asked for overflow. `LastYear` is the last of `Years` in this run, so that they fit TLC's
integers. Users share nothing here, so one is enough. The properties compare the code with independent
definitions: the first day of that name from today on (`Meant`), what a reader takes a reply for
(`DateRead`, `Within`). The clock stops, so deadlock is not checked.

They also fix where words and code part. `/coffee 15`, `/meta` and `/eta` across a change of clocks are
off by its hour, since minutes are added to a local time (`time.py:45`, `service.py:35`). Minutes too
large for a datetime, and odd digits, are answered with an internal error
(`commanding/errors/handler.py:14-37`) and not with the explanation of the range or the format. A meeting
at `HH:MM` in less than 60 seconds is refused. A `HH:MM` that the clock skips is accepted and means an
hour later. `/vacation 29.02` in the year before a leap year is refused, though the day comes within the
year (`service.py:139`).

## Proofs

`CoffeeSession_proofs` holds for any chats, users, bounds and budgets; it assumes only
`BoundsAssumption` and `BudgetAssumption` (the bounds are naturals).

The inductive invariant is `IInv == Consistent /\ StoppedIsEmpty`:

* `TypeOK`;
* `References`: ids held by jobs and waiting coroutines name rows, and a coroutine waits for the lock
  of its session's chat;
* `LockProtects`: the session of a lock's holder is in that chat and in a status its operation
  allows. This is what keeps the unguarded statements harmless: `mark_terminal` and the
  compensations carry no status guard, so that an ended meeting stays ended follows only from the
  holder's session being unfinished until the holder itself ends it;
* `OneOpenPerChat`: needs `LockProtects`, since a compensation or an activation writes a row by id;
* `StoppedIsEmpty`: with the process down no lock is held, so a restart may rewrite every row.

A step either gives one chat's lock to another operation and rewrites that operation's session
(`SessionStep`, lemma `RowStep`) or touches neither rows nor locks (lemma `QuietStep`); the three
others are `StartNew`, `Crash` and `Restart`. Every action has a lemma that shows it is one of
these. The theorems: `InvariantHolds`, `TypeCorrect`, `OneOpenMeeting`, and, from the same invariant
as action properties, `TerminalRowsFinal` and `ParticipantsFixed`.

`CoffeeJobs_proofs` adds the jobs, under the same assumptions. The invariant is
`JobsInv == IInv /\ HoldersFit /\ Counted /\ NoneForgotten /\ JobsOnTime`:

* `HoldersFit`: what an operation holds in local variables over an await fits the row of its session
  (`Fits`). The code reads the row once, awaits Telegram, and then schedules, compensates or completes
  from what it read; each of the parts below depends on that being still true;
* `Counted`: faults are counted for good, and a bot that is down has crashed, which is what
  `JobNotBeforeMeeting` excuses a late job by;
* `NoneForgotten`: `NoMeetingForgotten` with the kind of job that the status needs. Without the kind it
  is not inductive: a recovery job does nothing for a meeting that is already active;
* `JobsOnTime`: `JobNotBeforeMeeting` in every state. In the middle of a reschedule the job still has
  the old time, which is the time of the row that the operation will put back if the card fails.

A step is one of a lock (`LockStep`, with one lemma for each kind of return), of the scheduler or the
chat around it, a crash or a restart; `JobsStep` joins them. The theorems: `JobsInvariant`,
`MeetingsAttended`, `JobsNeverEarly`.

`CoffeeCards_proofs` adds the cards. The invariant is `JobsInv /\ CardsInv`, where `CardsInv` has

* `Messages`: a message belongs to one session and its chat, so that an edit reaches no other
  session's card; a session in creation has none;
* `OldCardsGone`: a pin is moved only from a card that was found deleted;
* `CardTrue`: `CardNotAhead` in every state: while an edit is awaited the card is compared with the row
  it was made from;
* `PinTrue`: `PinFollowsMeeting` in every state, except for the card whose pin is being changed;
* `CompletionsClose`: how far a completion has closed its card at each of its awaits. A completion
  repeated after a crash starts again from the pin, so what was closed must stay closed.

`CardsStep` shows that every step keeps it; the effect of a call on the cards, whether it is answered,
refused, lost or cut off by a crash, is dealt with once. The theorems: `CardsInvariant`,
`CardsNotAhead`, `PinsFollowMeetings`, `CompletedCardsAreClosed`.

Only model-checked there: the liveness property `MeetingsEnd` (fairness and ENABLED are beyond the
prover).

The second half of `CoffeeSession_proofs` shows, under the same two assumptions, that the code
implements `CoffeeMeeting`. The invariant is `PromiseInv`, which adds three parts to `IInv`:

* `CompletionIsCurrent`: the row a completion holds in `cur` over its awaits is the row as it is
  stored. `ready` writes a row by id and calls those it read before; that nobody joined or left
  meanwhile is a fact about all other operations, which the lock and the status `completing` keep away;
* `CallsAccounted`: a meeting was called once for being completed and once for each lost answer or
  crash. This gives `CalledAtMostOnce`;
* `CompletedMeansCalled`, which is inductive only beside the other two.

Every action is `Quiet`, the step of one session (`SessionMoves`), `StartNew`, `Crash` or `Restart`; each
kind has a lemma that maps it to a step of `CoffeeMeeting` or a stutter. The theorems:
`PromiseInvariant`, `CallsBounded`, `CompletionsCalled`, `SessionsImplementMeetings`.

`RegistrationFlow_proofs` holds for any users, names, members, waiting handlers and budgets; it
assumes `NullsAssumption` (the absent name and member are no name and no member) and
`CommandsAssumption` (the bounds are naturals). The invariant is `RInv == Tables /\ Conversations`:

* `Tables`: types, a name exactly where there is a row, and `LinksLive`;
* `Conversations`: each draft, in a session or in the hands of a waiting handler, has the answers of
  the steps before it, and an open confirmation is never about a blocked user.

The last part is why the refinement needs an invariant at all: `ConfirmYes` saves without looking at
the status, so it is safe only because the question is asked of active users and nothing later blocks
anybody. `LinksLive` needs that a partial save either leaves the link or writes a member found free
in the same transaction (lemmas `LinkSaved`, `LinkUnsaved`). `UserSaved`, `SaveKeeps` and
`CompleteKeeps` deal with the outcomes of `complete`; `ConversationsKept` with everything a step may do to
sessions and tasks. Each group of actions has one lemma that shows the invariant and, at once,
that the tables took a step of `UserLife` or none; `StepKeeps` joins them. The theorems:
`RegistrationInvariant`, `RegistrationTypes`, `DraftsAreComplete`, `LinksAreLive`,
`RegistrationImplementsUserLife`.

A second classification of the steps serves requests, notices and preferences: a step saves a
registration (`Saving`) or is `Quiet` about those who wait (`StepShape`). `Saving` carries what the code has
checked on the way to the save: the status of the target with the step of the conversation, and that
the handler that now carries the notice carried none before. From it follow
`ReregistrationsConfirmed` and `PreferencesAreKept` as action properties, and, with the invariant
`Bookkeeping` (a fault once counted stays counted), `RequestsAreClosed` and `PendingAreAnnounced`.

Only model-checked there: the liveness property `Announced`.

`MigrationRunner_proofs` holds for any identities, releases and number of stops; it assumes
`NoRefAssumption` (no key is no identity), `ReleasesAssumption` (a release has the first of the known
scripts and at most all) and `MaxStopsAssumption`. The invariant is `IInv == TypeOK /\ InOrder /\ CheckedBeforeRecord`:
the migration in progress is the next one, whatever was stopped or put in place before, and from the
check of the keys to the version nothing moves. It rests on two lemmas, that every statement of every
script names tables (`ScriptsTyped`) and that the statement to be executed is one of them
(`NextStatement`). The theorems: `MigrationsInOrder`, `MigrationTypes`, and `VersionsOnlyGrow`, that a
version goes up by one and over keys that hold.

`ServedSchema` and `DataKept` need a second invariant, `SchemaInv`: unless a migration was torn, the
database is `Sound` for the recorded version (its tables, keys that hold, every stored fact where that
version keeps it) whenever no script runs, and `Position` says how far a running script has come:

* the scripts that only add tables leave the database sound at every statement (`Made`);
* a rebuild leaves it sound up to the DROP TABLE and again after the RENAME; from the copy on, what the
  database would be with the copy renamed is sound (`Copying`). Between the two it is not; a stop there
  tears the migration (lemma `TornThere`), and no statement can fail there;
* `0009` and `0014` drop a table for good: before, its rows are among those of the table that takes its
  place (`Merging`).

`Fits` says that no request is stored, since `0009` drops the accounts with live keys, and the DELETE
would cascade to the requests. TLC found the invariant to hold for all fourteen releases before it was
proved. The theorems: `SchemaInvariant`, `SchemaServed`, `FactsKept`.

Only model-checked there: `UpgradeEnds` (liveness).

`LunchPolls_proofs` holds for any chats, users, days, handlers and scenarios; it assumes
`LunchAssumption` (the bounds are naturals, a scenario's automatic chats are among its groups). The
invariant `LInv` has `TypeOK` and one part for each thing a step relies on:

* `TasksRight` and `Unregistered`: what the job and the handlers hold in local variables over an
  await is what the step expects, and the polls they wait for have no row yet and are all
  different. The code never compares them, since Telegram numbers polls; everything below rests on it;
* `PinInv`: `PinsTracked`, and how far the job is: while it clears, only chats ahead of it have a row
  of a pin; while it publishes, none of these has one, and the others' pins are of today;
* `OnceInv`: `AutoOncePerDay`, and nothing was published today in the chats still to be served;
* `FollowInv`: a follow-up of this life of the process comes from an action in `consumed`, and a
  consumed action has its follow-up, or one handler that sends it, or lost it to a refused call;
* `VoteInv`: of the answers that wait, the last of a user about a poll is the choice Telegram shows,
  and the row holds it when none waits. The answer handled last may come again after a crash, which
  is harmless only because it is again the last one.

`LStep` joins the lemmas of the actions. `AttendeesTold` follows from these and from `CastByVoters`, that
only voters of its chat choose in a poll: with nothing missed and the rows in order, the poll the query
picks as the latest is the newest that was sent (`LatestIsNewest`), and its stored options are the chosen
ones (`StoredIsCast`). The theorems: `LunchInvariant`, `LunchTypes`, `PinsAreTracked`, `OncePerDay`,
`OneFollowUp`, `OthersFollowed`, `VotesAreStored`, `AttendeesAreTold`.

Only model-checked there: the liveness property `ChatsServed`.

`CommandAccess_proofs` holds for any people, handlers and bounds; it assumes `AccessAssumption` (people
are finitely many and no scope of a menu) and `UnsetAssumption` (a menu never written is no set of
commands). `HelpExact` and `AnnouncementsInGroups` go through the definitions of the twenty commands
with the two lemmas about them, `DefinitionFacts` and `CheckedDefinitions`, and need no invariant.
`MenusHonest` and `StartMendsMenus` need `MenuInv`: no call of `/debug` is awaited before the bot is up,
start-up has written what is no longer on its list (`QuietUnlessUp`, `OpenedOnly`, `TodoOfAdmins`,
`SharedWritten`, `AdminsWritten`), and everybody outside `stray` is `OnTrack`: at most one call is awaited,
it carries the right menu, and without one the menu is right or about to be written.

`OfficeCalendar_proofs` holds for any users, arguments, days and time zones with one change of clocks;
it assumes `CalendarAssumption` (the years are successive ones from 1 on, as in `datetime`, and hold
every day of a scenario and the 366 after it; local time is less than a day off UTC, as `datetime`
demands; a clock changes by at most a day, more than which no time zone ever did). A minute is any
number of units (`Minute`), so the facts about days rest on division by a number that is not fixed
(`Divide`, `DivOrder`, `DivShift`). It has three layers:

* the calendar: `Civil` is the inverse of `Ordinal` (`CivilFacts`), which needs that the years and the
  months of a year follow each other without a gap or an overlap (`YearFound`, `YearUnique`,
  `MonthFound`, `MonthOrder`), and `ShortDate` is the first day of a name from a day on
  (`ShortDateFacts`): a date is at most 366 days from that of the next year (`YearApart`), and only the
  29 February exists in some years and not in others (`SameValidity`);
* the clock: `Today` stays within the years (`TodayFacts`), it never goes back unless a change of clocks
  makes a day come again (`DaysPass`), and `ToUtc` reads a local time in one of three ways (`ToUtcIs`);
* the properties. `DatesUnderstood`, `MeetingAsAsked` and `PresenceReads` hold of every moment, so types
  (`CalendarTypes`) are all the invariant they need. `MeetingAsAsked` on a day without a change near by is
  `SteadyMeeting`, where a change is by no more than the day it is away; that no request for an earlier
day raises is `OverflowsLate`. `AwayAsAsked` is about what was
  said on an earlier day, and needs `Booked`: what is stored is the last day asked for (`LastDay`), and
  the day of the command has come.

The theorems: `CalendarTypes`, `DatesAreUnderstood`, `AwayIsAsAsked`, `MeetingsAreAsAsked`, `PresenceIsRead`.

## Not modelled

* **Balance**: one answer of Splitwise becomes one message; it has no state and no order of its own. Who
  may ask is in `CommandAccess`, and that links are unique and live is `LinksLive`.
* **Configuration, runtime guard, previews**: settings are read once, a token is checked before
  anything runs, previews render fixed data. Nothing there changes.
* **Tooling** (`src/scripts`, continuous integration): not part of the running bot.
* **Wording**: cards, replies, help texts, keyboards and the splitting of long messages. Where a property
  is about words (the day a reply names, what help shows) the conversion is modelled.
* **Telegram profiles**: the name each message refreshes; nothing depends on it but wording.
* **Telegram, aiogram, APScheduler, SQLite, the holidays library** are external: modelled as far as the
  code relies on them, as described with each module.
