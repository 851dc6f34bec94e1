-------------------------- MODULE RegistrationFlow --------------------------
(***************************************************************************)
(* Registration: the conversation of /register (FlowRunner, the steps of   *)
(* RegistrationFlow and RegistrationFlowUseCase), RegistrationService, the *)
(* tables it keeps (UserRepository, RegistrationRequestRepository,         *)
(* InvitationPreferenceRepository) and the commands that change them:      *)
(* /register, /request_register, /quit, /approve, /cancel, /lunch on|off   *)
(* and /coffee on|off.                                                     *)
(*                                                                         *)
(* The handler of a message runs without interruption up to the first call *)
(* to Telegram or Splitwise it awaits; messages are handled as concurrent  *)
(* tasks.  A step of the model is the code between two such awaits, and    *)
(* tasks[t] is a handler that waits: for the answer of Splitwise, or for   *)
(* the reply and the notices of a completed registration to be sent.       *)
(* Several transactions of SQLite may be committed in one step; a stop of  *)
(* the process between two of them is a disjunct of its own.               *)
(***************************************************************************)
EXTENDS Integers

CONSTANTS
  Users,       \* Telegram users, each in the private chat with the bot
  AdminIds,    \* TELEGRAM_ADMIN_IDS
  RoleAdmins,  \* users whose row has the role admin
  Names,       \* display names, as normalize_display_name leaves them
  Members,     \* members of the Splitwise group
  NoName, NoMember,
  Tasks,       \* bound: as many handlers wait at the same time
  Budget       \* bound: how many times each event of BudgetKinds may happen

BudgetKinds ==
  { "command",   \* a slash command that starts or changes something
    "clash",     \* a Splitwise member chosen for a second user
    "drop",      \* the reply to a registration or the notices are not delivered
    "crash" }    \* an end of the process at any point

ASSUME AdminsAssumption == AdminIds \subseteq Users /\ RoleAdmins \subseteq Users
ASSUME NullsAssumption == NoName \notin Names /\ NoMember \notin Members
ASSUME CommandsAssumption == Budget \in [BudgetKinds -> Nat]

VARIABLES
  status,    \* users.status, or "none" for a user without a row
  name,      \* users.display_name
  link,      \* splitwise_users
  prefs,     \* user_invitation_preferences
  requests,  \* registration_requests
  session,   \* per user: the flow session in the FSM storage
  tasks,     \* the handlers that wait
  told,      \* users whose data as it stands was sent to the admins
  budget

vars == <<status, name, link, prefs, requests, session, tasks, told, budget>>

-----------------------------------------------------------------------------
Blocked == {"rejected", "disabled"}
Unregistered == {"none", "abandoned"}
Status == Blocked \cup Unregistered \cup {"pending", "active"}

Choice == {"yes", "no"}
Preferences == [lunch: Choice, coffee: Choice]
DefaultPreferences == [lunch |-> "yes", coffee |-> "yes"]

Details == [name: Names, link: Members \cup {NoMember}]
DetailsOf(u) == [name |-> name[u], link |-> link[u]]

\* FlowSession with its RegistrationDraft; an answer not given yet is NoName,
\* NoMember or "unasked".
Steps == {"name", "splitwise", "lunch", "coffee", "confirm"}
Session ==
  [step: Steps, target: Users, name: Names \cup {NoName},
   link: Members \cup {NoMember}, lunch: Choice \cup {"unasked"}]
NoSession == [step |-> "none"]
DraftDetails(d) == [name |-> d.name, link |-> d.link]

Task ==
  [kind: {"lookup"}, actor: Users, draft: Session]
    \cup [kind: {"notice"}, target: Users, details: Details]
Idle == [kind |-> "idle"]

Spend(k) == budget[k] > 0 /\ budget' = [budget EXCEPT ![k] = @ - 1]
Spent(k) == Budget[k] - budget[k]

\* can_approve
IsAdmin(a) == a \in AdminIds \/ (a \in RoleAdmins /\ status[a] = "active")

Forget(a) == session' = [session EXCEPT ![a] = NoSession]
EndTask(t) == tasks' = [tasks EXCEPT ![t] = Idle]

-----------------------------------------------------------------------------
(* RegistrationService: the transactions that save a registration.         *)

\* Nobody else has the Splitwise member: the primary key of splitwise_users.
MemberFree(u, m) == m = NoMember \/ \A v \in Users \ {u} : link[v] # m

SaveUser(u, d) ==
  /\ status' = [status EXCEPT ![u] = "pending"]
  /\ name' = [name EXCEPT ![u] = d.name]

SaveLink(u, d) == link' = [link EXCEPT ![u] = d.link]

\* Mutant: the deletion looks for the wrong id.
ClearNothing(u) == UNCHANGED requests

ClearRequest(u) == requests' = requests \ {u}

SavePreferences(u, p) == prefs' = [prefs EXCEPT ![u] = p]

\* FSM sessions and waiting handlers are in memory only.
MemoryLost ==
  /\ session' = [a \in Users |-> NoSession]
  /\ tasks' = [t \in Tasks |-> Idle]

\* Mutants: the notice shows the data from before the save; there is no notice.
NoticeBefore(d) == [kind |-> "notice", target |-> d.target, details |-> DetailsOf(d.target)]
NoNotice(d) == Idle

\* RegistrationAdminNotification: fixed when the registration is saved, sent after the reply.
NoticeOf(d) == [kind |-> "notice", target |-> d.target, details |-> DraftDetails(d)]

\* save_pending_registration, the request's deletion and, for a new registration,
\* the preferences p; then the flow completes and handler t sends the reply.
SaveAll(a, t, d, p) ==
  LET u == d.target IN
  /\ MemberFree(u, d.link)
  /\ SaveUser(u, d) /\ SaveLink(u, d) /\ ClearRequest(u) /\ SavePreferences(u, p)
  /\ Forget(a)
  /\ tasks' = [tasks EXCEPT ![t] = NoticeOf(d)]
  /\ told' = told \ {u}
  /\ UNCHANGED budget

\* The link violates the key: its transaction is rolled back, the one before is
\* committed already, and the exception leaves the session as it was.
SaveClashes(t, d) ==
  LET u == d.target IN
  /\ ~MemberFree(u, d.link) /\ Spend("clash")
  /\ SaveUser(u, d) /\ EndTask(t)
  /\ told' = told \ {u}
  /\ UNCHANGED <<link, prefs, requests, session>>

\* The process ends after one, two or three of the transactions.
SaveStops(d) ==
  LET u == d.target IN
  /\ Spend("crash") /\ MemoryLost
  /\ SaveUser(u, d)
  /\ \/ UNCHANGED <<link, requests>>
     \/ MemberFree(u, d.link) /\ SaveLink(u, d) /\ UNCHANGED requests
     \/ MemberFree(u, d.link) /\ SaveLink(u, d) /\ ClearRequest(u)
  /\ told' = told \ {u}
  /\ UNCHANGED prefs

Save(a, t, d, p) == SaveAll(a, t, d, p) \/ SaveClashes(t, d) \/ SaveStops(d)

\* RegistrationFlowUseCase.complete with the outcomes of RegistrationService.register;
\* p: the preferences asked for, or those the user has.
Created(a, t, d, p) == status[d.target] \in Unregistered /\ Save(a, t, d, p)

\* Mutant: an update of a request goes back to the default preferences.
UpdatedPendingReset(a, t, d) ==
  /\ status[d.target] = "pending" /\ DetailsOf(d.target) # DraftDetails(d)
  /\ Save(a, t, d, DefaultPreferences)

UpdatedPending(a, t, d) ==
  /\ status[d.target] = "pending" /\ DetailsOf(d.target) # DraftDetails(d)
  /\ Save(a, t, d, prefs[d.target])

AlreadyPending(a, t, d) ==
  /\ status[d.target] = "pending" /\ DetailsOf(d.target) = DraftDetails(d)
  /\ ClearRequest(d.target) /\ Forget(a) /\ EndTask(t)
  /\ UNCHANGED <<status, name, link, prefs, told, budget>>

\* Mutant: changed data of an active user is saved without asking.
AlreadyActiveSaved(a, t, d) ==
  /\ status[d.target] = "active" /\ DetailsOf(d.target) # DraftDetails(d)
  /\ Save(a, t, d, prefs[d.target])

AlreadyActive(a, t, d) ==
  /\ status[d.target] = "active"
  /\ session' = [session EXCEPT
       ![a] = IF DetailsOf(d.target) = DraftDetails(d) THEN NoSession
              ELSE [d EXCEPT !.step = "confirm"]]
  /\ EndTask(t)
  /\ UNCHANGED <<status, name, link, prefs, requests, told, budget>>

\* Mutant: whoever is not active may ask again.
RegistrationUnblocked(a, t, d) ==
  status[d.target] \in Blocked /\ Save(a, t, d, prefs[d.target])

RegistrationBlocked(a, t, d) ==
  /\ status[d.target] \in Blocked
  /\ Forget(a) /\ EndTask(t)
  /\ UNCHANGED <<status, name, link, prefs, requests, told, budget>>

Complete(a, t, d, p) ==
  \/ Created(a, t, d, p)
  \/ UpdatedPending(a, t, d)
  \/ AlreadyPending(a, t, d)
  \/ AlreadyActive(a, t, d)
  \/ RegistrationBlocked(a, t, d)

-----------------------------------------------------------------------------
(* The conversation: a is the user who types, t the task of the handler.   *)

At(a, step) == session[a].step = step

\* RegisterOtherAdminValidator: checked when the conversation starts, never again.
MayRegister(a, u) == u = a \/ IsAdmin(a)

\* /register and, for admins, /register <id>.
Register(a, u) ==
  /\ MayRegister(a, u)
  /\ Spend("command")
  /\ session' = [session EXCEPT
       ![a] = [step |-> "name", target |-> u, name |-> NoName,
               link |-> NoMember, lunch |-> "unasked"]]
  /\ UNCHANGED <<status, name, link, prefs, requests, tasks, told>>

TellName(a, n) ==
  /\ At(a, "name")
  /\ session' = [session EXCEPT ![a] = [@ EXCEPT !.step = "splitwise", !.name = n]]
  /\ UNCHANGED <<status, name, link, prefs, requests, tasks, told, budget>>

\* _continue of the Splitwise step: whether preferences are asked depends on the
\* target's status now; d is the draft the handler read when its message arrived.
Continue(a, t, d, m) ==
  LET e == [d EXCEPT !.link = m] IN
  \/ /\ status[d.target] \in Unregistered
     /\ session' = [session EXCEPT ![a] = [e EXCEPT !.step = "lunch"]]
     /\ EndTask(t)
     /\ UNCHANGED <<status, name, link, prefs, requests, told, budget>>
  \/ /\ status[d.target] \notin Unregistered
     /\ Complete(a, t, e, prefs[d.target])

SkipSplitwise(a, t) ==
  At(a, "splitwise") /\ tasks[t] = Idle /\ Continue(a, t, session[a], NoMember)

AskSplitwise(a, t) ==
  /\ At(a, "splitwise") /\ tasks[t] = Idle
  /\ tasks' = [tasks EXCEPT ![t] = [kind |-> "lookup", actor |-> a, draft |-> session[a]]]
  /\ UNCHANGED <<status, name, link, prefs, requests, session, told, budget>>

SplitwiseFinds(t, m) ==
  tasks[t].kind = "lookup" /\ Continue(tasks[t].actor, t, tasks[t].draft, m)

\* Not found, or Splitwise is unavailable: the step stays.
SplitwiseFails(t) ==
  /\ tasks[t].kind = "lookup" /\ EndTask(t)
  /\ UNCHANGED <<status, name, link, prefs, requests, session, told, budget>>

\* Mutant: the answer is not put into the draft.
AnswerLunchLost(a, choice) ==
  /\ At(a, "lunch")
  /\ session' = [session EXCEPT ![a] = [@ EXCEPT !.step = "coffee"]]
  /\ UNCHANGED <<status, name, link, prefs, requests, tasks, told, budget>>

AnswerLunch(a, choice) ==
  /\ At(a, "lunch")
  /\ session' = [session EXCEPT ![a] = [@ EXCEPT !.step = "coffee", !.lunch = choice]]
  /\ UNCHANGED <<status, name, link, prefs, requests, tasks, told, budget>>

AnswerCoffee(a, t, choice) ==
  /\ At(a, "coffee") /\ tasks[t] = Idle
  /\ Complete(a, t, session[a], [lunch |-> session[a].lunch, coffee |-> choice])

\* confirm_reregistration
ConfirmYes(a, t) ==
  /\ At(a, "confirm") /\ tasks[t] = Idle
  /\ Save(a, t, session[a], prefs[session[a].target])

\* The answer "no", /cancel, and any other command: all of them end the session.
EndSession(a) ==
  /\ session[a] # NoSession /\ Forget(a)
  /\ UNCHANGED <<status, name, link, prefs, requests, tasks, told, budget>>

\* The reply to the user and then the notices to the admins.
Announce(t) ==
  /\ tasks[t].kind = "notice" /\ EndTask(t)
  /\ told' = IF DetailsOf(tasks[t].target) = tasks[t].details
             THEN told \cup {tasks[t].target} ELSE told
  /\ UNCHANGED <<status, name, link, prefs, requests, session, budget>>

AnnounceFails(t) ==
  /\ tasks[t].kind = "notice" /\ EndTask(t) /\ Spend("drop")
  /\ UNCHANGED <<status, name, link, prefs, requests, session, told>>

-----------------------------------------------------------------------------
(* The other commands.  Each aborts the flow of the chat it is sent in: in *)
(* a group that is not the private chat of the flow.                       *)

CommandAnywhere(a) == Spend("command") /\ (Forget(a) \/ UNCHANGED session)

\* registration_request_eligibility
MayRequest(a) == status[a] \in Unregistered

RequestRegister(a) ==
  /\ MayRequest(a)
  /\ CommandAnywhere(a)
  /\ requests' = requests \cup {a}
  /\ UNCHANGED <<status, name, link, prefs, tasks, told>>

\* Mutant: the link to Splitwise is left behind.
AbandonLinked(u) ==
  status' = [status EXCEPT ![u] = "abandoned"] /\ UNCHANGED link

\* One transaction for both tables.
Abandon(u) ==
  /\ status' = [status EXCEPT ![u] = "abandoned"]
  /\ link' = [link EXCEPT ![u] = NoMember]

Quit(a) ==
  /\ status[a] \notin Unregistered
  /\ Spend("command") /\ Forget(a)
  /\ Abandon(a)
  /\ UNCHANGED <<name, prefs, requests, tasks, told>>

\* Mutant: the row is not looked for.
ActivateUnknown(u) == status' = [status EXCEPT ![u] = "active"]

\* approve_by_telegram_id: whatever the status of a user who has a row.
Activate(u) == status[u] # "none" /\ status' = [status EXCEPT ![u] = "active"]

Approve(a, u) ==
  /\ IsAdmin(a)
  /\ Spend("command") /\ Forget(a)
  /\ Activate(u)
  /\ UNCHANGED <<name, link, prefs, requests, tasks, told>>

\* The other kind keeps its value, or its default if there is no row yet.
SetPreference(u, kind, choice) == prefs' = [prefs EXCEPT ![u][kind] = choice]

\* /lunch on|off, /coffee on|off
SetInvitation(a, kind, choice) ==
  /\ status[a] = "active"
  /\ CommandAnywhere(a)
  /\ SetPreference(a, kind, choice)
  /\ UNCHANGED <<status, name, link, requests, tasks, told>>

Crash ==
  /\ Spend("crash") /\ MemoryLost
  /\ UNCHANGED <<status, name, link, prefs, requests, told>>

-----------------------------------------------------------------------------
\* Any users an earlier life of the bot left behind, whose requests were announced and
\* answered and who kept the default preferences.
Init ==
  /\ status \in [Users -> Status] /\ name \in [Users -> Names \cup {NoName}]
  /\ \A u \in Users : name[u] = NoName <=> status[u] = "none"
  /\ \A u \in RoleAdmins : status[u] # "none"
  /\ link \in [Users -> Members \cup {NoMember}]
  /\ \A u \in Users : MemberFree(u, link[u]) /\ (status[u] \in Unregistered => link[u] = NoMember)
  /\ prefs = [u \in Users |-> DefaultPreferences]
  /\ requests = {}
  /\ session = [a \in Users |-> NoSession] /\ tasks = [t \in Tasks |-> Idle]
  /\ told = Users
  /\ budget = Budget

Message(a) ==
  \/ \E n \in Names : TellName(a, n)
  \/ \E t \in Tasks : SkipSplitwise(a, t) \/ AskSplitwise(a, t) \/ ConfirmYes(a, t)
  \/ \E choice \in Choice :
       AnswerLunch(a, choice) \/ \E t \in Tasks : AnswerCoffee(a, t, choice)
  \/ EndSession(a)

Command(a) ==
  \/ \E u \in Users : Register(a, u) \/ Approve(a, u)
  \/ RequestRegister(a) \/ Quit(a)
  \/ \E kind \in {"lunch", "coffee"}, choice \in Choice : SetInvitation(a, kind, choice)

Resume(t) ==
  \/ \E m \in Members : SplitwiseFinds(t, m)
  \/ SplitwiseFails(t) \/ Announce(t) \/ AnnounceFails(t)

Next ==
  \/ \E a \in Users : Message(a) \/ Command(a)
  \/ \E t \in Tasks : Resume(t)
  \/ Crash

Spec == Init /\ [][Next]_vars

\* A call to Telegram ends, with an answer or an error.
FairSpec == Spec /\ \A t \in Tasks : WF_vars(Announce(t))

-----------------------------------------------------------------------------
(* Properties.                                                             *)

\* The type of the state.  A draft that reached a step holds the answers of the
\* steps before it, which the code demands with exceptions (require_display_name).
TypeOK ==
  /\ status \in [Users -> Status] /\ name \in [Users -> Names \cup {NoName}]
  /\ link \in [Users -> Members \cup {NoMember}] /\ prefs \in [Users -> Preferences]
  /\ requests \subseteq Users /\ told \subseteq Users
  /\ session \in [Users -> Session \cup {NoSession}]
  /\ tasks \in [Tasks -> Task \cup {Idle}]
  /\ budget \in [BudgetKinds -> Nat]
  /\ \A u \in Users : name[u] = NoName <=> status[u] = "none"

\* No step of the conversation finds its draft without the name or the answer an
\* earlier step asked for, whatever other handlers did to the session meanwhile:
\* complete() and the coffee step raise an error in that case.
DraftsComplete ==
  /\ \A a \in Users :
       /\ session[a].step \in Steps \ {"name"} => session[a].name # NoName
       /\ session[a].step = "coffee" => session[a].lunch # "unasked"
  /\ \A t \in Tasks : tasks[t].kind = "lookup" =>
       tasks[t].draft.step = "splitwise" /\ tasks[t].draft.name # NoName

\* A member of the Splitwise group is linked to one user at most, and to nobody who
\* left or never came, whichever transactions a stop of the process or a violated
\* key cut off: balances are read through these links.
LinksLive ==
  \A u \in Users :
    /\ MemberFree(u, link[u])
    /\ status[u] \in Unregistered => link[u] = NoMember

\* A user who waits for approval has no open request to be registered, unless the
\* transaction that deletes it was never reached.
RequestsClosed ==
  Spent("crash") = 0 /\ Spent("clash") = 0 =>
    \A u \in requests : status[u] # "pending"

NoticeInFlight(u) ==
  \E t \in Tasks :
    tasks[t].kind = "notice" /\ tasks[t].target = u /\ tasks[t].details = DetailsOf(u)

\* The admins were sent the data of every user who waits for approval, as it stands,
\* or will be: also when two conversations about the same user complete in turn and
\* their notices overtake each other.
PendingIsAnnounced ==
  Spent("drop") = 0 /\ Spent("crash") = 0 /\ Spent("clash") = 0 =>
    \A u \in Users : status[u] = "pending" => u \in told \/ NoticeInFlight(u)

\* An approved user goes back to the list of those who wait only through the step that
\* showed the current data and asked, whoever leads the conversation and whatever was
\* decided while it waited for Splitwise.
ReregistrationConfirmed ==
  [][\A u \in Users : status[u] = "active" /\ status'[u] = "pending" =>
       \E a \in Users : session[a].step = "confirm" /\ session[a].target = u]_vars

\* Invitation preferences change by the user's own command, or by the answers to the
\* questions of a first registration; an update or a re-registration keeps them.
PreferencesKept ==
  [][\A u \in Users : prefs'[u] # prefs[u] =>
       \/ status[u] = "active" /\ status'[u] = "active"
       \/ /\ status[u] \in Unregistered /\ status'[u] = "pending"
          /\ \E a \in Users : session[a].step = "coffee" /\ session[a].target = u]_vars

\* What registration promises, as a specification of its own: a blocked user is never
\* saved as one who waits, data changes only with a request for approval.
UserLifeSpec == INSTANCE UserLife
KeepsUserLife == UserLifeSpec!Spec

Faults == {"clash", "drop", "crash"}

\* The admins get to know of every user who waits for approval, when replies and notices
\* arrive, or the user stops waiting.
Announced ==
  \A u \in Users :
    status[u] = "pending" ~>
      status[u] # "pending" \/ u \in told \/ \E k \in Faults : Spent(k) > 0

-----------------------------------------------------------------------------
(* A statement of the tests the code does not keep.                        *)

\* The reply to /cancel: "the current scenario is cancelled".  A conversation that is
\* over starts again only with /register, at its first step.
CancelledStaysCancelled ==
  [][\A a \in Users : session[a] = NoSession /\ session'[a] # NoSession =>
       session'[a].step = "name"]_vars
=============================================================================
