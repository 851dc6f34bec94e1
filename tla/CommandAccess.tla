--------------------------- MODULE CommandAccess ---------------------------
(***************************************************************************)
(* Who may run which command where (commanding), what /help and Telegram's *)
(* slash menus say about it, and the debug mode that lets an admin use     *)
(* group commands in the private chat (features/debug, commands/debug).    *)
(*                                                                         *)
(* The menus are copies kept by Telegram: start-up writes them one call    *)
(* after the other, and /debug rewrites the one of its admin.  Updates are *)
(* handled concurrently, so two calls for one admin may take effect in     *)
(* either order, may be refused, or may be cut off by a stop.              *)
(***************************************************************************)
EXTENDS Naturals, FiniteSets, Sequences, SequencesExt, FiniteSetsExt, Functions

CONSTANTS
  People,      \* telegram users, and their private chats with the bot
  NoOne,       \* a message without a telegram user
  Unset,       \* a menu Telegram was never given
  Handlers,    \* update handlers that may await a call at the same time (a bound)
  MaxToggles,  \* how many /debug 1 or 0 (a bound)
  MaxFaults,   \* how many refused calls (a bound)
  MaxStops     \* how many stops (a bound)

ASSUME AccessAssumption ==
  /\ IsFiniteSet(People)
  /\ NoOne \notin People
  /\ People \cap {"default", "private", "group"} = {}   \* menu scopes are told apart
  /\ {MaxToggles, MaxFaults, MaxStops} \subseteq Nat

-----------------------------------------------------------------------------
(* The commands.  A form of a command is what its parser tells apart: no   *)
(* argument, "on", "off", or another argument; "bad" is an argument that   *)
(* no resolver takes.                                                      *)

Forms == {"plain", "on", "off", "arg", "bad"}
ChatTypes == {"private", "group", "supergroup", "channel"}
GroupChats == {"group", "supergroup"}

\* What a handler asks of the sender before it looks at the arguments.
Anybody == {}
Identified == {"identity"}
Registered == {"identity", "active"}

\* A command with one line of help, of its own scope, and the forms its resolver refuses.
Command(scope, form, needs, refused) ==
  [scope |-> scope, admin |-> FALSE, menu |-> TRUE, help |-> {<<form, scope>>},
   needs |-> needs, refused |-> refused]

AdminOnly(command) == [command EXCEPT !.admin = TRUE]
Hidden(command) == [command EXCEPT !.menu = FALSE]

\* Commands without arguments take any.
AnyForm == {}
LunchRefused == {"bad"}
CoffeeRefused == {"bad"}
VacationRefused == {"on", "bad"}
EtaRefused == Forms \ {"arg"}
RegisterRefused == {"on", "off", "bad"}
ApproveRefused == Forms \ {"arg"}
DebugRefused == {"arg", "bad"}

StartCommand == Command("private", "plain", Anybody, AnyForm)
HelpCommand == Command("any", "plain", Anybody, AnyForm)
HiCommand == Command("any", "plain", Anybody, AnyForm)
CancelCommand == Command("private", "plain", Anybody, AnyForm)
QuitCommand == Command("private", "plain", Identified, AnyForm)
RegisterCommand == Command("private", "plain", Identified, RegisterRefused)
RequestRegisterCommand == Hidden(Command("any", "plain", Identified, AnyForm))
RegisterRequestsListCommand == AdminOnly(Command("private", "plain", Identified, AnyForm))
ApproveCommand == AdminOnly(Command("private", "arg", Identified, ApproveRefused))
DebugCommand == AdminOnly(Command("private", "on", Identified, DebugRefused))
TestCommand == Hidden(AdminOnly(Command("private", "arg", Anybody, AnyForm)))
BalanceCommand == Command("any", "plain", Registered, AnyForm)
MetaCommand == Command("group", "arg", Registered, EtaRefused)
EtaCommand == Command("group", "arg", Registered, EtaRefused)
VacationCommand ==
  [Command("group", "plain", Registered, VacationRefused) EXCEPT
     !.help = {"plain", "arg", "off"} \X {"group"}]
LunchAutoOnCommand == AdminOnly(Command("group", "plain", Anybody, AnyForm))
LunchAutoOffCommand == AdminOnly(Command("group", "plain", Anybody, AnyForm))
LunchAutoStatusCommand == AdminOnly(Command("group", "plain", Anybody, AnyForm))

Settings == {<<"plain", "private">>, <<"on", "any">>, <<"off", "any">>}

\* Mutant: help_scope is left out, so that the announcement has the scope of the command.
LunchCommandAnywhere ==
  [Command("any", "arg", Registered, LunchRefused) EXCEPT
     !.help = ({"plain", "arg"} \X {"any"}) \cup Settings]

\* Settings anywhere, and an announcement in groups.
LunchCommand ==
  [Command("any", "arg", Registered, LunchRefused) EXCEPT
     !.help = ({"plain", "arg"} \X {"group"}) \cup Settings]
CoffeeCommand ==
  [Command("any", "arg", Registered, CoffeeRefused) EXCEPT
     !.help = {<<"arg", "group">>} \cup Settings]

Commands ==
  {"start", "help", "hi", "cancel", "quit", "register", "request_register",
   "register_requests_list", "approve", "debug", "test", "balance", "meta", "eta", "vacation",
   "lunch_auto_on", "lunch_auto_off", "lunch_auto_status", "lunch", "coffee"}

Definitions ==
  [name \in Commands |->
     CASE name = "start" -> StartCommand
       [] name = "help" -> HelpCommand
       [] name = "hi" -> HiCommand
       [] name = "cancel" -> CancelCommand
       [] name = "quit" -> QuitCommand
       [] name = "register" -> RegisterCommand
       [] name = "request_register" -> RequestRegisterCommand
       [] name = "register_requests_list" -> RegisterRequestsListCommand
       [] name = "approve" -> ApproveCommand
       [] name = "debug" -> DebugCommand
       [] name = "test" -> TestCommand
       [] name = "balance" -> BalanceCommand
       [] name = "meta" -> MetaCommand
       [] name = "eta" -> EtaCommand
       [] name = "vacation" -> VacationCommand
       [] name = "lunch_auto_on" -> LunchAutoOnCommand
       [] name = "lunch_auto_off" -> LunchAutoOffCommand
       [] name = "lunch_auto_status" -> LunchAutoStatusCommand
       [] name = "lunch" -> LunchCommand
       [] name = "coffee" -> CoffeeCommand]

\* A menu that was never given is none of the menus that are.
ASSUME UnsetAssumption == \A names \in SUBSET Commands : Unset # names

\* The one text alias of a command is its Russian name.
Resolve(name) == IF name = "kofe" THEN "coffee" ELSE name

-----------------------------------------------------------------------------
VARIABLES
  admins,   \* TELEGRAM_ADMIN_IDS of the process
  debug,    \* the stored debug mode of everybody
  menu,     \* the menus Telegram keeps, by scope: all chats of a kind, or one private chat
  calls,    \* handler -> the menu call of a /debug it awaits
  opened,   \* who has opened the private chat with the bot
  up,       \* "down", "starting" or "up"
  todo,     \* the menus start-up still writes
  stray,    \* history: whose menu may be out of step (the last call for it overlapped
            \* another, did not take effect, or was not made)
  used      \* history: toggles, faults and stops so far

vars == <<admins, debug, menu, calls, opened, up, todo, stray, used>>

Everyone == People \cup {NoOne}
Shared == <<"default", "private", "group">>
MenuScopes == People \cup ToSet(Shared)
Idle == [stage |-> "idle"]
Stages == {"sent", "applied"}

TypeOK ==
  /\ admins \subseteq People
  /\ debug \in [People -> BOOLEAN]
  /\ menu \in [MenuScopes -> (SUBSET Commands) \cup {Unset}]
  /\ calls \in [Handlers -> {Idle} \cup [stage : Stages, who : People, names : SUBSET Commands]]
  /\ opened \subseteq People
  /\ up \in {"down", "starting", "up"}
  /\ todo \in Seq(MenuScopes)
  /\ up = "starting" \/ todo = <<>>
  /\ stray \subseteq People
  /\ used \in [{"toggle", "fault", "stop"} -> Nat]

-----------------------------------------------------------------------------
(* CommandAccessService: the rights of a sender, and what is shown.        *)

IsAdmin(p) == p \in admins

DebugEnabled(p) == p \in People /\ debug[p]

\* Where group commands run: groups, and the private chat of an admin in debug mode.
GroupAllowed(chat, p) ==
  \/ chat \in GroupChats
  \/ chat = "private" /\ IsAdmin(p) /\ DebugEnabled(p)

ScopeDenial(scope, chat, p) ==
  CASE scope = "private" /\ chat # "private"          -> "private_only"
    [] scope = "group" /\ ~GroupAllowed(chat, p)      -> "group_only"
    [] OTHER                                          -> "none"

CanRun(name, chat, p) ==
  LET denial == ScopeDenial(Definitions[name].scope, chat, p)
  IN  IF denial = "none" /\ Definitions[name].admin /\ ~IsAdmin(p) THEN "admin_only" ELSE denial

\* The forms of a command that /help shows.
HelpShown(name, chat, p) ==
  IF Definitions[name].admin /\ ~IsAdmin(p) THEN {}
  ELSE {e[1] : e \in {d \in Definitions[name].help : ScopeDenial(d[2], chat, p) = "none"}}

\* The commands a menu shows.
Visible(chat, p) ==
  {n \in Commands : Definitions[n].menu /\ HelpShown(n, chat, p) # {}}

\* Validators of requests: an announcement needs a place for group commands, the registration
\* of somebody else an admin.
LunchPublishDenial(form, chat, p) ==
  IF form \in {"arg", "bad"} /\ ~GroupAllowed(chat, p) THEN "group_only" ELSE "none"

CoffeeScheduleDenial(form, chat, p) ==
  IF form \in {"arg", "bad"} /\ ~GroupAllowed(chat, p) THEN "group_only" ELSE "none"

RegisterOtherDenial(form, p) ==
  IF form # "plain" /\ ~IsAdmin(p) THEN "admin_only" ELSE "none"

RequestDenial(name, form, chat, p) ==
  CASE name = "lunch"    -> LunchPublishDenial(form, chat, p)
    [] name = "coffee"   -> CoffeeScheduleDenial(form, chat, p)
    [] name = "register" -> RegisterOtherDenial(form, p)
    [] OTHER             -> "none"

\* ParsedRequestCommand.handle: who is refused, and what runs.
Handled(name, form, chat, p, active) ==
  LET needs == Definitions[name].needs
      request == RequestDenial(name, form, chat, p)
  IN  IF "identity" \in needs /\ p = NoOne THEN "no_identity"
      ELSE IF "active" \in needs /\ ~active THEN "not_active"
      ELSE IF request # "none" THEN request
      ELSE IF form \in Definitions[name].refused THEN "bad_input"
      ELSE "run"

Denials == {"private_only", "group_only", "admin_only"}

\* CommandDispatcher.dispatch: what becomes of a message.
Outcome(m, chat, p, active) ==
  LET name == Resolve(m.name)
  IN  IF m.toOther \/ name \notin Commands THEN "ignored"
      ELSE IF CanRun(name, chat, p) # "none" THEN CanRun(name, chat, p)
      ELSE Handled(name, m.form, chat, p, active)

\* Mutant: /lunch without an argument announces wherever it is run.
LunchEffectUnchecked(form, chat, p) == IF form \in {"on", "off"} THEN "setting" ELSE "announce"

\* LunchCommand.execute_effect.
LunchEffect(form, chat, p) ==
  CASE form \in {"on", "off"}                            -> "setting"
    [] form = "plain" /\ ~GroupAllowed(chat, p)          -> "status"
    [] OTHER                                             -> "announce"

\* CoffeeCommand.execute_effect.
CoffeeEffect(form) ==
  CASE form \in {"on", "off"} -> "setting"
    [] form = "plain"         -> "status"
    [] OTHER                  -> "announce"

Effect(name, form, chat, p) ==
  IF name = "lunch" THEN LunchEffect(form, chat, p) ELSE CoffeeEffect(form)

-----------------------------------------------------------------------------
(* The process.                                                            *)

Init ==
  /\ admins \in SUBSET People
  /\ debug = [p \in People |-> FALSE]
  /\ menu = [s \in MenuScopes |-> Unset]
  /\ calls = [h \in Handlers |-> Idle]
  /\ opened \in SUBSET People
  /\ up = "down"
  /\ todo = <<>>
  /\ stray = {}
  /\ used = [toggle |-> 0, fault |-> 0, stop |-> 0]

\* Mutant: start-up writes the menus of new admins only.
StartNewAdmins(configured) ==
  /\ up = "down"
  /\ up' = "starting"
  /\ admins' = configured
  /\ todo' = Shared \o SetToSeq(configured \ admins)
  /\ stray' = stray \cup (admins \ configured)
  /\ UNCHANGED <<debug, menu, calls, opened, used>>

\* main: a process starts with the admins of its configuration, which may have changed.
Start(configured) ==
  /\ up = "down"
  /\ up' = "starting"
  /\ admins' = configured
  /\ todo' = Shared \o SetToSeq(configured)
  /\ stray' = stray \cup (admins \ configured)
  /\ UNCHANGED <<debug, menu, calls, opened, used>>

\* The menu start-up writes for a scope: the shared ones are those of an unknown user.
MenuOf(scope) ==
  IF scope \in People THEN Visible("private", scope)
  ELSE Visible(IF scope = "group" THEN "group" ELSE "private", NoOne)

\* One call of setup_bot_commands; "chat not found" is passed over.
SetMenu ==
  /\ up = "starting" /\ todo # <<>>
  /\ LET scope == Head(todo)
         unknown == scope \in People \ opened
     IN  /\ menu' = IF unknown THEN menu ELSE [menu EXCEPT ![scope] = MenuOf(scope)]
         /\ stray' = IF unknown THEN stray \cup {scope} ELSE stray \ {scope}
  /\ todo' = Tail(todo)
  /\ UNCHANGED <<admins, debug, calls, opened, up, used>>

\* Any other error ends the process.
SetMenuFails ==
  /\ up = "starting" /\ todo # <<>> /\ used.fault < MaxFaults
  /\ up' = "down"
  /\ todo' = <<>>
  /\ stray' = stray \cup (admins \cap ToSet(todo))
  /\ used' = [used EXCEPT !.fault = @ + 1]
  /\ UNCHANGED <<admins, debug, menu, calls, opened>>

\* All menus are written: jobs are restored and updates are polled.
StartPolling ==
  /\ up = "starting" /\ todo = <<>>
  /\ up' = "up"
  /\ UNCHANGED <<admins, debug, menu, calls, opened, todo, stray, used>>

Awaited(p) == {h \in Handlers : calls[h] # Idle /\ calls[h].who = p}

\* Mutant: it is computed before.
MenuBeforeToggle(p) == MenuOf(p)

\* The menu of /debug 1 or /debug 0 is computed after the mode was stored.
MenuAfterToggle(p) == MenuOf(p)'

\* DebugCommand.execute_effect: the mode is stored, then the menu is sent.
Toggle(h, p, on) ==
  LET message == [name |-> "debug", form |-> IF on THEN "on" ELSE "off", toOther |-> FALSE]
  IN  /\ up = "up" /\ calls[h] = Idle /\ p \in opened /\ used.toggle < MaxToggles
      /\ Outcome(message, "private", p, FALSE) = "run"
      /\ debug' = [debug EXCEPT ![p] = on]
      /\ UNCHANGED <<admins, menu, opened, up, todo>>
      /\ calls' = [calls EXCEPT ![h] = [stage |-> "sent", who |-> p, names |-> MenuAfterToggle(p)]]
      /\ stray' = IF Awaited(p) = {} THEN stray \ {p} ELSE stray \cup {p}
      /\ used' = [used EXCEPT !.toggle = @ + 1]

\* Telegram carries a menu call out.
Apply(h) ==
  /\ calls[h] # Idle /\ calls[h].stage = "sent"
  /\ menu' = [menu EXCEPT ![calls[h].who] = calls[h].names]
  /\ calls' = [calls EXCEPT ![h].stage = "applied"]
  /\ UNCHANGED <<admins, debug, opened, up, todo, stray, used>>

\* Its handler goes on, and replies.
Return(h) ==
  /\ calls[h] # Idle /\ calls[h].stage = "applied"
  /\ calls' = [calls EXCEPT ![h] = Idle]
  /\ UNCHANGED <<admins, debug, menu, opened, up, todo, stray, used>>

\* The call is refused; the handler ends with the mode stored.
Refuse(h) ==
  /\ calls[h] # Idle /\ calls[h].stage = "sent" /\ used.fault < MaxFaults
  /\ calls' = [calls EXCEPT ![h] = Idle]
  /\ stray' = stray \cup {calls[h].who}
  /\ used' = [used EXCEPT !.fault = @ + 1]
  /\ UNCHANGED <<admins, debug, menu, opened, up, todo>>

\* A user opens the private chat; nothing is written then.
OpenChat(p) ==
  /\ p \notin opened
  /\ opened' = opened \cup {p}
  /\ UNCHANGED <<admins, debug, menu, calls, up, todo, stray, used>>

\* The process stops, at any moment; calls that have not taken effect are lost.
Stop ==
  /\ up # "down" /\ used.stop < MaxStops
  /\ up' = "down"
  /\ todo' = <<>>
  /\ calls' = [h \in Handlers |-> Idle]
  /\ stray' = stray \cup {p \in People : \E h \in Awaited(p) : calls[h].stage = "sent"}
                    \cup (admins \cap ToSet(todo))
  /\ used' = [used EXCEPT !.stop = @ + 1]
  /\ UNCHANGED <<admins, debug, menu, opened>>

Next ==
  \/ \E configured \in SUBSET People : Start(configured)
  \/ SetMenu \/ SetMenuFails \/ StartPolling \/ Stop
  \/ \E h \in Handlers :
       \/ \E p \in People, on \in BOOLEAN : Toggle(h, p, on)
       \/ Apply(h) \/ Return(h) \/ Refuse(h)
  \/ \E p \in People : OpenChat(p)

Spec == Init /\ [][Next]_vars

-----------------------------------------------------------------------------
(* Properties.                                                             *)

Message(name, form) == [name |-> name, form |-> form, toOther |-> FALSE]

\* /help and the access checks agree, though one goes by the scopes of help entries and the
\* other by the scope of the command and the validator of the request: whatever /help shows to
\* somebody in a chat is not denied there, and a command of which it shows nothing is denied in
\* every form, without a look at its arguments.
HelpIsExact ==
  up = "up" => \A p \in Everyone, chat \in ChatTypes, n \in Commands :
    LET shown == HelpShown(n, chat, p)
        denied == {f \in Forms : Outcome(Message(n, f), chat, p, TRUE) \in Denials}
    IN  shown \cap denied = {} /\ (shown = {} => denied = Forms)

\* No poll and no meeting is announced from a place that is not for group commands, by the
\* default of /lunch or by an argument, under the name of a command or its alias; and the
\* announcer is a known, active user.
AnnouncedInGroups ==
  up = "up" => \A p \in Everyone, chat \in ChatTypes, name \in {"lunch", "coffee", "kofe"},
     f \in Forms, active \in BOOLEAN :
    /\ Outcome(Message(name, f), chat, p, active) = "run"
    /\ Effect(Resolve(name), f, chat, p) = "announce"
    => p # NoOne /\ active /\ (chat \in GroupChats \/ (p \in admins /\ debug[p]))

MenuSeen(p) == IF menu[p] = Unset THEN menu["private"] ELSE menu[p]

\* While the bot is up, the menus of groups and of private chats are what everybody may use, and
\* the menu in somebody's private chat is what they may use, in the debug mode stored for
\* them, from the answer to their /debug on and across restarts, unless it is astray.
MenuHonest ==
  up = "up" =>
    /\ \A s \in ToSet(Shared) : menu[s] = MenuOf(s)
    /\ \A p \in People \ stray : Awaited(p) = {} => MenuSeen(p) = MenuOf(p)

\* A start-up mends the menus of all current admins whose private chat exists: none of them
\* is astray when updates are first polled, whatever calls went wrong in earlier processes.
StartMends ==
  [][up = "starting" /\ up' = "up" => \A p \in admins' : menu'[p] \in {Unset, MenuOf(p)'}]_vars

-----------------------------------------------------------------------------
=============================================================================
