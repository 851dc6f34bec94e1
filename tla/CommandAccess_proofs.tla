------------------------ MODULE CommandAccess_proofs ------------------------
(***************************************************************************)
(* Theorems about CommandAccess, for any people, configurations, numbers   *)
(* of handlers and bounds: /help is exact, announcements are made where    *)
(* group commands are allowed, a start-up mends the menus of all admins,   *)
(* and a menu that is not astray is honest whenever the bot is up.         *)
(***************************************************************************)
EXTENDS CommandAccess, FiniteSetTheorems, FunctionTheorems, SequenceTheorems, TLAPS

-----------------------------------------------------------------------------
(* The invariant behind the menus.                                         *)

\* A stopped bot, and one that starts, awaits no call of a handler.
QuietUnlessUp == up # "up" => \A h \in Handlers : calls[h] = Idle

\* Menus of private chats exist, and are on their way, for opened chats only.
OpenedOnly ==
  /\ \A h \in Handlers : calls[h] # Idle => calls[h].who \in opened
  /\ \A p \in People : menu[p] # Unset => p \in opened

\* What start-up has still to write: private menus of admins.
TodoOfAdmins == \A p \in People : p \in ToSet(todo) => p \in admins

\* Start-up leaves behind the menus that it has written.
SharedWritten ==
  up # "down" => \A s \in ToSet(Shared) : s \in ToSet(todo) \/ menu[s] = MenuOf(s)

AdminsWritten ==
  up = "starting" => \A p \in admins : p \in ToSet(todo) \/ menu[p] \in {Unset, MenuOf(p)}

\* Somebody whose menu is not astray: no two calls are awaited; the one that is carries, or has
\* brought, the right menu; a menu once given is right unless it is about to be written; and
\* only users without admin rights have never got one.
OneCall(p) == \A g, h \in Awaited(p) : g = h

CallRight(p) ==
  \A h \in Awaited(p) :
    /\ calls[h].names = MenuOf(p)
    /\ calls[h].stage = "applied" => menu[p] = MenuOf(p)

GivenRight(p) ==
  (menu[p] # Unset /\ Awaited(p) = {}) => p \in ToSet(todo) \/ menu[p] = MenuOf(p)

NeverGiven(p) ==
  (menu[p] = Unset /\ up # "down") => p \notin admins \/ p \in ToSet(todo) \/ Awaited(p) # {}

OnTrack(p) == OneCall(p) /\ CallRight(p) /\ GivenRight(p) /\ NeverGiven(p)

MenuInv ==
  /\ QuietUnlessUp /\ OpenedOnly /\ TodoOfAdmins /\ SharedWritten /\ AdminsWritten
  /\ \A p \in People \ stray : OnTrack(p)

-----------------------------------------------------------------------------
(* The commands, and what is shown and allowed of them.                    *)

Scopes == {"private", "group", "any"}

\* The table of commands: the entries of /help are forms of the command, one of them of the
\* scope of the command; and no entry has another scope, unless the command runs anywhere.
LEMMA DefinitionFacts ==
  ASSUME NEW n \in Commands
  PROVE  /\ Definitions[n].scope \in Scopes
         /\ \E f \in Forms : <<f, Definitions[n].scope>> \in Definitions[n].help
         /\ Definitions[n].help \subseteq Forms \X Scopes
         /\ \A e \in Definitions[n].help :
              Definitions[n].scope = "any" \/ e[2] = Definitions[n].scope
<1> DEFINE Good(d) ==
      /\ d.scope \in Scopes
      /\ \E f \in Forms : <<f, d.scope>> \in d.help
      /\ d.help \subseteq Forms \X Scopes
      /\ \A e \in d.help : d.scope = "any" \/ e[2] = d.scope
<1>1. ASSUME NEW needs, NEW refused, NEW scope \in Scopes, NEW form \in Forms
      PROVE  LET d == Command(scope, form, needs, refused)
             IN  Good(d) /\ Good(AdminOnly(d)) /\ Good(Hidden(d)) /\ Good(Hidden(AdminOnly(d)))
  BY DEF Command, AdminOnly, Hidden
<1>2. \A scope, form, needs, refused : scope \in Scopes /\ form \in Forms =>
        LET d == Command(scope, form, needs, refused)
        IN  Good(d) /\ Good(AdminOnly(d)) /\ Good(Hidden(d)) /\ Good(Hidden(AdminOnly(d)))
  <2> HIDE DEF Good
  <2> TAKE scope, form, needs, refused
  <2> HAVE scope \in Scopes /\ form \in Forms
  <2> QED BY <1>1
<1>3. Good(VacationCommand)
  BY DEF VacationCommand, Command, Scopes, Forms
<1>4. Good(LunchCommand)
  BY DEF LunchCommand, Settings, Command, Scopes, Forms
<1>5. Good(CoffeeCommand)
  BY DEF CoffeeCommand, Settings, Command, Scopes, Forms
<1>6. /\ Good(StartCommand) /\ Good(HelpCommand) /\ Good(HiCommand) /\ Good(CancelCommand)
      /\ Good(QuitCommand) /\ Good(RegisterCommand) /\ Good(RequestRegisterCommand)
      /\ Good(RegisterRequestsListCommand) /\ Good(ApproveCommand) /\ Good(DebugCommand)
      /\ Good(TestCommand) /\ Good(BalanceCommand) /\ Good(MetaCommand) /\ Good(EtaCommand)
      /\ Good(LunchAutoOnCommand) /\ Good(LunchAutoOffCommand) /\ Good(LunchAutoStatusCommand)
  <2> HIDE DEF Good
  <2> QED
    BY <1>2 DEF StartCommand, HelpCommand, HiCommand, CancelCommand, QuitCommand, RegisterCommand,
      RequestRegisterCommand, RegisterRequestsListCommand, ApproveCommand, DebugCommand,
      TestCommand, BalanceCommand, MetaCommand, EtaCommand, LunchAutoOnCommand,
      LunchAutoOffCommand, LunchAutoStatusCommand, Scopes, Forms
<1>7. Good(Definitions[n])
  <2> HIDE DEF Good
  <2> QED
    BY <1>3, <1>4, <1>5, <1>6 DEF Definitions, Commands
<1> QED
  BY <1>7

\* The requests with a validator of their own: /help shows an announcement, which is an argument
\* or none, for groups, and of /register the form without an argument.
LEMMA CheckedDefinitions ==
  /\ \A n \in {"lunch", "coffee"} : \A e \in Definitions[n].help :
       e[1] \in {"arg", "bad"} => e[2] = "group"
  /\ \A e \in Definitions["register"].help : e[1] = "plain"
  /\ \A n \in {"lunch", "coffee"} :
       /\ Definitions[n].needs = Registered
       /\ "bad" \in Definitions[n].refused
  /\ Definitions["debug"].admin /\ Definitions["debug"].scope = "private"
<1>1. /\ Definitions["lunch"] = LunchCommand /\ Definitions["coffee"] = CoffeeCommand
      /\ Definitions["register"] = RegisterCommand /\ Definitions["debug"] = DebugCommand
  BY DEF Definitions, Commands
<1> QED
  BY <1>1 DEF LunchCommand, CoffeeCommand, RegisterCommand, DebugCommand, Settings, Command,
    AdminOnly, LunchRefused, CoffeeRefused

\* Outcomes and denials are strings of their own.
LEMMA HandledDenied ==
  ASSUME NEW n, NEW f, NEW chat, NEW p, Handled(n, f, chat, p, TRUE) \in Denials
  PROVE  RequestDenial(n, f, chat, p) # "none"
BY DEF Handled, Denials

\* The help of somebody for a chat agrees with the access checks, in any state.
LEMMA HelpMatches ==
  ASSUME NEW p \in Everyone, NEW chat \in ChatTypes, NEW n \in Commands
  PROVE  LET shown == HelpShown(n, chat, p)
             denied == {f \in Forms : Outcome(Message(n, f), chat, p, TRUE) \in Denials}
         IN  shown \cap denied = {} /\ (shown = {} => denied = Forms)
<1> DEFINE d == Definitions[n]
           Out(f) == Outcome(Message(n, f), chat, p, TRUE)
<1>1. /\ d.scope \in Scopes /\ d.help \subseteq Forms \X Scopes
      /\ \E f \in Forms : <<f, d.scope>> \in d.help
      /\ \A e \in d.help : d.scope = "any" \/ e[2] = d.scope
  BY DefinitionFacts
<1>2. /\ CanRun(n, chat, p) \in Denials \cup {"none"}
      /\ CanRun(n, chat, p) = "none" <=>
           ScopeDenial(d.scope, chat, p) = "none" /\ (d.admin => IsAdmin(p))
  BY DEF CanRun, ScopeDenial, Denials
<1>3. ASSUME NEW f \in Forms
      PROVE  Out(f) = IF CanRun(n, chat, p) # "none" THEN CanRun(n, chat, p)
                      ELSE Handled(n, f, chat, p, TRUE)
  <2>1. /\ Message(n, f).name = n /\ Message(n, f).toOther = FALSE /\ Message(n, f).form = f
        /\ n # "kofe"
    BY DEF Message, Commands
  <2> QED
    BY <2>1 DEF Outcome, Resolve
<1>4. ASSUME NEW f \in HelpShown(n, chat, p), f \in Forms, Out(f) \in Denials
      PROVE  FALSE
  <2>1. PICK e \in d.help : f = e[1] /\ ScopeDenial(e[2], chat, p) = "none"
    BY DEF HelpShown
  <2>2. d.admin => IsAdmin(p)
    BY DEF HelpShown
  <2>3. ScopeDenial(d.scope, chat, p) = "none"
    BY <1>1, <2>1 DEF ScopeDenial
  <2>4. RequestDenial(n, f, chat, p) # "none"
    BY <1>2, <1>3, <1>4, <2>2, <2>3, HandledDenied
  <2>5. CASE n \in {"lunch", "coffee"}
    <3>1. f \in {"arg", "bad"} /\ ~GroupAllowed(chat, p)
      BY <2>4, <2>5 DEF RequestDenial, LunchPublishDenial, CoffeeScheduleDenial
    <3>2. e[2] = "group"
      BY <2>1, <2>5, <3>1, CheckedDefinitions
    <3> QED
      BY <2>1, <3>1, <3>2 DEF ScopeDenial
  <2>6. CASE n = "register"
    <3>1. f = "plain"
      BY <2>1, <2>6, CheckedDefinitions
    <3> QED
      BY <2>4, <2>6, <3>1 DEF RequestDenial, RegisterOtherDenial
  <2>7. CASE n \notin {"lunch", "coffee", "register"}
    BY <2>4, <2>7 DEF RequestDenial
  <2> QED
    BY <2>5, <2>6, <2>7
<1>5. ASSUME HelpShown(n, chat, p) = {}
      PROVE  CanRun(n, chat, p) # "none"
  <2>1. ASSUME d.admin => IsAdmin(p)
        PROVE  \A e \in d.help : ScopeDenial(e[2], chat, p) # "none"
    BY <1>5, <2>1 DEF HelpShown
  <2>2. PICK f \in Forms : <<f, d.scope>> \in d.help
    BY <1>1
  <2>3. (d.admin => IsAdmin(p)) => ScopeDenial(d.scope, chat, p) # "none"
    BY <2>1, <2>2
  <2> QED
    BY <1>2, <2>3
<1>6. HelpShown(n, chat, p) \cap {f \in Forms : Out(f) \in Denials} = {}
  BY <1>4
<1>7. HelpShown(n, chat, p) = {} => {f \in Forms : Out(f) \in Denials} = Forms
  BY <1>2, <1>3, <1>5
<1> QED
  BY <1>6, <1>7

\* Whatever /help shows to somebody in a chat is not denied there, and a command of which it
\* shows nothing is denied in every form: for all commands, chats, users, admins and modes.
THEOREM HelpExact == Spec => []HelpIsExact
<1>1. HelpIsExact
  BY HelpMatches DEF HelpIsExact
<1> QED
  BY <1>1, PTL

LEMMA HandledRuns ==
  ASSUME NEW n, NEW f, NEW chat, NEW p, NEW active \in BOOLEAN,
         Handled(n, f, chat, p, active) = "run"
  PROVE  /\ "identity" \in Definitions[n].needs => p # NoOne
         /\ "active" \in Definitions[n].needs => active
         /\ RequestDenial(n, f, chat, p) = "none"
         /\ f \notin Definitions[n].refused
<1>1. RequestDenial(n, f, chat, p) # "run"
  BY DEF RequestDenial, LunchPublishDenial, CoffeeScheduleDenial, RegisterOtherDenial
<1> QED
  BY <1>1 DEF Handled

\* What runs as an announcement runs where group commands are allowed, for an active user.
LEMMA AnnouncementAllowed ==
  ASSUME NEW p \in Everyone, NEW chat \in ChatTypes, NEW name \in {"lunch", "coffee", "kofe"},
         NEW f \in Forms, NEW active \in BOOLEAN,
         Outcome(Message(name, f), chat, p, active) = "run",
         Effect(Resolve(name), f, chat, p) = "announce"
  PROVE  p # NoOne /\ active /\ GroupAllowed(chat, p)
<1> DEFINE n == Resolve(name)
<1>1. n \in {"lunch", "coffee"}
  BY DEF Resolve
<1>2. Handled(n, f, chat, p, active) = "run"
  <2>1. Message(name, f).name = name /\ Message(name, f).form = f
    BY DEF Message
  <2>2. CanRun(n, chat, p) # "run"
    BY DEF CanRun, ScopeDenial
  <2> QED
    BY <2>1, <2>2 DEF Outcome
<1>3. /\ p # NoOne /\ active
      /\ RequestDenial(n, f, chat, p) = "none" /\ f # "bad"
  <2>1. "identity" \in Definitions[n].needs /\ "active" \in Definitions[n].needs
    BY <1>1, CheckedDefinitions DEF Registered
  <2>2. "bad" \in Definitions[n].refused
    BY <1>1, CheckedDefinitions
  <2> QED
    BY <1>2, <2>1, <2>2, HandledRuns
<1>4. f \notin {"on", "off"}
  BY DEF Effect, LunchEffect, CoffeeEffect
<1>5. CASE f = "arg"
  BY <1>1, <1>3, <1>5 DEF RequestDenial, LunchPublishDenial, CoffeeScheduleDenial
<1>6. CASE f = "plain"
  BY <1>1, <1>3, <1>6 DEF Effect, LunchEffect, CoffeeEffect
<1> QED
  BY <1>3, <1>4, <1>5, <1>6 DEF Forms

\* No poll and no meeting is announced from a place that is not for group commands, and the
\* announcer is a known, active user: for all users, admins and debug modes.
THEOREM AnnouncementsInGroups == Spec => []AnnouncedInGroups
<1>1. AnnouncedInGroups
  BY AnnouncementAllowed DEF AnnouncedInGroups, GroupAllowed, DebugEnabled, IsAdmin
<1> QED
  BY <1>1, PTL

-----------------------------------------------------------------------------
(* Sequences of menu scopes.                                               *)

LEMMA SetToSeqFacts ==
  ASSUME NEW S, IsFiniteSet(S)
  PROVE  SetToSeq(S) \in Seq(S) /\ ToSet(SetToSeq(S)) = S
<1> DEFINE n == Cardinality(S)
           s == SetToSeq(S)
<1>1. n \in Nat /\ ExistsBijection(1 .. n, S)
  BY FS_CardinalityType
<1>2. PICK g : g \in Bijection(1 .. n, S)
  BY <1>1, Fun_ExistsBij
<1>3. g \in [1 .. n -> S] /\ IsInjective(g)
  <2> HIDE DEF n
  <2> QED
    BY <1>2 DEF Bijection, Injection, IsInjective
<1>4. s \in [1 .. n -> S] /\ IsInjective(s)
  BY <1>3 DEF SetToSeq
<1>5. s \in Seq(S) /\ DOMAIN s = 1 .. n
  BY <1>1, <1>4
<1>6. s \in Injection(1 .. n, S)
  <2> HIDE DEF s, n
  <2> QED
    BY <1>4, <1>5, Fun_IsInj DEF IsInjective
<1>7. Cardinality(1 .. n) = n
  BY <1>1, FS_Interval
<1>8. s \in Surjection(1 .. n, S)
  <2> HIDE DEF s
  <2> QED
    BY <1>6, <1>7, FS_Injection
<1>9. \A x \in S : \E i \in 1 .. n : s[i] = x
  <2> HIDE DEF s, n
  <2> QED
    BY <1>8 DEF Surjection
<1> HIDE DEF s, n
<1>10. ToSet(s) = S
  BY <1>4, <1>5, <1>9 DEF ToSet
<1> QED
  BY <1>5, <1>10 DEF s

LEMMA ConcatSet ==
  ASSUME NEW S, NEW s \in Seq(S), NEW t \in Seq(S)
  PROVE  ToSet(s \o t) = ToSet(s) \cup ToSet(t)
<1>1. /\ s \o t \in Seq(S) /\ Len(s \o t) = Len(s) + Len(t)
      /\ \A i \in 1 .. Len(s) + Len(t) :
           (s \o t)[i] = IF i <= Len(s) THEN s[i] ELSE t[i - Len(s)]
  BY ConcatProperties
<1>2. DOMAIN (s \o t) = 1 .. Len(s) + Len(t)
  BY <1>1
<1>3. Len(s) \in Nat /\ Len(t) \in Nat /\ DOMAIN s = 1 .. Len(s) /\ DOMAIN t = 1 .. Len(t)
  OBVIOUS
<1>4. ASSUME NEW i \in DOMAIN s PROVE s[i] \in ToSet(s \o t)
  BY <1>1, <1>2, <1>3 DEF ToSet
<1>5. ASSUME NEW i \in DOMAIN t PROVE t[i] \in ToSet(s \o t)
  <2>1. i + Len(s) \in DOMAIN (s \o t) /\ (s \o t)[i + Len(s)] = t[i]
    BY <1>1, <1>2, <1>3
  <2> QED
    BY <2>1 DEF ToSet
<1>6. ASSUME NEW i \in DOMAIN (s \o t) PROVE (s \o t)[i] \in ToSet(s) \cup ToSet(t)
  <2>1. CASE i <= Len(s)
    BY <1>1, <1>2, <1>3, <2>1 DEF ToSet
  <2>2. CASE ~(i <= Len(s))
    <3>1. i - Len(s) \in DOMAIN t /\ (s \o t)[i] = t[i - Len(s)]
      BY <1>1, <1>2, <1>3, <2>2
    <3> QED
      BY <3>1 DEF ToSet
  <2> QED
    BY <2>1, <2>2
<1> QED
  BY <1>4, <1>5, <1>6 DEF ToSet

LEMMA HeadTailSet ==
  ASSUME NEW S, NEW s \in Seq(S), s # <<>>
  PROVE  /\ Head(s) \in S /\ Tail(s) \in Seq(S)
         /\ ToSet(s) = {Head(s)} \cup ToSet(Tail(s))
<1>1. /\ Head(s) \in S /\ Tail(s) \in Seq(S) /\ Len(s) \in Nat \ {0}
      /\ DOMAIN s = 1 .. Len(s) /\ DOMAIN Tail(s) = 1 .. Len(s) - 1
      /\ Head(s) = s[1] /\ \A i \in 1 .. Len(s) - 1 : Tail(s)[i] = s[i + 1]
  OBVIOUS
<1>2. ASSUME NEW i \in DOMAIN s PROVE s[i] \in {Head(s)} \cup ToSet(Tail(s))
  <2>1. CASE i = 1
    BY <1>1, <2>1
  <2>2. CASE i # 1
    <3>1. i - 1 \in DOMAIN Tail(s) /\ Tail(s)[i - 1] = s[i]
      BY <1>1, <2>2
    <3> QED
      BY <3>1 DEF ToSet
  <2> QED
    BY <2>1, <2>2
<1>3. ASSUME NEW i \in DOMAIN Tail(s) PROVE Tail(s)[i] \in ToSet(s)
  <2>1. i + 1 \in DOMAIN s /\ Tail(s)[i] = s[i + 1]
    BY <1>1
  <2> QED
    BY <2>1 DEF ToSet
<1>4. Head(s) \in ToSet(s)
  BY <1>1 DEF ToSet
<1> QED
  BY <1>1, <1>2, <1>3, <1>4 DEF ToSet

LEMMA SharedSet == ToSet(Shared) = {"default", "private", "group"}
<1>1. DOMAIN Shared = 1 .. 3
  BY DEF Shared
<1>2. Shared[1] = "default" /\ Shared[2] = "private" /\ Shared[3] = "group"
  BY DEF Shared
<1> QED
  BY <1>1, <1>2 DEF ToSet

LEMMA EmptyTodo == ToSet(<<>>) = {}
BY DEF ToSet

\* What start-up writes: the shared menus, and the ones of its admins.
LEMMA StartTodo ==
  ASSUME NEW configured \in SUBSET People
  PROVE  /\ Shared \o SetToSeq(configured) \in Seq(MenuScopes)
         /\ ToSet(Shared \o SetToSeq(configured)) = ToSet(Shared) \cup configured
<1>1. SetToSeq(configured) \in Seq(configured) /\ ToSet(SetToSeq(configured)) = configured
  <2>1. IsFiniteSet(configured)
    BY AccessAssumption, FS_Subset
  <2> QED
    BY <2>1, SetToSeqFacts
<1>2. SetToSeq(configured) \in Seq(MenuScopes)
  <2>1. configured \subseteq MenuScopes
    BY DEF MenuScopes
  <2> QED
    BY <1>1, <2>1, SeqMonotonic
<1>3. Shared \in Seq(MenuScopes)
  BY SharedSet DEF Shared, MenuScopes
<1> QED
  BY <1>1, <1>2, <1>3, ConcatSet, ConcatProperties

-----------------------------------------------------------------------------
(* Menus: what they show depends on the rights of their reader alone.      *)

LEMMA MenuType ==
  ASSUME NEW scope
  PROVE  MenuOf(scope) \in SUBSET Commands /\ MenuOf(scope) # Unset
<1>1. MenuOf(scope) \in SUBSET Commands
  BY DEF MenuOf, Visible
<1> QED
  BY <1>1, UnsetAssumption

\* Somebody whose rights and debug mode are the same is shown the same.
LEMMA VisibleKept ==
  ASSUME NEW chat, NEW p, IsAdmin(p)' <=> IsAdmin(p), DebugEnabled(p)' <=> DebugEnabled(p)
  PROVE  Visible(chat, p)' = Visible(chat, p)
<1>1. GroupAllowed(chat, p)' <=> GroupAllowed(chat, p)
  BY DEF GroupAllowed
<1>2. ASSUME NEW scope PROVE ScopeDenial(scope, chat, p)' = ScopeDenial(scope, chat, p)
  BY <1>1 DEF ScopeDenial
<1>3. ASSUME NEW n PROVE HelpShown(n, chat, p)' = HelpShown(n, chat, p)
  BY <1>2 DEF HelpShown
<1> QED
  BY <1>3 DEF Visible

LEMMA MenuKept ==
  ASSUME NEW p \in People, p \in admins' <=> p \in admins, debug'[p] = debug[p]
  PROVE  MenuOf(p)' = MenuOf(p)
BY VisibleKept DEF MenuOf, IsAdmin, DebugEnabled

\* Nothing changes the shared menus, which are those of a message without a sender.
LEMMA SharedKept ==
  ASSUME NEW s \in ToSet(Shared), admins \subseteq People, admins' \subseteq People
  PROVE  MenuOf(s)' = MenuOf(s)
<1>1. s \notin People
  BY SharedSet, AccessAssumption
<1>2. ~IsAdmin(NoOne) /\ ~IsAdmin(NoOne)'
  BY AccessAssumption DEF IsAdmin
<1>3. DebugEnabled(NoOne)' <=> DebugEnabled(NoOne)
  BY AccessAssumption DEF DebugEnabled
<1> QED
  BY <1>1, <1>2, <1>3, VisibleKept DEF MenuOf

\* Without admin rights, everybody is shown the menu of all private chats.
LEMMA PlainMenu ==
  ASSUME NEW p \in People \ admins, admins \subseteq People
  PROVE  MenuOf(p) = MenuOf("private")
<1>1. "private" \notin People /\ NoOne \notin People
  BY AccessAssumption
<1>2. ~IsAdmin(p) /\ ~IsAdmin(NoOne)
  BY <1>1 DEF IsAdmin
<1>3. ASSUME NEW scope PROVE ScopeDenial(scope, "private", p) = ScopeDenial(scope, "private", NoOne)
  BY <1>2 DEF ScopeDenial, GroupAllowed, GroupChats
<1>4. ASSUME NEW n PROVE HelpShown(n, "private", p) = HelpShown(n, "private", NoOne)
  BY <1>2, <1>3 DEF HelpShown
<1>5. Visible("private", p) = Visible("private", NoOne)
  BY <1>4 DEF Visible
<1> QED
  BY <1>1, <1>5 DEF MenuOf

\* /debug is for admins.
LEMMA TogglesOfAdmins ==
  ASSUME NEW h, NEW p, NEW on, Toggle(h, p, on)
  PROVE  p \in admins
<1> DEFINE m == [name |-> "debug", form |-> IF on THEN "on" ELSE "off", toOther |-> FALSE]
<1>1. Outcome(m, "private", p, FALSE) = "run"
  BY DEF Toggle
<1>2. Resolve(m.name) = "debug" /\ "debug" \in Commands
  BY DEF Resolve, Commands
<1>3. CanRun("debug", "private", p) = "none"
  <2>1. CanRun("debug", "private", p) # "run"
    BY DEF CanRun, ScopeDenial
  <2>2. Outcome(m, "private", p, FALSE) = "run" => CanRun("debug", "private", p) \in {"none", "run"}
    BY <1>2 DEF Outcome
  <2> QED
    BY <1>1, <2>1, <2>2
<1> QED
  BY <1>3, CheckedDefinitions DEF CanRun, IsAdmin

-----------------------------------------------------------------------------
(* Type correctness.                                                       *)

LEMMA TypeInit == Init => TypeOK
<1> SUFFICES ASSUME Init PROVE TypeOK
  OBVIOUS
<1>1. menu \in [MenuScopes -> (SUBSET Commands) \cup {Unset}]
  BY DEF Init
<1>2. todo \in Seq(MenuScopes)
  BY DEF Init
<1>3. used \in [{"toggle", "fault", "stop"} -> Nat]
  BY DEF Init
<1> QED
  BY <1>1, <1>2, <1>3 DEF Init, TypeOK

\* A menu call that a handler awaits.
CallOf == [stage : Stages, who : People, names : SUBSET Commands]

LEMMA TypeStep == TypeOK /\ [Next]_vars => TypeOK'
<1> SUFFICES ASSUME TypeOK, [Next]_vars PROVE TypeOK'
  OBVIOUS
<1>1. ASSUME NEW configured \in SUBSET People, Start(configured) PROVE TypeOK'
  BY <1>1, StartTodo DEF TypeOK, Start
<1>2. CASE SetMenu
  <2> DEFINE scope == Head(todo)
  <2>1. scope \in MenuScopes /\ Tail(todo) \in Seq(MenuScopes)
    BY <1>2, HeadTailSet DEF TypeOK, SetMenu
  <2>2. menu' \in [MenuScopes -> (SUBSET Commands) \cup {Unset}]
    BY <1>2, <2>1, MenuType DEF TypeOK, SetMenu
  <2>3. stray' \subseteq People
    BY <1>2 DEF TypeOK, SetMenu
  <2> QED
    BY <1>2, <2>1, <2>2, <2>3 DEF TypeOK, SetMenu
<1>3. CASE SetMenuFails
  BY <1>3 DEF TypeOK, SetMenuFails
<1>4. CASE StartPolling
  BY <1>4 DEF TypeOK, StartPolling
<1>5. CASE Stop
  <2>1. stray' \subseteq People
    BY <1>5 DEF TypeOK, Stop
  <2> QED
    BY <1>5, <2>1 DEF TypeOK, Stop
<1>6. ASSUME NEW h \in Handlers, NEW p \in People, NEW on \in BOOLEAN, Toggle(h, p, on)
      PROVE  TypeOK'
  <2>1. MenuAfterToggle(p) \in SUBSET Commands
    BY DEF MenuAfterToggle, MenuOf, Visible
  <2>2. [stage |-> "sent", who |-> p, names |-> MenuAfterToggle(p)] \in CallOf
    BY <2>1 DEF CallOf, Stages
  <2>3. calls' \in [Handlers -> {Idle} \cup CallOf]
    BY <1>6, <2>2 DEF TypeOK, Toggle, CallOf
  <2>4. debug' \in [People -> BOOLEAN] /\ stray' \subseteq People
    BY <1>6 DEF TypeOK, Toggle
  <2>5. used' \in [{"toggle", "fault", "stop"} -> Nat]
    BY <1>6 DEF TypeOK, Toggle
  <2> QED
    BY <1>6, <2>3, <2>4, <2>5 DEF TypeOK, Toggle, CallOf
<1>7. ASSUME NEW h \in Handlers, Apply(h) PROVE TypeOK'
  <2>1. calls[h] \in CallOf
    BY <1>7 DEF TypeOK, Apply, CallOf
  <2>2. [calls[h] EXCEPT !.stage = "applied"] \in CallOf
    BY <2>1 DEF CallOf, Stages
  <2>3. calls' \in [Handlers -> {Idle} \cup CallOf]
    BY <1>7, <2>2 DEF TypeOK, Apply, CallOf
  <2>4. calls[h].who \in MenuScopes /\ calls[h].names \in SUBSET Commands
    BY <2>1 DEF CallOf, MenuScopes
  <2>5. menu' \in [MenuScopes -> (SUBSET Commands) \cup {Unset}]
    BY <1>7, <2>4 DEF TypeOK, Apply
  <2> QED
    BY <1>7, <2>3, <2>5 DEF TypeOK, Apply, CallOf
<1>8. ASSUME NEW h \in Handlers, Return(h) PROVE TypeOK'
  BY <1>8 DEF TypeOK, Return
<1>9. ASSUME NEW h \in Handlers, Refuse(h) PROVE TypeOK'
  <2>1. calls[h] \in CallOf
    BY <1>9 DEF TypeOK, Refuse, CallOf
  <2>2. calls[h].who \in People
    BY <2>1 DEF CallOf
  <2> QED
    BY <1>9, <2>2 DEF TypeOK, Refuse
<1>10. ASSUME NEW p \in People, OpenChat(p) PROVE TypeOK'
  BY <1>10 DEF TypeOK, OpenChat
<1>11. CASE UNCHANGED vars
  BY <1>11 DEF TypeOK, vars
<1> QED
  BY <1>1, <1>2, <1>3, <1>4, <1>5, <1>6, <1>7, <1>8, <1>9, <1>10, <1>11 DEF Next

\* The state is well typed: menus are sets of commands, a menu that start-up still writes is one
\* of a kind of chats or of a person, and nothing is left to write but while the bot starts.
THEOREM TypeCorrect == Spec => []TypeOK
BY TypeInit, TypeStep, PTL DEF Spec

-----------------------------------------------------------------------------
(* The menu invariant, action by action.                                   *)

LEMMA MenusSteady ==
  ASSUME UNCHANGED <<admins, debug>>
  PROVE  \A s : MenuOf(s)' = MenuOf(s)
<1>1. \A chat, p : Visible(chat, p)' = Visible(chat, p)
  BY VisibleKept DEF IsAdmin, DebugEnabled
<1> QED
  BY <1>1 DEF MenuOf

LEMMA MenuInit == Init => MenuInv
<1> SUFFICES ASSUME Init PROVE MenuInv
  OBVIOUS
<1>1. /\ todo = <<>> /\ up = "down" /\ \A h \in Handlers : calls[h] = Idle
      /\ \A p \in People : menu[p] = Unset
  BY DEF Init, MenuScopes
<1>2. \A p \in People : Awaited(p) = {}
  BY <1>1 DEF Awaited
<1> QED
  BY <1>1, <1>2, EmptyTodo DEF MenuInv, QuietUnlessUp, OpenedOnly, TodoOfAdmins, SharedWritten,
    AdminsWritten, OnTrack, OneCall, CallRight, GivenRight, NeverGiven

LEMMA MenuStart ==
  ASSUME TypeOK, MenuInv, NEW configured \in SUBSET People, Start(configured)
  PROVE  MenuInv'
<1>1. /\ up = "down" /\ up' = "starting" /\ admins' = configured
      /\ stray' = stray \cup (admins \ configured)
      /\ UNCHANGED <<debug, menu, calls, opened, used>>
  BY DEF Start
<1>2. ToSet(todo') = ToSet(Shared) \cup configured /\ ToSet(todo) = {}
  BY <1>1, StartTodo, EmptyTodo DEF Start, TypeOK
<1>3. \A h \in Handlers : calls[h] = Idle /\ calls'[h] = Idle
  BY <1>1 DEF MenuInv, QuietUnlessUp
<1>4. \A p \in People : Awaited(p) = {} /\ Awaited(p)' = {}
  BY <1>3 DEF Awaited
<1>5. QuietUnlessUp' /\ OpenedOnly'
  BY <1>1, <1>3 DEF MenuInv, OpenedOnly, QuietUnlessUp
<1>6. TodoOfAdmins' /\ SharedWritten' /\ AdminsWritten'
  <2>1. \A p \in People : p \notin ToSet(Shared)
    BY SharedSet, AccessAssumption
  <2> QED
    BY <1>1, <1>2, <2>1 DEF TodoOfAdmins, SharedWritten, AdminsWritten
<1>7. ASSUME NEW p \in People \ stray' PROVE OnTrack(p)'
  <2>1. CASE p \in configured
    BY <1>1, <1>2, <1>4, <2>1 DEF OnTrack, OneCall, CallRight, GivenRight, NeverGiven
  <2>2. CASE p \notin configured
    <3>1. p \notin admins /\ p \notin admins' /\ p \notin stray
      BY <1>1, <2>2
    <3>2. MenuOf(p)' = MenuOf(p)
      BY <1>1, <3>1, MenuKept
    <3>3. menu[p] # Unset => menu[p] = MenuOf(p)
      BY <1>2, <1>4, <3>1 DEF MenuInv, OnTrack, GivenRight
    <3> QED
      BY <1>1, <1>4, <3>1, <3>2, <3>3 DEF OnTrack, OneCall, CallRight, GivenRight, NeverGiven
  <2> QED
    BY <2>1, <2>2
<1> QED
  BY <1>5, <1>6, <1>7 DEF MenuInv

LEMMA MenuSet ==
  ASSUME TypeOK, MenuInv, SetMenu
  PROVE  MenuInv'
<1> DEFINE scope == Head(todo)
           unknown == scope \in People \ opened
<1>1. /\ up = "starting" /\ up' = "starting" /\ todo' = Tail(todo)
      /\ menu' = IF unknown THEN menu ELSE [menu EXCEPT ![scope] = MenuOf(scope)]
      /\ stray' = IF unknown THEN stray \cup {scope} ELSE stray \ {scope}
      /\ UNCHANGED <<admins, debug, calls, opened, used>>
  BY DEF SetMenu
<1>2. scope \in MenuScopes /\ ToSet(todo) = {scope} \cup ToSet(todo')
  BY <1>1, HeadTailSet DEF SetMenu, TypeOK
<1>3. \A s : MenuOf(s)' = MenuOf(s) /\ MenuOf(s) # Unset
  BY <1>1, MenusSteady, MenuType
<1>4. \A h \in Handlers : calls[h] = Idle /\ calls'[h] = Idle
  BY <1>1 DEF MenuInv, QuietUnlessUp
<1>5. \A p \in People : Awaited(p) = {} /\ Awaited(p)' = {}
  BY <1>4 DEF Awaited
<1>6. \A s \in MenuScopes :
        menu'[s] = IF s = scope /\ ~unknown THEN MenuOf(s) ELSE menu[s]
  BY <1>1, <1>2 DEF TypeOK
<1>7. /\ People \subseteq MenuScopes /\ ToSet(Shared) \subseteq MenuScopes
      /\ \A s \in ToSet(Shared) : s \notin People
  BY SharedSet, AccessAssumption DEF MenuScopes
<1> HIDE DEF scope
<1>8. QuietUnlessUp' /\ OpenedOnly'
  BY <1>1, <1>4, <1>6, <1>7 DEF MenuInv, QuietUnlessUp, OpenedOnly
<1>9. TodoOfAdmins'
  BY <1>1, <1>2 DEF MenuInv, TodoOfAdmins
<1>10. SharedWritten'
  BY <1>1, <1>2, <1>3, <1>6, <1>7 DEF MenuInv, SharedWritten
<1>11. AdminsWritten'
  <2>1. admins \subseteq People
    BY DEF TypeOK
  <2>2. ASSUME unknown PROVE menu[scope] = Unset
    BY <2>2 DEF MenuInv, OpenedOnly
  <2> QED
    BY <1>1, <1>2, <1>3, <1>6, <1>7, <2>1, <2>2 DEF MenuInv, AdminsWritten
<1>12. ASSUME NEW p \in People \ stray' PROVE OnTrack(p)'
  <2>1. CASE p = scope
    <3>1. menu'[p] = MenuOf(p)'
      BY <1>1, <1>3, <1>6, <1>7, <1>12, <2>1
    <3>2. MenuOf(p)' # Unset
      BY <1>3
    <3> QED
      BY <1>5, <3>1, <3>2 DEF OnTrack, OneCall, CallRight, GivenRight, NeverGiven
  <2>2. CASE p # scope
    <3>1. p \notin stray /\ menu'[p] = menu[p] /\ (p \in ToSet(todo) <=> p \in ToSet(todo'))
      BY <1>1, <1>2, <1>6, <1>7, <1>12, <2>2
    <3>2. OnTrack(p)
      BY <3>1 DEF MenuInv
    <3> QED
      BY <1>1, <1>3, <1>5, <3>1, <3>2 DEF OnTrack, OneCall, CallRight, GivenRight, NeverGiven
  <2> QED
    BY <2>1, <2>2
<1> QED
  BY <1>8, <1>9, <1>10, <1>11, <1>12 DEF MenuInv

\* The process ends while it starts, or later: what was not written, or not sent, is astray.
LEMMA MenuDown ==
  ASSUME TypeOK, MenuInv, SetMenuFails \/ Stop
  PROVE  MenuInv'
<1>1. /\ up' = "down" /\ todo' = <<>>
      /\ UNCHANGED <<admins, debug, menu, opened>>
      /\ \A p \in People \ stray' :
           /\ p \notin stray /\ ~(p \in admins /\ p \in ToSet(todo))
           /\ \A h \in Awaited(p) : calls[h].stage # "sent"
      /\ \A h \in Handlers : calls'[h] = Idle
  <2>1. CASE SetMenuFails
    <3>1. \A h \in Handlers : calls[h] = Idle
      BY <2>1 DEF MenuInv, QuietUnlessUp, SetMenuFails
    <3> QED
      BY <2>1, <3>1 DEF SetMenuFails, Awaited
  <2>2. CASE Stop
    BY <2>2 DEF Stop
  <2> QED
    BY <2>1, <2>2
<1>2. \A s : MenuOf(s)' = MenuOf(s)
  BY <1>1, MenusSteady
<1>3. \A p \in People : Awaited(p)' = {}
  BY <1>1 DEF Awaited
<1>4. QuietUnlessUp' /\ OpenedOnly' /\ TodoOfAdmins' /\ SharedWritten' /\ AdminsWritten'
  BY <1>1, EmptyTodo DEF MenuInv, QuietUnlessUp, OpenedOnly, TodoOfAdmins, SharedWritten,
    AdminsWritten
<1>5. ASSUME NEW p \in People \ stray' PROVE OnTrack(p)'
  <2>1. OnTrack(p) /\ p \notin ToSet(todo)
    BY <1>1, <1>5 DEF MenuInv, TodoOfAdmins
  <2>2. ASSUME NEW h \in Awaited(p) PROVE menu[p] = MenuOf(p)
    <3>1. calls[h] \in CallOf
      BY DEF Awaited, TypeOK, CallOf
    <3>2. calls[h].stage = "applied"
      BY <1>1, <1>5, <3>1 DEF CallOf, Stages
    <3> QED
      BY <2>1, <3>2 DEF OnTrack, CallRight
  <2>3. menu[p] # Unset => menu[p] = MenuOf(p)
    BY <2>1, <2>2 DEF OnTrack, GivenRight
  <2> QED
    BY <1>1, <1>2, <1>3, <2>3 DEF OnTrack, OneCall, CallRight, GivenRight, NeverGiven
<1> QED
  BY <1>4, <1>5 DEF MenuInv

LEMMA MenuPolling ==
  ASSUME TypeOK, MenuInv, StartPolling
  PROVE  MenuInv'
<1>1. /\ up = "starting" /\ up' = "up" /\ UNCHANGED <<admins, debug, menu, calls, opened, todo, stray>>
  BY DEF StartPolling
<1>2. \A s : MenuOf(s)' = MenuOf(s)
  BY <1>1, MenusSteady
<1>3. \A p \in People : Awaited(p)' = Awaited(p)
  BY <1>1 DEF Awaited
<1>4. QuietUnlessUp' /\ OpenedOnly' /\ TodoOfAdmins' /\ SharedWritten' /\ AdminsWritten'
  BY <1>1, <1>2 DEF MenuInv, QuietUnlessUp, OpenedOnly, TodoOfAdmins, SharedWritten, AdminsWritten
<1>5. ASSUME NEW p \in People \ stray' PROVE OnTrack(p)'
  <2>1. OnTrack(p)
    BY <1>1, <1>5 DEF MenuInv
  <2> QED
    BY <1>1, <1>2, <1>3, <2>1 DEF OnTrack, OneCall, CallRight, GivenRight, NeverGiven
<1> QED
  BY <1>4, <1>5 DEF MenuInv

\* /debug: the new call is the only one of somebody who is on track from now on.
LEMMA MenuToggle ==
  ASSUME TypeOK, MenuInv, NEW h \in Handlers, NEW p \in People, NEW on \in BOOLEAN, Toggle(h, p, on)
  PROVE  MenuInv'
<1> DEFINE call == [stage |-> "sent", who |-> p, names |-> MenuAfterToggle(p)]
<1>1. /\ up = "up" /\ calls[h] = Idle /\ p \in opened
      /\ debug' = [debug EXCEPT ![p] = on]
      /\ UNCHANGED <<admins, menu, opened, up, todo>>
      /\ calls' = [calls EXCEPT ![h] = call]
      /\ stray' = IF Awaited(p) = {} THEN stray \ {p} ELSE stray \cup {p}
  BY DEF Toggle
<1>2. todo = <<>> /\ ToSet(todo) = {} /\ ToSet(todo') = {}
  BY <1>1, EmptyTodo DEF TypeOK
<1>3. call # Idle /\ call.who = p /\ call.names = MenuOf(p)' /\ call.stage = "sent"
  BY DEF Idle, MenuAfterToggle
<1> HIDE DEF call
<1>4. \A g \in Handlers : calls'[g] = IF g = h THEN call ELSE calls[g]
  BY <1>1 DEF TypeOK
<1>5. Awaited(p)' = Awaited(p) \cup {h}
  BY <1>1, <1>3, <1>4 DEF Awaited
<1>6. ASSUME NEW q \in People, q # p
      PROVE  /\ Awaited(q)' = Awaited(q) /\ h \notin Awaited(q)
             /\ MenuOf(q)' = MenuOf(q)
  <2>1. debug'[q] = debug[q]
    BY <1>1, <1>6 DEF TypeOK
  <2>2. MenuOf(q)' = MenuOf(q)
    BY <1>1, <2>1, MenuKept
  <2> QED
    BY <1>1, <1>3, <1>4, <1>6, <2>2 DEF Awaited
<1>7. QuietUnlessUp' /\ TodoOfAdmins' /\ AdminsWritten'
  BY <1>1, <1>2 DEF QuietUnlessUp, TodoOfAdmins, AdminsWritten
<1>8. OpenedOnly'
  BY <1>1, <1>3, <1>4 DEF MenuInv, OpenedOnly
<1>9. SharedWritten'
  <2>1. \A s \in ToSet(Shared) : MenuOf(s)' = MenuOf(s)
    BY <1>1, SharedKept DEF TypeOK
  <2> QED
    BY <1>1, <2>1 DEF MenuInv, SharedWritten
<1>10. ASSUME NEW q \in People \ stray' PROVE OnTrack(q)'
  <2>1. CASE q # p
    <3>1. OnTrack(q)
      BY <1>1, <1>10, <2>1 DEF MenuInv
    <3>2. \A g \in Awaited(q) : calls'[g] = calls[g]
      BY <1>4, <1>6, <2>1 DEF Awaited
    <3> QED
      BY <1>1, <1>6, <2>1, <3>1, <3>2 DEF OnTrack, OneCall, CallRight, GivenRight, NeverGiven
  <2>2. CASE q = p
    <3>1. Awaited(p)' = {h}
      BY <1>1, <1>5, <1>10, <2>2
    <3> QED
      BY <1>3, <1>4, <2>2, <3>1 DEF OnTrack, OneCall, CallRight, GivenRight, NeverGiven
  <2> QED
    BY <2>1, <2>2
<1> QED
  BY <1>7, <1>8, <1>9, <1>10 DEF MenuInv

\* A call takes effect: for somebody on track it is the only one, and carries the right menu.
LEMMA MenuApply ==
  ASSUME TypeOK, MenuInv, NEW h \in Handlers, Apply(h)
  PROVE  MenuInv'
<1> DEFINE p == calls[h].who
<1>1. /\ calls[h] # Idle /\ calls[h].stage = "sent"
      /\ menu' = [menu EXCEPT ![p] = calls[h].names]
      /\ calls' = [calls EXCEPT ![h].stage = "applied"]
      /\ UNCHANGED <<admins, debug, opened, up, todo, stray, used>>
  BY DEF Apply
<1>2. calls[h] \in CallOf
  BY <1>1 DEF TypeOK, CallOf
<1>3. p \in People /\ calls[h].names # Unset
  BY <1>2, UnsetAssumption DEF CallOf
<1>4. /\ \A g \in Handlers : g # h => calls'[g] = calls[g]
      /\ calls'[h].stage = "applied" /\ calls'[h].who = p /\ calls'[h].names = calls[h].names
  BY <1>1, <1>2 DEF TypeOK, CallOf
<1>5. calls'[h] # Idle
  BY <1>4 DEF Idle
<1>6. /\ \A s \in MenuScopes : menu'[s] = IF s = p THEN calls[h].names ELSE menu[s]
      /\ People \subseteq MenuScopes /\ ToSet(Shared) \subseteq MenuScopes
      /\ \A s \in ToSet(Shared) : s # p
  BY <1>1, <1>3, SharedSet, AccessAssumption DEF TypeOK, MenuScopes
<1>7. \A s : MenuOf(s)' = MenuOf(s)
  BY <1>1, MenusSteady
<1>8. h \in Awaited(p) /\ \A q \in People : Awaited(q)' = Awaited(q)
  BY <1>1, <1>4, <1>5 DEF Awaited
<1>9. up = "up"
  BY <1>1 DEF MenuInv, QuietUnlessUp, TypeOK
<1> HIDE DEF p
<1>10. QuietUnlessUp' /\ TodoOfAdmins' /\ AdminsWritten' /\ SharedWritten'
  BY <1>1, <1>6, <1>7, <1>9 DEF MenuInv, QuietUnlessUp, TodoOfAdmins, AdminsWritten, SharedWritten
<1>11. OpenedOnly'
  <2>1. p \in opened
    BY <1>1 DEF MenuInv, OpenedOnly, p
  <2> QED
    BY <1>1, <1>4, <1>6, <2>1 DEF MenuInv, OpenedOnly
<1>12. ASSUME NEW q \in People \ stray' PROVE OnTrack(q)'
  <2>1. OnTrack(q)
    BY <1>1, <1>12 DEF MenuInv
  <2>2. CASE q # p
    <3>1. \A g \in Awaited(q) : calls'[g] = calls[g]
      BY <1>4, <2>2 DEF Awaited, p
    <3>2. menu'[q] = menu[q]
      BY <1>6, <2>2
    <3> QED
      BY <1>1, <1>7, <1>8, <2>1, <3>1, <3>2 DEF OnTrack, OneCall, CallRight, GivenRight, NeverGiven
  <2>3. CASE q = p
    <3>1. Awaited(q) = {h} /\ calls[h].names = MenuOf(q)
      BY <1>8, <2>1, <2>3 DEF OnTrack, OneCall, CallRight
    <3>2. menu'[q] = calls[h].names
      BY <1>6, <2>3
    <3>3. menu'[q] = MenuOf(q)' /\ menu'[q] # Unset
      BY <1>3, <1>7, <3>1, <3>2
    <3>4. Awaited(q)' = {h} /\ calls'[h].names = MenuOf(q)'
      BY <1>4, <1>7, <1>8, <3>1
    <3> QED
      BY <3>3, <3>4 DEF OnTrack, OneCall, CallRight, GivenRight, NeverGiven
  <2> QED
    BY <2>2, <2>3
<1> QED
  BY <1>10, <1>11, <1>12 DEF MenuInv

\* A call ends: its menu is there, or its user is astray.
LEMMA MenuEnds ==
  ASSUME TypeOK, MenuInv, NEW h \in Handlers, Return(h) \/ Refuse(h)
  PROVE  MenuInv'
<1>1. /\ calls[h] # Idle /\ calls' = [calls EXCEPT ![h] = Idle]
      /\ UNCHANGED <<admins, debug, menu, opened, up, todo>>
      /\ \/ calls[h].stage = "applied" /\ stray' = stray
         \/ stray' = stray \cup {calls[h].who}
  BY DEF Return, Refuse
<1>2. \A g \in Handlers : calls'[g] = IF g = h THEN Idle ELSE calls[g]
  BY <1>1 DEF TypeOK
<1>3. \A s : MenuOf(s)' = MenuOf(s)
  BY <1>1, MenusSteady
<1>4. \A q \in People : Awaited(q)' = Awaited(q) \ {h}
  BY <1>2 DEF Awaited
<1>5. QuietUnlessUp' /\ OpenedOnly' /\ TodoOfAdmins' /\ SharedWritten' /\ AdminsWritten'
  BY <1>1, <1>2, <1>3 DEF MenuInv, QuietUnlessUp, OpenedOnly, TodoOfAdmins, SharedWritten,
    AdminsWritten
<1>6. ASSUME NEW q \in People \ stray' PROVE OnTrack(q)'
  <2>1. OnTrack(q)
    BY <1>1, <1>6 DEF MenuInv
  <2>2. \A g \in Awaited(q)' : g \in Awaited(q) /\ calls'[g] = calls[g]
    BY <1>2, <1>4 DEF Awaited
  <2>3. OneCall(q)' /\ CallRight(q)'
    BY <1>1, <1>3, <2>1, <2>2 DEF OnTrack, OneCall, CallRight
  <2>4. CASE h \in Awaited(q)
    <3>1. calls[h].stage = "applied"
      BY <1>1, <1>6, <2>4 DEF Awaited
    <3>2. menu'[q] = MenuOf(q)' /\ MenuOf(q)' # Unset
      BY <1>1, <1>3, <2>1, <2>4, <3>1, MenuType DEF OnTrack, CallRight
    <3> QED
      BY <2>3, <3>2 DEF OnTrack, GivenRight, NeverGiven
  <2>5. CASE h \notin Awaited(q)
    <3>1. Awaited(q)' = Awaited(q)
      BY <1>4, <2>5
    <3> QED
      BY <1>1, <1>3, <2>1, <2>3, <3>1 DEF OnTrack, GivenRight, NeverGiven
  <2> QED
    BY <2>4, <2>5
<1> QED
  BY <1>5, <1>6 DEF MenuInv

LEMMA MenuElsewhere ==
  ASSUME TypeOK, MenuInv, (\E p \in People : OpenChat(p)) \/ UNCHANGED vars
  PROVE  MenuInv'
<1>1. /\ UNCHANGED <<admins, debug, menu, calls, up, todo, stray>>
      /\ opened \subseteq opened'
  BY DEF OpenChat, vars
<1>2. \A s : MenuOf(s)' = MenuOf(s)
  BY <1>1, MenusSteady
<1>3. \A p \in People : Awaited(p)' = Awaited(p)
  BY <1>1 DEF Awaited
<1>4. QuietUnlessUp' /\ OpenedOnly' /\ TodoOfAdmins' /\ SharedWritten' /\ AdminsWritten'
  BY <1>1, <1>2 DEF MenuInv, QuietUnlessUp, OpenedOnly, TodoOfAdmins, SharedWritten, AdminsWritten
<1>5. ASSUME NEW p \in People \ stray' PROVE OnTrack(p)'
  <2>1. OnTrack(p)
    BY <1>1, <1>5 DEF MenuInv
  <2> QED
    BY <1>1, <1>2, <1>3, <2>1 DEF OnTrack, OneCall, CallRight, GivenRight, NeverGiven
<1> QED
  BY <1>4, <1>5 DEF MenuInv

LEMMA MenuStep == TypeOK /\ MenuInv /\ [Next]_vars => MenuInv'
<1> SUFFICES ASSUME TypeOK, MenuInv, [Next]_vars PROVE MenuInv'
  OBVIOUS
<1> QED
  BY MenuStart, MenuSet, MenuDown, MenuPolling, MenuToggle, MenuApply, MenuEnds, MenuElsewhere
  DEF Next

\* The invariant behind the menus, for any people and any numbers of concurrent /debug commands.
THEOREM MenuInvariant == Spec => []MenuInv
<1>1. Init => MenuInv
  BY MenuInit
<1>2. TypeOK /\ MenuInv /\ [Next]_vars => MenuInv'
  BY MenuStep
<1> QED
  BY <1>1, <1>2, TypeCorrect, PTL DEF Spec

\* While the bot is up, the shared menus are what everybody may use, and the menu in somebody's
\* private chat what they may use, from the answer to their /debug on and across restarts with
\* other admins, unless it is astray.
THEOREM MenusHonest == Spec => []MenuHonest
<1>1. ASSUME TypeOK, MenuInv PROVE MenuHonest
  <2> SUFFICES ASSUME up = "up" PROVE MenuHonest
    BY DEF MenuHonest
  <2>1. ToSet(todo) = {}
    BY <1>1, EmptyTodo DEF TypeOK
  <2>2. \A s \in ToSet(Shared) : menu[s] = MenuOf(s)
    BY <1>1, <2>1 DEF MenuInv, SharedWritten
  <2>3. ASSUME NEW p \in People \ stray, Awaited(p) = {} PROVE MenuSeen(p) = MenuOf(p)
    <3>1. OnTrack(p)
      BY <1>1 DEF MenuInv
    <3>2. CASE menu[p] # Unset
      BY <2>1, <2>3, <3>1, <3>2 DEF OnTrack, GivenRight, MenuSeen
    <3>3. CASE menu[p] = Unset
      <4>1. p \notin admins
        BY <2>1, <2>3, <3>1, <3>3 DEF OnTrack, NeverGiven
      <4>2. MenuOf(p) = MenuOf("private")
        BY <1>1, <4>1, PlainMenu DEF TypeOK
      <4> QED
        BY <2>2, <3>3, <4>2, SharedSet DEF MenuSeen
    <3> QED
      BY <3>2, <3>3
  <2> QED
    BY <2>2, <2>3 DEF MenuHonest
<1> QED
  BY <1>1, TypeCorrect, MenuInvariant, PTL

\* A start-up mends the menus of all its admins, whatever calls went wrong before it.
THEOREM StartMendsMenus == Spec => StartMends
<1>1. ASSUME TypeOK, MenuInv, MenuInv', [Next]_vars, up = "starting", up' = "up"
      PROVE  \A p \in admins' : menu'[p] \in {Unset, MenuOf(p)'}
  <2>1. StartPolling
    BY <1>1 DEF Next, Start, SetMenu, SetMenuFails, Stop, Toggle, Apply, Return, Refuse, OpenChat, vars
  <2>2. ToSet(todo) = {} /\ UNCHANGED <<admins, debug, menu>>
    BY <2>1, EmptyTodo DEF StartPolling
  <2>3. \A s : MenuOf(s)' = MenuOf(s)
    BY <2>2, MenusSteady
  <2> QED
    BY <1>1, <2>2, <2>3 DEF MenuInv, AdminsWritten
<1> QED
  BY <1>1, TypeCorrect, MenuInvariant, PTL DEF Spec, StartMends
=============================================================================
