----------------------- MODULE RegistrationFlow_proofs -----------------------
(***************************************************************************)
(* Theorems about RegistrationFlow, for any users, names, members, numbers *)
(* of waiting handlers and budgets: its state is well typed and no step of *)
(* a conversation lacks an answer, Splitwise links are unique and live, no *)
(* blocked user is ever asked to confirm, and the code implements UserLife.*)
(***************************************************************************)
EXTENDS RegistrationFlow, TLAPS

\* What a draft that reached a step contains.
Answered(d) ==
  /\ d.step \in Steps \ {"name"} => d.name # NoName
  /\ d.step = "coffee" => d.lunch # "unasked"

\* The conversations and the handlers that wait: typed, with complete drafts, and the
\* confirmation of a re-registration never open for a blocked user.  The latter is what
\* makes ConfirmYes harmless, which does not look at the status.
Conversations ==
  /\ session \in [Users -> Session \cup {NoSession}]
  /\ tasks \in [Tasks -> Task \cup {Idle}]
  /\ \A a \in Users : session[a] # NoSession => Answered(session[a])
  /\ \A a \in Users :
       session[a].step = "confirm" => status[session[a].target] \notin Blocked
  /\ \A t \in Tasks : tasks[t].kind = "lookup" =>
       tasks[t].draft.step = "splitwise" /\ tasks[t].draft.name # NoName

\* The tables, and the bounds.
Tables ==
  /\ status \in [Users -> Status] /\ name \in [Users -> Names \cup {NoName}]
  /\ link \in [Users -> Members \cup {NoMember}] /\ prefs \in [Users -> Preferences]
  /\ requests \subseteq Users /\ told \subseteq Users
  /\ budget \in [BudgetKinds -> Nat]
  /\ \A u \in Users : name[u] = NoName <=> status[u] = "none"
  /\ LinksLive

RInv == Tables /\ Conversations

\* Tables as the abstract specification sees them.
Unmoved == UNCHANGED <<status, name, link>>

-----------------------------------------------------------------------------
(* Conversations when the tables may change.                               *)

\* No step blocks a user.
NobodyBlocked == \A u \in Users : status'[u] \in Blocked => status[u] \in Blocked

\* The invariant of a conversation survives when each session and each task is kept or
\* replaced by one that meets it.
LEMMA ConversationsKept ==
  ASSUME Conversations, NobodyBlocked,
         session' \in [Users -> Session \cup {NoSession}],
         tasks' \in [Tasks -> Task \cup {Idle}],
         \A a \in Users : session'[a] # session[a] =>
           \/ session'[a] = NoSession
           \/ /\ Answered(session'[a])
              /\ session'[a].step = "confirm" => status[session'[a].target] \notin Blocked,
         \A t \in Tasks : tasks'[t] # tasks[t] /\ tasks'[t].kind = "lookup" =>
           tasks'[t].draft.step = "splitwise" /\ tasks'[t].draft.name # NoName
  PROVE  Conversations'
<1>1. ASSUME NEW a \in Users, session'[a] # NoSession
      PROVE  Answered(session'[a])
  BY <1>1 DEF Conversations
<1>2. ASSUME NEW a \in Users, session'[a].step = "confirm"
      PROVE  status'[session'[a].target] \notin Blocked
  <2>1. session'[a] \in Session
    BY <1>2 DEF NoSession
  <2>2. session'[a].target \in Users
    BY <2>1 DEF Session
  <2>3. status[session'[a].target] \notin Blocked
    BY <1>2 DEF Conversations, NoSession
  <2> QED
    BY <2>2, <2>3 DEF NobodyBlocked
<1>3. ASSUME NEW t \in Tasks, tasks'[t].kind = "lookup"
      PROVE  tasks'[t].draft.step = "splitwise" /\ tasks'[t].draft.name # NoName
  BY <1>3 DEF Conversations
<1> QED
  BY <1>1, <1>2, <1>3 DEF Conversations, Answered

\* A well-typed draft, and the sessions and tasks made from it.
LEMMA NewSessions ==
  ASSUME NEW d \in Session, NEW s \in Steps, NEW n \in Names,
         NEW m \in Members \cup {NoMember}, NEW c \in Choice
  PROVE  /\ [d EXCEPT !.step = s] \in Session
         /\ [d EXCEPT !.step = s, !.name = n] \in Session
         /\ [d EXCEPT !.step = s, !.lunch = c] \in Session
         /\ [d EXCEPT !.link = m] \in Session
  BY DEF Session

-----------------------------------------------------------------------------
(* The transactions of a registration.                                     *)

\* A handler that ends, or turns to its notice, is a typed task without a lookup.
LEMMA TaskEnds ==
  ASSUME Conversations, NEW t \in Tasks, EndTask(t)
  PROVE  /\ tasks' \in [Tasks -> Task \cup {Idle}]
         /\ \A s \in Tasks : tasks'[s] # tasks[s] => tasks'[s].kind # "lookup"
BY DEF Conversations, EndTask, Idle

\* Ending the conversations of some users is typed, and the rest stay.
LEMMA SessionEnds ==
  ASSUME Conversations, NEW a \in Users, Forget(a)
  PROVE  /\ session' \in [Users -> Session \cup {NoSession}]
         /\ \A b \in Users : session'[b] # session[b] => session'[b] = NoSession
BY DEF Conversations, Forget

\* After a crash no conversation and no handler is left.
LEMMA MemoryGone ==
  ASSUME Conversations, MemoryLost, NobodyBlocked
  PROVE  Conversations'
<1>1. /\ session' \in [Users -> Session \cup {NoSession}]
      /\ tasks' \in [Tasks -> Task \cup {Idle}]
      /\ \A a \in Users : session'[a] = NoSession
      /\ \A t \in Tasks : tasks'[t].kind # "lookup"
  BY DEF MemoryLost, Idle
<1> QED
  BY <1>1, ConversationsKept

\* Each event of the bounds is counted down within the naturals.
LEMMA SpendTyped ==
  ASSUME budget \in [BudgetKinds -> Nat], NEW k \in BudgetKinds, Spend(k)
  PROVE  budget' \in [BudgetKinds -> Nat]
BY DEF Spend

\* What the draft of a completed registration is: a user, a name and a member.
Completable(d) == d \in Session /\ d.name # NoName

\* What complete() reads from such a draft has its type.
LEMMA DraftTyped ==
  ASSUME NEW d, Completable(d)
  PROVE  /\ d.target \in Users /\ d.name \in Names /\ d.link \in Members \cup {NoMember}
         /\ d.name # NoName
BY DEF Completable, Session

\* Links stay unique and live when a user who waits is saved with a free member ...
LEMMA LinkSaved ==
  ASSUME Tables, NEW u \in Users, NEW m \in Members \cup {NoMember},
         MemberFree(u, m),
         status' = [status EXCEPT ![u] = "pending"], link' = [link EXCEPT ![u] = m]
  PROVE  LinksLive' /\ link' \in [Users -> Members \cup {NoMember}]
<1>1. link' \in [Users -> Members \cup {NoMember}]
  BY DEF Tables
<1>2. ASSUME NEW v \in Users PROVE MemberFree(v, link[v])'
  <2>1. CASE v = u
    BY <2>1 DEF Tables, MemberFree
  <2>2. CASE v # u
    <3>1. link'[v] = link[v] /\ MemberFree(v, link[v])
      BY <2>2 DEF Tables, LinksLive
    <3>2. ASSUME NEW w \in Users \ {v}, link[v] # NoMember PROVE link'[w] # link[v]
      <4>1. CASE w = u
        BY <2>2, <3>2, <4>1 DEF Tables, MemberFree
      <4>2. CASE w # u
        BY <3>1, <3>2, <4>2 DEF Tables, MemberFree
      <4> QED BY <4>1, <4>2
    <3> QED BY <3>1, <3>2 DEF MemberFree
  <2> QED BY <2>1, <2>2
<1>3. ASSUME NEW v \in Users, status'[v] \in Unregistered PROVE link'[v] = NoMember
  <2>1. v # u /\ status[v] \in Unregistered
    BY <1>3 DEF Tables, Unregistered
  <2> QED BY <2>1 DEF Tables, LinksLive
<1> QED BY <1>1, <1>2, <1>3 DEF LinksLive

\* ... and when the status is saved and the link is not.
LEMMA LinkUnsaved ==
  ASSUME Tables, NEW u \in Users,
         status' = [status EXCEPT ![u] = "pending"], UNCHANGED link
  PROVE  LinksLive' /\ link' \in [Users -> Members \cup {NoMember}]
<1>1. ASSUME NEW v \in Users PROVE MemberFree(v, link[v])'
  BY DEF Tables, LinksLive, MemberFree
<1>2. ASSUME NEW v \in Users, status'[v] \in Unregistered PROVE link'[v] = NoMember
  BY <1>2 DEF Tables, LinksLive, Unregistered
<1> QED BY <1>1, <1>2 DEF Tables, LinksLive

\* The first transaction: a user who waits, under the name of the draft.
LEMMA UserSaved ==
  ASSUME Tables, NEW d, Completable(d), SaveUser(d.target, d)
  PROVE  /\ status' \in [Users -> Status] /\ name' \in [Users -> Names \cup {NoName}]
         /\ \A u \in Users : name'[u] = NoName <=> status'[u] = "none"
         /\ NobodyBlocked
<1>1. d.target \in Users /\ d.name \in Names /\ d.name # NoName
  BY DraftTyped
<1>2. status' = [status EXCEPT ![d.target] = "pending"] /\ name' = [name EXCEPT ![d.target] = d.name]
  BY DEF SaveUser
<1> QED BY <1>1, <1>2 DEF Tables, Status, NobodyBlocked, Blocked

\* Whatever part of a registration is saved, the invariant holds and the abstract user
\* asked to be let in.
LEMMA SaveKeeps ==
  ASSUME RInv, NEW a \in Users, NEW t \in Tasks, NEW d, Completable(d),
         NEW p \in Preferences, status[d.target] \notin Blocked, Save(a, t, d, p)
  PROVE  RInv' /\ UserLifeSpec!Ask(d.target)
<1> DEFINE u == d.target
<1>1. u \in Users /\ d.name \in Names /\ d.link \in Members \cup {NoMember} /\ d.name # NoName
  BY DraftTyped
<1>2. SaveUser(u, d)
  BY DEF Save, SaveAll, SaveClashes, SaveStops
<1>3. /\ status' \in [Users -> Status] /\ name' \in [Users -> Names \cup {NoName}]
      /\ \A v \in Users : name'[v] = NoName <=> status'[v] = "none"
      /\ NobodyBlocked
  BY <1>2, UserSaved DEF RInv
<1>4. /\ status' = [status EXCEPT ![u] = "pending"]
      /\ name' = [name EXCEPT ![u] = d.name]
  BY <1>2 DEF SaveUser
<1>5. \/ UNCHANGED link
      \/ MemberFree(u, d.link) /\ link' = [link EXCEPT ![u] = d.link]
  BY DEF Save, SaveAll, SaveClashes, SaveStops, SaveLink
<1>6. LinksLive' /\ link' \in [Users -> Members \cup {NoMember}]
  BY <1>1, <1>4, <1>5, LinkSaved, LinkUnsaved DEF RInv
<1>7. /\ requests' \subseteq Users /\ told' \subseteq Users
      /\ prefs' \in [Users -> Preferences] /\ budget' \in [BudgetKinds -> Nat]
  <2>1. /\ requests \subseteq Users /\ told \subseteq Users
        /\ prefs \in [Users -> Preferences] /\ budget \in [BudgetKinds -> Nat]
    BY DEF RInv, Tables
  <2>2. (requests' = requests \/ requests' = requests \ {u}) /\ told' = told \ {u}
    BY DEF Save, SaveAll, SaveClashes, SaveStops, ClearRequest
  <2>3. prefs' = prefs \/ prefs' = [prefs EXCEPT ![u] = p]
    BY DEF Save, SaveAll, SaveClashes, SaveStops, SavePreferences
  <2>4. budget' = budget \/ Spend("clash") \/ Spend("crash")
    BY DEF Save, SaveAll, SaveClashes, SaveStops
  <2>5. budget' \in [BudgetKinds -> Nat]
    BY <2>1, <2>4, SpendTyped DEF BudgetKinds
  <2> QED BY <2>1, <2>2, <2>3, <2>5
<1>8. Tables'
  BY <1>3, <1>6, <1>7 DEF Tables
<1>9. Conversations'
  <2>1. CASE SaveAll(a, t, d, p)
    <3>1. Forget(a) /\ tasks' = [tasks EXCEPT ![t] = NoticeOf(d)]
      BY <2>1 DEF SaveAll
    <3>2. NoticeOf(d) \in Task /\ NoticeOf(d).kind # "lookup"
      BY <1>1 DEF NoticeOf, Task, Details, DraftDetails
    <3>3. /\ tasks' \in [Tasks -> Task \cup {Idle}]
          /\ \A s \in Tasks : tasks'[s] # tasks[s] => tasks'[s].kind # "lookup"
      BY <3>1, <3>2 DEF RInv, Conversations
    <3> QED BY <3>1, <3>3, <1>3, SessionEnds, ConversationsKept DEF RInv
  <2>2. CASE SaveClashes(t, d)
    <3>1. EndTask(t) /\ session' = session
      BY <2>2 DEF SaveClashes
    <3>2. session' \in [Users -> Session \cup {NoSession}]
      BY <3>1 DEF RInv, Conversations
    <3> QED BY <3>1, <3>2, <1>3, TaskEnds, ConversationsKept DEF RInv
  <2>3. CASE SaveStops(d)
    BY <2>3, <1>3, MemoryGone DEF SaveStops, RInv
  <2> QED BY <2>1, <2>2, <2>3 DEF Save
<1>10. UserLifeSpec!Ask(u)
  <2>1. status[u] \notin UserLifeSpec!Blocked
    BY DEF Blocked, UserLifeSpec!Blocked
  <2>2. \E n \in Names : name' = [name EXCEPT ![u] = n]
    BY <1>1, <1>4
  <2>3. \/ UNCHANGED link
        \/ \E m \in Members \cup {NoMember} :
             UserLifeSpec!Free(u, m) /\ link' = [link EXCEPT ![u] = m]
    BY <1>1, <1>5 DEF MemberFree, UserLifeSpec!Free
  <2> QED BY <1>4, <2>1, <2>2, <2>3 DEF UserLifeSpec!Ask
<1> QED BY <1>8, <1>9, <1>10 DEF RInv

-----------------------------------------------------------------------------
(* One lemma for each action: the invariant holds afterwards, and the      *)
(* tables are unmoved or took a step of UserLife.                          *)

LifeStep == Unmoved \/ UserLifeSpec!Next

\* Steps that touch no table keep what is said about them.
LEMMA TablesQuiet ==
  ASSUME Tables, UNCHANGED <<status, name, link, prefs, requests>>,
         told' \subseteq Users, budget' \in [BudgetKinds -> Nat]
  PROVE  Tables' /\ NobodyBlocked /\ LifeStep
BY DEF Tables, LinksLive, MemberFree, NobodyBlocked, LifeStep, Unmoved

\* complete(), whatever the outcome.
LEMMA CompleteKeeps ==
  ASSUME RInv, NEW a \in Users, NEW t \in Tasks, NEW d, Completable(d),
         NEW p \in Preferences, Complete(a, t, d, p)
  PROVE  RInv' /\ LifeStep
<1>1. d.target \in Users /\ prefs[d.target] \in Preferences
  BY DraftTyped DEF RInv, Tables
<1>2. CASE status[d.target] \notin Blocked /\ \E q \in Preferences : Save(a, t, d, q)
  <2>1. PICK q \in Preferences : Save(a, t, d, q)
    BY <1>2
  <2>2. RInv' /\ UserLifeSpec!Ask(d.target)
    BY <1>2, <2>1, SaveKeeps
  <2> QED BY <1>1, <2>2 DEF LifeStep, UserLifeSpec!Next
<1>3. CASE AlreadyPending(a, t, d)
  <2>1. UNCHANGED <<status, name, link, prefs, told, budget>> /\ ClearRequest(d.target)
    BY <1>3 DEF AlreadyPending
  <2>2. Tables' /\ NobodyBlocked /\ LifeStep
    BY <2>1 DEF RInv, Tables, LinksLive, MemberFree, NobodyBlocked, LifeStep, Unmoved, ClearRequest
  <2>3. Conversations'
    BY <1>3, <2>2, SessionEnds, TaskEnds, ConversationsKept DEF AlreadyPending, RInv
  <2> QED BY <2>2, <2>3 DEF RInv
<1>4. CASE AlreadyActive(a, t, d)
  <2>1. Tables' /\ NobodyBlocked /\ LifeStep
    BY <1>4, TablesQuiet DEF AlreadyActive, RInv, Tables
  <2> DEFINE e == [d EXCEPT !.step = "confirm"]
  <2>2. e \in Session /\ Answered(e) /\ e.target = d.target
    BY DEF Completable, Session, Steps, Answered
  <2>3. /\ session' \in [Users -> Session \cup {NoSession}]
        /\ \A b \in Users : session'[b] # session[b] => session'[b] \in {NoSession, e}
    BY <1>4, <2>2 DEF AlreadyActive, RInv, Conversations
  <2>4. status[e.target] \notin Blocked
    BY <1>4, <2>2 DEF AlreadyActive, Blocked
  <2>5. Conversations'
    BY <1>4, <2>1, <2>2, <2>3, <2>4, TaskEnds, ConversationsKept DEF AlreadyActive, RInv
  <2> QED BY <2>1, <2>5 DEF RInv
<1>5. CASE RegistrationBlocked(a, t, d)
  <2>1. Tables' /\ NobodyBlocked /\ LifeStep
    BY <1>5, TablesQuiet DEF RegistrationBlocked, RInv, Tables
  <2>2. Conversations'
    BY <1>5, <2>1, SessionEnds, TaskEnds, ConversationsKept DEF RegistrationBlocked, RInv
  <2> QED BY <2>1, <2>2 DEF RInv
<1> QED
  BY <1>1, <1>2, <1>3, <1>4, <1>5
  DEF Complete, Created, UpdatedPending, Unregistered, Blocked

\* The Splitwise step, before or after its answer.
LEMMA ContinueKeeps ==
  ASSUME RInv, NEW a \in Users, NEW t \in Tasks, NEW d, Completable(d),
         NEW m \in Members \cup {NoMember}, Continue(a, t, d, m)
  PROVE  RInv' /\ LifeStep
<1> DEFINE e == [d EXCEPT !.link = m]
           f == [e EXCEPT !.step = "lunch"]
<1>1. Completable(e) /\ e.target \in Users /\ prefs[e.target] \in Preferences /\ e.target = d.target
  BY DEF Completable, Session, RInv, Tables
<1>2. CASE Complete(a, t, e, prefs[d.target])
  BY <1>1, <1>2, CompleteKeeps
<1>3. CASE /\ session' = [session EXCEPT ![a] = f]
           /\ EndTask(t)
           /\ UNCHANGED <<status, name, link, prefs, requests, told, budget>>
  <2>1. Tables' /\ NobodyBlocked /\ LifeStep
    BY <1>3, TablesQuiet DEF RInv, Tables
  <2>2. f \in Session /\ Answered(f) /\ f.step # "confirm"
    BY <1>1 DEF Completable, Session, Steps, Answered
  <2>3. /\ session' \in [Users -> Session \cup {NoSession}]
        /\ \A b \in Users : session'[b] # session[b] => session'[b] = f
    BY <1>3, <2>2 DEF RInv, Conversations
  <2>4. Conversations'
    BY <1>3, <2>1, <2>2, <2>3, TaskEnds, ConversationsKept DEF RInv
  <2> QED BY <2>1, <2>4 DEF RInv
<1> QED BY <1>2, <1>3 DEF Continue

\* Steps of a conversation that only replace the sessions of one user.
LEMMA SessionMoves ==
  ASSUME RInv, NEW a \in Users, NEW e \in Session, Answered(e), e.step # "confirm",
         session' = [session EXCEPT ![a] = e],
         UNCHANGED <<status, name, link, prefs, requests, tasks, told>>,
         budget' \in [BudgetKinds -> Nat]
  PROVE  RInv' /\ LifeStep
<1>1. Tables' /\ NobodyBlocked /\ LifeStep
  BY TablesQuiet DEF RInv, Tables
<1>2. /\ session' \in [Users -> Session \cup {NoSession}]
      /\ \A b \in Users : session'[b] # session[b] => session'[b] = e
  BY DEF RInv, Conversations
<1>3. tasks' \in [Tasks -> Task \cup {Idle}]
  BY DEF RInv, Conversations
<1> QED BY <1>1, <1>2, <1>3, ConversationsKept DEF RInv

\* A session at a step of the conversation is a draft.
LEMMA AtDraft ==
  ASSUME RInv, NEW a \in Users, NEW s \in Steps, At(a, s)
  PROVE  /\ session[a] \in Session /\ Answered(session[a])
         /\ s # "name" => Completable(session[a])
<1>1. session[a] # NoSession
  BY DEF At, NoSession, Steps
<1>2. session[a] \in Session /\ Answered(session[a])
  BY <1>1 DEF RInv, Conversations
<1>3. s # "name" => Completable(session[a])
  BY <1>2 DEF At, Answered, Completable
<1> QED BY <1>2, <1>3

\* Every answer in a conversation, and cancelling it.
LEMMA MessageKeeps ==
  ASSUME RInv, NEW a \in Users, Message(a)
  PROVE  RInv' /\ LifeStep
<1>1. ASSUME NEW n \in Names, TellName(a, n) PROVE RInv' /\ LifeStep
  <2> DEFINE e == [session[a] EXCEPT !.step = "splitwise", !.name = n]
  <2>1. session[a] \in Session
    BY <1>1, AtDraft DEF TellName, Steps
  <2>2. e \in Session /\ Answered(e) /\ e.step # "confirm"
    BY <2>1, NullsAssumption DEF Session, Steps, Answered
  <2>3. budget' \in [BudgetKinds -> Nat]
    BY <1>1 DEF TellName, RInv, Tables
  <2> QED BY <1>1, <2>2, <2>3, SessionMoves DEF TellName
<1>2. ASSUME NEW t \in Tasks, SkipSplitwise(a, t) PROVE RInv' /\ LifeStep
  <2>1. Completable(session[a])
    BY <1>2, AtDraft DEF SkipSplitwise, Steps
  <2> QED BY <1>2, <2>1, ContinueKeeps DEF SkipSplitwise
<1>3. ASSUME NEW t \in Tasks, AskSplitwise(a, t) PROVE RInv' /\ LifeStep
  <2> DEFINE k == [kind |-> "lookup", actor |-> a, draft |-> session[a]]
  <2>1. Completable(session[a]) /\ session[a].step = "splitwise"
    BY <1>3, AtDraft DEF AskSplitwise, Steps, At
  <2>2. k \in Task
    BY <2>1 DEF Task, Completable
  <2>3. /\ tasks' \in [Tasks -> Task \cup {Idle}]
        /\ \A s \in Tasks : tasks'[s] # tasks[s] => tasks'[s] = k
    BY <1>3, <2>2 DEF AskSplitwise, RInv, Conversations
  <2>4. Tables' /\ NobodyBlocked /\ LifeStep
    BY <1>3, TablesQuiet DEF AskSplitwise, RInv, Tables
  <2>5. session' = session /\ session' \in [Users -> Session \cup {NoSession}]
    BY <1>3 DEF AskSplitwise, RInv, Conversations
  <2>6. Conversations'
    BY <2>1, <2>3, <2>4, <2>5, ConversationsKept DEF RInv, Completable
  <2> QED BY <2>4, <2>6 DEF RInv
<1>4. ASSUME NEW t \in Tasks, ConfirmYes(a, t) PROVE RInv' /\ LifeStep
  <2>1. Completable(session[a])
    BY <1>4, AtDraft DEF ConfirmYes, Steps
  <2>2. session[a].target \in Users /\ prefs[session[a].target] \in Preferences
    BY <2>1, DraftTyped DEF RInv, Tables
  <2>3. status[session[a].target] \notin Blocked
    BY <1>4 DEF ConfirmYes, At, RInv, Conversations
  <2>4. RInv' /\ UserLifeSpec!Ask(session[a].target)
    BY <1>4, <2>1, <2>2, <2>3, SaveKeeps DEF ConfirmYes
  <2> QED BY <2>2, <2>4 DEF LifeStep, UserLifeSpec!Next
<1>5. ASSUME NEW choice \in Choice, AnswerLunch(a, choice) PROVE RInv' /\ LifeStep
  <2> DEFINE e == [session[a] EXCEPT !.step = "coffee", !.lunch = choice]
  <2>1. Completable(session[a])
    BY <1>5, AtDraft DEF AnswerLunch, Steps
  <2>2. e \in Session /\ Answered(e) /\ e.step # "confirm"
    BY <2>1 DEF Session, Steps, Answered, Completable, Choice
  <2>3. budget' \in [BudgetKinds -> Nat]
    BY <1>5 DEF AnswerLunch, RInv, Tables
  <2> QED BY <1>5, <2>2, <2>3, SessionMoves DEF AnswerLunch
<1>6. ASSUME NEW choice \in Choice, NEW t \in Tasks, AnswerCoffee(a, t, choice)
      PROVE  RInv' /\ LifeStep
  <2> DEFINE p == [lunch |-> session[a].lunch, coffee |-> choice]
  <2>1. Completable(session[a]) /\ Answered(session[a]) /\ session[a].step = "coffee"
    BY <1>6, AtDraft DEF AnswerCoffee, Steps, At
  <2>2. session[a].lunch \in Choice
    BY <2>1 DEF Completable, Session, Answered
  <2>3. p \in Preferences
    BY <2>2 DEF Preferences
  <2> QED BY <1>6, <2>1, <2>3, CompleteKeeps DEF AnswerCoffee
<1>7. CASE EndSession(a)
  <2>1. Tables' /\ NobodyBlocked /\ LifeStep
    BY <1>7, TablesQuiet DEF EndSession, RInv, Tables
  <2>2. tasks' = tasks /\ tasks' \in [Tasks -> Task \cup {Idle}]
    BY <1>7 DEF EndSession, RInv, Conversations
  <2>3. Conversations'
    BY <1>7, <2>1, <2>2, SessionEnds, ConversationsKept DEF EndSession, RInv
  <2> QED BY <2>1, <2>3 DEF RInv
<1> QED
  BY <1>1, <1>2, <1>3, <1>4, <1>5, <1>6, <1>7 DEF Message

\* A command that leaves the sessions alone or ends the sender's, and no task.
LEMMA CommandQuiet ==
  ASSUME Conversations, NEW a \in Users, Forget(a) \/ UNCHANGED session,
         UNCHANGED tasks, NobodyBlocked
  PROVE  Conversations'
<1>1. /\ session' \in [Users -> Session \cup {NoSession}]
      /\ \A b \in Users : session'[b] # session[b] => session'[b] = NoSession
  BY SessionEnds DEF Conversations
<1>2. tasks' \in [Tasks -> Task \cup {Idle}]
  BY DEF Conversations
<1> QED BY <1>1, <1>2, ConversationsKept

\* Every command, inside a conversation or outside.
LEMMA CommandKeeps ==
  ASSUME RInv, NEW a \in Users, Command(a)
  PROVE  RInv' /\ LifeStep
<1> USE DEF BudgetKinds
<1>1. ASSUME NEW u \in Users, Register(a, u) PROVE RInv' /\ LifeStep
  <2> DEFINE e == [step |-> "name", target |-> u, name |-> NoName,
                   link |-> NoMember, lunch |-> "unasked"]
  <2>1. e \in Session /\ Answered(e) /\ e.step # "confirm"
    BY DEF Session, Steps, Answered
  <2>2. budget' \in [BudgetKinds -> Nat]
    BY <1>1, SpendTyped DEF Register, RInv, Tables
  <2> QED BY <1>1, <2>1, <2>2, SessionMoves DEF Register
<1>2. ASSUME NEW u \in Users, Approve(a, u) PROVE RInv' /\ LifeStep
  <2>1. budget' \in [BudgetKinds -> Nat]
    BY <1>2, SpendTyped DEF Approve, RInv, Tables
  <2>2. status[u] # "none" /\ status' = [status EXCEPT ![u] = "active"]
        /\ UNCHANGED <<name, link, prefs, requests, told, tasks>>
    BY <1>2 DEF Approve, Activate
  <2>3. /\ status' \in [Users -> Status]
        /\ \A v \in Users : name'[v] = NoName <=> status'[v] = "none"
        /\ NobodyBlocked
    BY <2>2 DEF RInv, Tables, Status, NobodyBlocked, Blocked
  <2>4. LinksLive'
    BY <2>2 DEF RInv, Tables, LinksLive, MemberFree, Unregistered
  <2>5. Tables'
    BY <2>1, <2>2, <2>3, <2>4 DEF RInv, Tables
  <2>6. Conversations'
    BY <1>2, <2>2, <2>3, CommandQuiet DEF Approve, RInv
  <2>7. UserLifeSpec!LetIn(u)
    BY <2>2 DEF UserLifeSpec!LetIn
  <2> QED BY <2>5, <2>6, <2>7 DEF RInv, LifeStep, UserLifeSpec!Next
<1>3. CASE RequestRegister(a)
  <2>1. UNCHANGED <<status, name, link, prefs, tasks, told>> /\ requests' = requests \cup {a}
        /\ (Forget(a) \/ UNCHANGED session)
    BY <1>3 DEF RequestRegister, CommandAnywhere
  <2>2. budget' \in [BudgetKinds -> Nat]
    BY <1>3, SpendTyped DEF RequestRegister, CommandAnywhere, RInv, Tables
  <2>3. Tables' /\ NobodyBlocked /\ LifeStep
    BY <2>1, <2>2 DEF RInv, Tables, LinksLive, MemberFree, NobodyBlocked, LifeStep, Unmoved
  <2>4. Conversations'
    BY <2>1, <2>3, CommandQuiet DEF RInv
  <2> QED BY <2>3, <2>4 DEF RInv
<1>4. CASE Quit(a)
  <2>1. /\ status[a] \notin Unregistered
        /\ status' = [status EXCEPT ![a] = "abandoned"]
        /\ link' = [link EXCEPT ![a] = NoMember]
        /\ UNCHANGED <<name, prefs, requests, tasks, told>>
    BY <1>4 DEF Quit, Abandon
  <2>2. budget' \in [BudgetKinds -> Nat]
    BY <1>4, SpendTyped DEF Quit, RInv, Tables
  <2>3. /\ status' \in [Users -> Status] /\ link' \in [Users -> Members \cup {NoMember}]
        /\ \A v \in Users : name'[v] = NoName <=> status'[v] = "none"
        /\ NobodyBlocked
    BY <2>1 DEF RInv, Tables, Status, Unregistered, NobodyBlocked, Blocked
  <2>4. LinksLive'
    BY <2>1 DEF RInv, Tables, LinksLive, MemberFree
  <2>5. Tables'
    BY <2>1, <2>2, <2>3, <2>4 DEF RInv, Tables
  <2>6. Conversations'
    BY <1>4, <2>1, <2>3, CommandQuiet DEF Quit, RInv
  <2>7. UserLifeSpec!Leave(a)
    BY <2>1 DEF UserLifeSpec!Leave, UserLifeSpec!Unregistered, Unregistered
  <2> QED BY <2>5, <2>6, <2>7 DEF RInv, LifeStep, UserLifeSpec!Next
<1>5. ASSUME NEW kind \in {"lunch", "coffee"}, NEW choice \in Choice,
             SetInvitation(a, kind, choice)
      PROVE  RInv' /\ LifeStep
  <2>1. UNCHANGED <<status, name, link, requests, tasks, told>>
        /\ (Forget(a) \/ UNCHANGED session)
    BY <1>5 DEF SetInvitation, CommandAnywhere
  <2>2. prefs' \in [Users -> Preferences]
    BY <1>5 DEF SetInvitation, SetPreference, RInv, Tables, Preferences
  <2>3. budget' \in [BudgetKinds -> Nat]
    BY <1>5, SpendTyped DEF SetInvitation, CommandAnywhere, RInv, Tables
  <2>4. Tables' /\ NobodyBlocked /\ LifeStep
    BY <2>1, <2>2, <2>3 DEF RInv, Tables, LinksLive, MemberFree, NobodyBlocked, LifeStep, Unmoved
  <2>5. Conversations'
    BY <2>1, <2>4, CommandQuiet DEF RInv
  <2> QED BY <2>4, <2>5 DEF RInv
<1> QED
  BY <1>1, <1>2, <1>3, <1>4, <1>5 DEF Command

\* A waiting handler: the answer of Splitwise, and the notice after a registration.
LEMMA ResumeKeeps ==
  ASSUME RInv, NEW t \in Tasks, Resume(t)
  PROVE  RInv' /\ LifeStep
<1>1. ASSUME NEW m \in Members, SplitwiseFinds(t, m) PROVE RInv' /\ LifeStep
  <2>1. tasks[t].kind = "lookup" /\ tasks[t] \in Task
    BY <1>1 DEF SplitwiseFinds, RInv, Conversations, Idle
  <2>2. tasks[t].actor \in Users /\ tasks[t].draft \in Session
    BY <2>1 DEF Task
  <2>3. Completable(tasks[t].draft)
    BY <2>1, <2>2 DEF RInv, Conversations, Completable
  <2> QED BY <1>1, <2>2, <2>3, ContinueKeeps DEF SplitwiseFinds
<1>2. ASSUME EndTask(t), UNCHANGED <<status, name, link, prefs, requests, session>>,
             told' \subseteq Users, budget' \in [BudgetKinds -> Nat]
      PROVE  RInv' /\ LifeStep
  <2>1. Tables' /\ NobodyBlocked /\ LifeStep
    BY <1>2, TablesQuiet DEF RInv
  <2>2. session' \in [Users -> Session \cup {NoSession}]
    BY <1>2 DEF RInv, Conversations
  <2>3. Conversations'
    BY <1>2, <2>1, <2>2, TaskEnds, ConversationsKept DEF RInv
  <2> QED BY <2>1, <2>3 DEF RInv
<1>3. told \subseteq Users /\ budget \in [BudgetKinds -> Nat]
  BY DEF RInv, Tables
<1>4. CASE SplitwiseFails(t)
  BY <1>2, <1>3, <1>4 DEF SplitwiseFails
<1>5. CASE Announce(t)
  <2>1. tasks[t].kind = "notice" /\ tasks[t] \in Task
    BY <1>5 DEF Announce, RInv, Conversations, Idle
  <2>2. tasks[t].target \in Users
    BY <2>1 DEF Task
  <2>3. told' \subseteq Users
    BY <1>3, <1>5, <2>2 DEF Announce
  <2> QED BY <1>2, <1>3, <1>5, <2>3 DEF Announce
<1>6. CASE AnnounceFails(t)
  BY <1>2, <1>3, <1>6, SpendTyped DEF AnnounceFails, BudgetKinds
<1> QED
  BY <1>1, <1>4, <1>5, <1>6 DEF Resume

\* The process stops and starts again: only the tables remain.
LEMMA CrashKeeps ==
  ASSUME RInv, Crash
  PROVE  RInv' /\ LifeStep
<1>1. budget' \in [BudgetKinds -> Nat]
  BY SpendTyped DEF Crash, RInv, Tables, BudgetKinds
<1>2. Tables' /\ NobodyBlocked /\ LifeStep
  BY <1>1, TablesQuiet DEF Crash, RInv, Tables
<1>3. Conversations'
  BY <1>2, MemoryGone DEF Crash, RInv
<1> QED BY <1>2, <1>3 DEF RInv

\* A process that starts on tables without a conversation meets the invariant.
LEMMA InitEstablishes == Init => RInv /\ UserLifeSpec!Init
<1> SUFFICES ASSUME Init PROVE RInv /\ UserLifeSpec!Init
  OBVIOUS
<1>1. LinksLive /\ prefs \in [Users -> Preferences] /\ budget \in [BudgetKinds -> Nat]
  BY CommandsAssumption DEF Init, LinksLive, Preferences, DefaultPreferences, Choice
<1>2. Tables
  BY <1>1 DEF Init, Tables
<1>3. Conversations
  BY DEF Init, Conversations, Answered, NoSession, Idle
<1>4. UserLifeSpec!Init
  BY DEF Init, UserLifeSpec!Init, Status, Blocked, Unregistered,
     UserLifeSpec!Blocked, UserLifeSpec!Unregistered
<1> QED BY <1>2, <1>3, <1>4 DEF RInv

\* The invariant is inductive, and each step is one of UserLife or moves no table of it.
LEMMA StepKeeps == RInv /\ [Next]_vars => RInv' /\ LifeStep
<1> SUFFICES ASSUME RInv, [Next]_vars PROVE RInv' /\ LifeStep
  OBVIOUS
<1>1. ASSUME NEW a \in Users, Message(a) \/ Command(a) PROVE RInv' /\ LifeStep
  BY <1>1, MessageKeeps, CommandKeeps
<1>2. ASSUME NEW t \in Tasks, Resume(t) PROVE RInv' /\ LifeStep
  BY <1>2, ResumeKeeps
<1>3. CASE Crash
  BY <1>3, CrashKeeps
<1>4. CASE UNCHANGED vars
  <2>1. Tables' /\ Conversations'
    BY <1>4 DEF RInv, vars, Tables, Conversations, Answered, LinksLive, MemberFree
  <2>2. LifeStep
    BY <1>4 DEF vars, LifeStep, Unmoved
  <2> QED BY <2>1, <2>2 DEF RInv
<1> QED
  BY <1>1, <1>2, <1>3, <1>4 DEF Next

-----------------------------------------------------------------------------
(* Theorems.                                                               *)

\* The inductive invariant holds in every reachable state.
THEOREM RegistrationInvariant == Spec => []RInv
<1>1. Init => RInv
  BY InitEstablishes
<1>2. RInv /\ [Next]_vars => RInv'
  BY StepKeeps
<1> QED BY <1>1, <1>2, PTL DEF Spec

\* The state has its types.
THEOREM RegistrationTypes == Spec => []TypeOK
<1>1. RInv => TypeOK
  BY DEF RInv, Tables, Conversations, TypeOK
<1> QED BY <1>1, RegistrationInvariant, PTL

\* No step of a conversation finds its draft without an answer it needs, so complete()
\* and the coffee step never raise the errors they have for that case.
THEOREM DraftsAreComplete == Spec => []DraftsComplete
<1>1. RInv => DraftsComplete
  <2> SUFFICES ASSUME RInv PROVE DraftsComplete
    OBVIOUS
  <2>1. ASSUME NEW a \in Users
        PROVE  /\ session[a].step \in Steps \ {"name"} => session[a].name # NoName
               /\ session[a].step = "coffee" => session[a].lunch # "unasked"
    BY DEF RInv, Conversations, Answered, NoSession, Steps
  <2> QED BY <2>1 DEF DraftsComplete, RInv, Conversations
<1> QED BY <1>1, RegistrationInvariant, PTL

\* A Splitwise member is linked to one user at most and to nobody who left, also after
\* a crash or a violated key in the middle of a save.
THEOREM LinksAreLive == Spec => []LinksLive
<1>1. RInv => LinksLive
  BY DEF RInv, Tables
<1> QED BY <1>1, RegistrationInvariant, PTL

\* The conversations, commands and transactions implement the life of a user: a blocked
\* user is never saved as one who waits, and names and links change only with that.
THEOREM RegistrationImplementsUserLife == Spec => KeepsUserLife
<1>1. Init => UserLifeSpec!Init
  BY InitEstablishes
<1>2. RInv /\ [Next]_vars => [UserLifeSpec!Next]_<<status, name, link>>
  BY StepKeeps DEF LifeStep, Unmoved
<1> QED
  BY <1>1, <1>2, RegistrationInvariant, PTL DEF Spec, KeepsUserLife, UserLifeSpec!Spec
-----------------------------------------------------------------------------
(* What a step may do to requests, notices and preferences: it saves a     *)
(* registration, or it is quiet about those who wait for approval.         *)

\* Handler t saves the draft d: of an approved user only after the question, and with
\* other preferences than before only from the answers of a first registration.
Saving(a, t, d, p) ==
  /\ Completable(d) /\ tasks[t].kind # "notice"
  /\ Save(a, t, d, p)
  /\ status[d.target] = "active" => session[a].step = "confirm" /\ session[a].target = d.target
  /\ p # prefs[d.target] =>
       /\ status[d.target] \in Unregistered
       /\ session[a].step = "coffee" /\ session[a].target = d.target

\* The notices that are in flight stay so, or one arrives, or the step is a fault.
NoticesStay ==
  \/ \A t \in Tasks : tasks[t].kind = "notice" => tasks'[t] = tasks[t]
  \/ \E t \in Tasks : Announce(t)
  \/ Spend("drop") \/ Spend("crash")

\* Nobody starts to wait, those who wait keep their data, and preferences change by
\* the command of an approved user.
Quiet ==
  /\ name' = name
  /\ \A u \in Users : status'[u] = "pending" => status[u] = "pending" /\ link'[u] = link[u]
  /\ \A u \in requests' \ requests : status'[u] # "pending"
  /\ \A u \in Users : prefs'[u] # prefs[u] => status[u] = "active" /\ status'[u] = "active"
  /\ told \subseteq told'
  /\ NoticesStay
  /\ budget' = budget \/ \E k \in BudgetKinds : Spend(k)

Saves == \E a \in Users, t \in Tasks, d \in Session, p \in Preferences : Saving(a, t, d, p)

\* complete(), by a handler that has no notice to send.
LEMMA CompleteShape ==
  ASSUME RInv, NEW a \in Users, NEW t \in Tasks, NEW d, Completable(d),
         NEW p \in Preferences, Complete(a, t, d, p), tasks[t].kind # "notice",
         p # prefs[d.target] => session[a].step = "coffee" /\ session[a].target = d.target
  PROVE  Quiet \/ Saves
<1>1. d \in Session /\ d.target \in Users /\ prefs[d.target] \in Preferences
  BY DraftTyped DEF Completable, RInv, Tables
<1>2. CASE Created(a, t, d, p)
  <2>1. Saving(a, t, d, p)
    BY <1>2 DEF Created, Saving, Unregistered
  <2> QED BY <1>1, <2>1 DEF Saves
<1>3. CASE UpdatedPending(a, t, d)
  <2>1. Saving(a, t, d, prefs[d.target])
    BY <1>3 DEF UpdatedPending, Saving
  <2> QED BY <1>1, <2>1 DEF Saves
<1>4. CASE \/ AlreadyPending(a, t, d) \/ AlreadyActive(a, t, d) \/ RegistrationBlocked(a, t, d)
  <2>1. /\ UNCHANGED <<status, name, link, prefs, told, budget>> /\ requests' \subseteq requests
        /\ EndTask(t)
    BY <1>4 DEF AlreadyPending, AlreadyActive, RegistrationBlocked, ClearRequest
  <2>2. \A s \in Tasks : tasks[s].kind = "notice" => tasks'[s] = tasks[s]
    BY <2>1 DEF EndTask, RInv, Conversations
  <2> QED BY <2>1, <2>2 DEF Quiet, NoticesStay
<1> QED
  BY <1>2, <1>3, <1>4 DEF Complete

\* The Splitwise step, before or after its answer.
LEMMA ContinueShape ==
  ASSUME RInv, NEW a \in Users, NEW t \in Tasks, NEW d, Completable(d),
         NEW m \in Members \cup {NoMember}, Continue(a, t, d, m), tasks[t].kind # "notice"
  PROVE  Quiet \/ Saves
<1> DEFINE e == [d EXCEPT !.link = m]
<1>1. Completable(e) /\ e.target = d.target /\ prefs[e.target] \in Preferences
  BY DEF Completable, Session, RInv, Tables
<1>2. CASE Complete(a, t, e, prefs[d.target])
  <2> HIDE DEF e
  <2> QED BY <1>1, <1>2, CompleteShape
<1>3. CASE EndTask(t) /\ UNCHANGED <<status, name, link, prefs, requests, told, budget>>
  <2>1. \A s \in Tasks : tasks[s].kind = "notice" => tasks'[s] = tasks[s]
    BY <1>3 DEF EndTask, RInv, Conversations
  <2> QED BY <1>3, <2>1 DEF Quiet, NoticesStay
<1> QED BY <1>2, <1>3 DEF Continue

\* Every message of a conversation.
LEMMA MessageShape ==
  ASSUME RInv, NEW a \in Users, Message(a)
  PROVE  Quiet \/ Saves
<1>1. ASSUME UNCHANGED <<status, name, link, prefs, requests, told, budget>>,
             \A t \in Tasks : tasks[t].kind = "notice" => tasks'[t] = tasks[t]
      PROVE  Quiet
  BY <1>1 DEF Quiet, NoticesStay
<1>2. ASSUME NEW t \in Tasks, tasks[t] = Idle PROVE tasks[t].kind # "notice"
  BY <1>2 DEF Idle
<1>3. ASSUME NEW n \in Names, TellName(a, n) PROVE Quiet
  BY <1>1, <1>3 DEF TellName
<1>4. ASSUME NEW t \in Tasks, SkipSplitwise(a, t) PROVE Quiet \/ Saves
  <2>1. Completable(session[a])
    BY <1>4, AtDraft DEF SkipSplitwise, Steps
  <2> QED BY <1>2, <1>4, <2>1, ContinueShape DEF SkipSplitwise
<1>5. ASSUME NEW t \in Tasks, AskSplitwise(a, t) PROVE Quiet
  <2>1. \A s \in Tasks : tasks[s].kind = "notice" => tasks'[s] = tasks[s]
    BY <1>2, <1>5 DEF AskSplitwise, RInv, Conversations
  <2> QED BY <1>1, <1>5, <2>1 DEF AskSplitwise
<1>6. ASSUME NEW t \in Tasks, ConfirmYes(a, t) PROVE Saves
  <2> DEFINE d == session[a]
  <2>1. Completable(d) /\ d.step = "confirm"
    BY <1>6, AtDraft DEF ConfirmYes, Steps, At
  <2>2. d \in Session /\ prefs[d.target] \in Preferences
    BY <2>1, DraftTyped DEF Completable, RInv, Tables
  <2>3. Saving(a, t, d, prefs[d.target])
    BY <1>2, <1>6, <2>1 DEF ConfirmYes, Saving
  <2> QED BY <2>2, <2>3 DEF Saves
<1>7. ASSUME NEW choice \in Choice, AnswerLunch(a, choice) PROVE Quiet
  BY <1>1, <1>7 DEF AnswerLunch
<1>8. ASSUME NEW choice \in Choice, NEW t \in Tasks, AnswerCoffee(a, t, choice)
      PROVE  Quiet \/ Saves
  <2> DEFINE p == [lunch |-> session[a].lunch, coffee |-> choice]
  <2>1. Completable(session[a]) /\ Answered(session[a]) /\ session[a].step = "coffee"
    BY <1>8, AtDraft DEF AnswerCoffee, Steps, At
  <2>2. p \in Preferences
    BY <2>1 DEF Completable, Session, Answered, Preferences
  <2>3. Complete(a, t, session[a], p) /\ tasks[t].kind # "notice"
    BY <1>2, <1>8 DEF AnswerCoffee
  <2> HIDE DEF p
  <2> QED BY <2>1, <2>2, <2>3, CompleteShape
<1>9. CASE EndSession(a)
  BY <1>1, <1>9 DEF EndSession
<1> QED
  BY <1>3, <1>4, <1>5, <1>6, <1>7, <1>8, <1>9 DEF Message

\* Commands save nothing.
LEMMA CommandShape ==
  ASSUME RInv, NEW a \in Users, Command(a)
  PROVE  Quiet
<1> USE DEF BudgetKinds
<1>1. ASSUME UNCHANGED <<name, tasks, told>>, Spend("command"),
             \A u \in Users : status'[u] = "pending" => status[u] = "pending" /\ link'[u] = link[u],
             \A u \in requests' \ requests : status'[u] # "pending",
             \A u \in Users : prefs'[u] # prefs[u] => status[u] = "active" /\ status'[u] = "active"
      PROVE  Quiet
  BY <1>1 DEF Quiet, NoticesStay
<1>2. ASSUME NEW u \in Users, Register(a, u) PROVE Quiet
  BY <1>1, <1>2 DEF Register
<1>3. ASSUME NEW u \in Users, Approve(a, u) PROVE Quiet
  <2>1. status' = [status EXCEPT ![u] = "active"]
    BY <1>3 DEF Approve, Activate
  <2>2. \A v \in Users : status'[v] = "pending" => status[v] = "pending"
    BY <2>1 DEF RInv, Tables
  <2> QED BY <1>1, <1>3, <2>2 DEF Approve
<1>4. CASE RequestRegister(a)
  <2>1. status' = status /\ status[a] \in Unregistered /\ requests' = requests \cup {a}
    BY <1>4 DEF RequestRegister, MayRequest
  <2>2. \A u \in requests' \ requests : status'[u] # "pending"
    BY <2>1 DEF Unregistered
  <2> QED BY <1>1, <1>4, <2>2 DEF RequestRegister, CommandAnywhere
<1>5. CASE Quit(a)
  <2>1. status' = [status EXCEPT ![a] = "abandoned"] /\ link' = [link EXCEPT ![a] = NoMember]
    BY <1>5 DEF Quit, Abandon
  <2>2. \A v \in Users : status'[v] = "pending" => status[v] = "pending" /\ link'[v] = link[v]
    BY <2>1 DEF RInv, Tables
  <2> QED BY <1>1, <1>5, <2>2 DEF Quit
<1>6. ASSUME NEW kind \in {"lunch", "coffee"}, NEW choice \in Choice,
             SetInvitation(a, kind, choice)
      PROVE  Quiet
  <2>1. status[a] = "active" /\ status' = status
    BY <1>6 DEF SetInvitation
  <2>2. \A u \in Users : prefs'[u] # prefs[u] => u = a
    BY <1>6 DEF SetInvitation, SetPreference, RInv, Tables
  <2> QED BY <1>1, <1>6, <2>1, <2>2 DEF SetInvitation, CommandAnywhere
<1> QED
  BY <1>2, <1>3, <1>4, <1>5, <1>6 DEF Command

\* A waiting handler.
LEMMA ResumeShape ==
  ASSUME RInv, NEW t \in Tasks, Resume(t)
  PROVE  Quiet \/ Saves
<1>1. ASSUME NEW m \in Members, SplitwiseFinds(t, m) PROVE Quiet \/ Saves
  <2>1. tasks[t].kind = "lookup" /\ tasks[t] \in Task
    BY <1>1 DEF SplitwiseFinds, RInv, Conversations, Idle
  <2>2. tasks[t].actor \in Users /\ tasks[t].draft \in Session
    BY <2>1 DEF Task
  <2>3. Completable(tasks[t].draft)
    BY <2>1, <2>2 DEF RInv, Conversations, Completable
  <2> QED BY <1>1, <2>1, <2>2, <2>3, ContinueShape DEF SplitwiseFinds
<1>2. CASE SplitwiseFails(t)
  <2>1. \A s \in Tasks : tasks[s].kind = "notice" => tasks'[s] = tasks[s]
    BY <1>2 DEF SplitwiseFails, EndTask, RInv, Conversations
  <2> QED BY <1>2, <2>1 DEF SplitwiseFails, Quiet, NoticesStay
<1>3. CASE Announce(t)
  <2>1. NoticesStay
    BY <1>3 DEF NoticesStay
  <2> QED BY <1>3, <2>1 DEF Announce, Quiet
<1>4. CASE AnnounceFails(t)
  BY <1>4 DEF AnnounceFails, Quiet, NoticesStay, BudgetKinds
<1> QED
  BY <1>1, <1>2, <1>3, <1>4 DEF Resume

\* Every step.
LEMMA StepShape == RInv /\ [Next]_vars => Quiet \/ Saves
<1> SUFFICES ASSUME RInv, [Next]_vars PROVE Quiet \/ Saves
  OBVIOUS
<1>1. ASSUME NEW a \in Users, Message(a) \/ Command(a) PROVE Quiet \/ Saves
  BY <1>1, MessageShape, CommandShape
<1>2. ASSUME NEW t \in Tasks, Resume(t) PROVE Quiet \/ Saves
  BY <1>2, ResumeShape
<1>3. CASE Crash
  BY <1>3 DEF Crash, Quiet, NoticesStay, BudgetKinds
<1>4. CASE UNCHANGED vars
  BY <1>4 DEF vars, Quiet, NoticesStay
<1> QED
  BY <1>1, <1>2, <1>3, <1>4 DEF Next

-----------------------------------------------------------------------------
(* Requests and notices.                                                   *)

\* RequestsClosed and PendingIsAnnounced except runs with certain faults: that a fault
\* has not happened is remembered by a budget that never grows.
Bookkeeping ==
  /\ \A k \in BudgetKinds : budget[k] <= Budget[k]
  /\ RequestsClosed /\ PendingIsAnnounced

\* A fault is counted for good.
LEMMA SpentGrows ==
  ASSUME RInv, RInv', \A k \in BudgetKinds : budget[k] <= Budget[k],
         budget' = budget \/ \E k \in BudgetKinds : Spend(k)
  PROVE  /\ \A k \in BudgetKinds : budget'[k] <= budget[k] /\ budget'[k] <= Budget[k]
         /\ \A k \in BudgetKinds : Spent(k)' = 0 => Spent(k) = 0
         /\ \A k \in BudgetKinds : Spend(k) => Spent(k)' # 0
<1>1. \A k \in BudgetKinds : budget[k] \in Nat /\ budget'[k] \in Nat /\ Budget[k] \in Nat
  BY CommandsAssumption DEF RInv, Tables
<1>2. ASSUME NEW k \in BudgetKinds PROVE budget'[k] <= budget[k]
  BY <1>1 DEF Spend, RInv, Tables
<1>3. ASSUME NEW k \in BudgetKinds, Spend(k) PROVE budget'[k] = budget[k] - 1
  BY <1>3 DEF Spend, RInv, Tables
<1> QED
  BY <1>1, <1>2, <1>3 DEF Spent

\* A saved registration closes the request of its user and has its notice in flight; the
\* notices about others stay.
LEMMA SavingKeepsBooks ==
  ASSUME RInv, RInv', Bookkeeping,
         NEW a \in Users, NEW t \in Tasks, NEW d \in Session, NEW p \in Preferences,
         Saving(a, t, d, p)
  PROVE  Bookkeeping'
<1> DEFINE u == d.target
<1>1. u \in Users /\ d.name \in Names /\ d.link \in Members \cup {NoMember}
  BY DraftTyped DEF Saving
<1>2. Save(a, t, d, p) /\ tasks[t].kind # "notice"
  BY DEF Saving
<1>3. budget' = budget \/ Spend("clash") \/ Spend("crash")
  BY <1>2 DEF Save, SaveAll, SaveClashes, SaveStops
<1>4. /\ \A k \in BudgetKinds : budget'[k] <= budget[k] /\ budget'[k] <= Budget[k]
      /\ \A k \in BudgetKinds : Spent(k)' = 0 => Spent(k) = 0
      /\ \A k \in BudgetKinds : Spend(k) => Spent(k)' # 0
  BY <1>3, SpentGrows DEF Bookkeeping, BudgetKinds
<1>5. CASE ~SaveAll(a, t, d, p)
  <2>1. Spend("clash") \/ Spend("crash")
    BY <1>2, <1>5 DEF Save, SaveClashes, SaveStops
  <2>2. Spent("clash")' # 0 \/ Spent("crash")' # 0
    BY <1>4, <2>1 DEF BudgetKinds
  <2> QED BY <1>4, <2>2 DEF Bookkeeping, RequestsClosed, PendingIsAnnounced
<1>6. CASE SaveAll(a, t, d, p)
  <2>1. /\ status' = [status EXCEPT ![u] = "pending"]
        /\ name' = [name EXCEPT ![u] = d.name]
        /\ link' = [link EXCEPT ![u] = d.link]
        /\ requests' = requests \ {u}
        /\ tasks' = [tasks EXCEPT ![t] = NoticeOf(d)]
        /\ told' = told \ {u}
    BY <1>6 DEF SaveAll, SaveUser, SaveLink, ClearRequest
  <2>2. RequestsClosed'
    <3> SUFFICES ASSUME Spent("crash")' = 0, Spent("clash")' = 0, NEW v \in requests'
                 PROVE  status'[v] # "pending"
      BY DEF RequestsClosed
    <3>1. v \in requests /\ v # u /\ v \in Users
      BY <2>1 DEF RInv, Tables
    <3>2. status[v] # "pending"
      BY <1>4, <3>1 DEF Bookkeeping, RequestsClosed, BudgetKinds
    <3> QED BY <2>1, <3>1, <3>2 DEF RInv, Tables
  <2>3. PendingIsAnnounced'
    <3> SUFFICES ASSUME Spent("drop")' = 0, Spent("crash")' = 0, Spent("clash")' = 0,
                        NEW v \in Users, status'[v] = "pending"
                 PROVE  v \in told' \/ NoticeInFlight(v)'
      BY DEF PendingIsAnnounced
    <3>1. CASE v = u
      <4>1. tasks'[t] = NoticeOf(d)
        BY <2>1 DEF RInv, Conversations
      <4>2. name'[u] = d.name /\ link'[u] = d.link
        BY <1>1, <2>1 DEF RInv, Tables
      <4>3. DetailsOf(u)' = DraftDetails(d)
        BY <4>2 DEF DetailsOf, DraftDetails
      <4>4. /\ tasks'[t].kind = "notice" /\ tasks'[t].target = u
            /\ tasks'[t].details = DraftDetails(d)
        BY <4>1 DEF NoticeOf
      <4> QED BY <3>1, <4>3, <4>4 DEF NoticeInFlight
    <3>2. CASE v # u
      <4>1. status[v] = "pending" /\ name'[v] = name[v] /\ link'[v] = link[v]
        BY <2>1, <3>2 DEF RInv, Tables
      <4>2. v \in told \/ NoticeInFlight(v)
        BY <1>4, <4>1 DEF Bookkeeping, PendingIsAnnounced, BudgetKinds
      <4>3. CASE v \in told
        BY <2>1, <3>2, <4>3
      <4>4. CASE NoticeInFlight(v)
        <5>1. PICK s \in Tasks : /\ tasks[s].kind = "notice" /\ tasks[s].target = v
                                 /\ tasks[s].details = DetailsOf(v)
          BY <4>4 DEF NoticeInFlight
        <5>2. tasks'[s] = tasks[s]
          BY <1>2, <2>1, <5>1 DEF RInv, Conversations
        <5>3. DetailsOf(v)' = DetailsOf(v)
          BY <4>1 DEF DetailsOf
        <5> QED BY <5>1, <5>2, <5>3 DEF NoticeInFlight
      <4> QED BY <4>2, <4>3, <4>4
    <3> QED BY <3>1, <3>2
  <2> QED BY <1>4, <2>2, <2>3 DEF Bookkeeping
<1> QED BY <1>5, <1>6

\* A quiet step opens no request of somebody who waits, and a notice that leaves the
\* flight has told the admins, unless it was lost.
LEMMA QuietKeepsBooks ==
  ASSUME RInv, RInv', Bookkeeping, Quiet
  PROVE  Bookkeeping'
<1>1. /\ \A k \in BudgetKinds : budget'[k] <= budget[k] /\ budget'[k] <= Budget[k]
      /\ \A k \in BudgetKinds : Spent(k)' = 0 => Spent(k) = 0
      /\ \A k \in BudgetKinds : Spend(k) => Spent(k)' # 0
  BY SpentGrows DEF Bookkeeping, Quiet
<1>2. RequestsClosed'
  <2> SUFFICES ASSUME Spent("crash")' = 0, Spent("clash")' = 0, NEW v \in requests'
               PROVE  status'[v] # "pending"
    BY DEF RequestsClosed
  <2>1. v \in Users
    BY DEF RInv, Tables
  <2>2. v \in requests => status[v] # "pending"
    BY <1>1 DEF Bookkeeping, RequestsClosed, BudgetKinds
  <2> QED BY <2>1, <2>2 DEF Quiet
<1>3. PendingIsAnnounced'
  <2> SUFFICES ASSUME Spent("drop")' = 0, Spent("crash")' = 0, Spent("clash")' = 0,
                      NEW v \in Users, status'[v] = "pending"
               PROVE  v \in told' \/ NoticeInFlight(v)'
    BY DEF PendingIsAnnounced
  <2>1. status[v] = "pending" /\ name' = name /\ link'[v] = link[v]
    BY DEF Quiet
  <2>2. DetailsOf(v)' = DetailsOf(v)
    BY <2>1 DEF DetailsOf
  <2>3. v \in told \/ NoticeInFlight(v)
    BY <1>1, <2>1 DEF Bookkeeping, PendingIsAnnounced, BudgetKinds
  <2>4. CASE v \in told
    BY <2>4 DEF Quiet
  <2>5. CASE NoticeInFlight(v)
    <3>1. PICK s \in Tasks : /\ tasks[s].kind = "notice" /\ tasks[s].target = v
                             /\ tasks[s].details = DetailsOf(v)
      BY <2>5 DEF NoticeInFlight
    <3>2. CASE tasks'[s] = tasks[s]
      BY <2>2, <3>1, <3>2 DEF NoticeInFlight
    <3>3. ASSUME NEW t \in Tasks, Announce(t) PROVE v \in told' \/ NoticeInFlight(v)'
      <4>1. CASE t = s
        BY <3>1, <3>3, <4>1 DEF Announce
      <4>2. CASE t # s
        <5>1. tasks'[s] = tasks[s]
          BY <3>3, <4>2 DEF Announce, EndTask, RInv, Conversations
        <5> QED BY <3>2, <5>1
      <4> QED BY <4>1, <4>2
    <3>4. ~Spend("drop") /\ ~Spend("crash")
      BY <1>1 DEF BudgetKinds
    <3> QED BY <3>1, <3>2, <3>3, <3>4 DEF Quiet, NoticesStay
  <2> QED BY <2>3, <2>4, <2>5
<1> QED BY <1>1, <1>2, <1>3 DEF Bookkeeping

\* Requests and notices are in order in every reachable state.
LEMMA BooksInOrder == Spec => [](RInv /\ Bookkeeping)
<1>1. Init => Bookkeeping
  <2> SUFFICES ASSUME Init PROVE Bookkeeping
    OBVIOUS
  <2>1. \A k \in BudgetKinds : budget[k] <= Budget[k]
    BY CommandsAssumption DEF Init
  <2> QED BY <2>1 DEF Init, Bookkeeping, RequestsClosed, PendingIsAnnounced
<1>2. (RInv /\ Bookkeeping) /\ [Next]_vars => (RInv /\ Bookkeeping)'
  <2> SUFFICES ASSUME RInv, Bookkeeping, [Next]_vars PROVE RInv' /\ Bookkeeping'
    OBVIOUS
  <2>1. RInv'
    BY StepKeeps
  <2>2. CASE Quiet
    BY <2>1, <2>2, QuietKeepsBooks
  <2>3. CASE Saves
    BY <2>1, <2>3, SavingKeepsBooks DEF Saves
  <2> QED BY <2>1, <2>2, <2>3, StepShape
<1> QED BY <1>1, <1>2, InitEstablishes, PTL DEF Spec

-----------------------------------------------------------------------------
(* Theorems about requests, notices and preferences.                       *)

\* Who waits for approval has no open request to be registered, if no stop and no
\* violated key cut a save off.
THEOREM RequestsAreClosed == Spec => []RequestsClosed
<1>1. Bookkeeping => RequestsClosed
  BY DEF Bookkeeping
<1> QED BY <1>1, BooksInOrder, PTL

\* The admins were sent the data of everybody who waits, as it stands, or the notice that
\* carries it is in flight, however many conversations and notices overtake each other.
THEOREM PendingAreAnnounced == Spec => []PendingIsAnnounced
<1>1. Bookkeeping => PendingIsAnnounced
  BY DEF Bookkeeping
<1> QED BY <1>1, BooksInOrder, PTL

\* Only the saving of a registration lets anybody wait for approval, and of an approved
\* user only after the question.
THEOREM ReregistrationsConfirmed == Spec => ReregistrationConfirmed
<1> DEFINE Confirmed ==
      \A u \in Users : status[u] = "active" /\ status'[u] = "pending" =>
        \E a \in Users : session[a].step = "confirm" /\ session[a].target = u
<1>1. RInv /\ [Next]_vars => Confirmed
  <2> SUFFICES ASSUME RInv, [Next]_vars,
                      NEW u \in Users, status[u] = "active", status'[u] = "pending"
               PROVE  \E a \in Users : session[a].step = "confirm" /\ session[a].target = u
    OBVIOUS
  <2>1. ~Quiet
    BY DEF Quiet
  <2>2. PICK a \in Users, t \in Tasks, d \in Session, p \in Preferences : Saving(a, t, d, p)
    BY <2>1, StepShape DEF Saves
  <2>3. status' = [status EXCEPT ![d.target] = "pending"]
    BY <2>2 DEF Saving, Save, SaveAll, SaveClashes, SaveStops, SaveUser
  <2>4. u = d.target
    BY <2>3 DEF RInv, Tables
  <2> QED BY <2>2, <2>4 DEF Saving
<1>2. RInv /\ [Next]_vars => [Confirmed]_vars
  BY <1>1
<1> QED
  BY <1>2, RegistrationInvariant, PTL DEF Spec, ReregistrationConfirmed

\* Preferences change by the command of their approved user, or by the answers of a
\* conversation that registers somebody who was not registered.
THEOREM PreferencesAreKept == Spec => PreferencesKept
<1> DEFINE Kept ==
      \A u \in Users : prefs'[u] # prefs[u] =>
        \/ status[u] = "active" /\ status'[u] = "active"
        \/ /\ status[u] \in Unregistered /\ status'[u] = "pending"
           /\ \E a \in Users : session[a].step = "coffee" /\ session[a].target = u
<1>1. RInv /\ [Next]_vars => Kept
  <2> SUFFICES ASSUME RInv, [Next]_vars, NEW u \in Users, prefs'[u] # prefs[u]
               PROVE  \/ status[u] = "active" /\ status'[u] = "active"
                      \/ /\ status[u] \in Unregistered /\ status'[u] = "pending"
                         /\ \E a \in Users : session[a].step = "coffee" /\ session[a].target = u
    OBVIOUS
  <2>1. CASE Quiet
    BY <2>1 DEF Quiet
  <2>2. CASE Saves
    <3>1. PICK a \in Users, t \in Tasks, d \in Session, p \in Preferences : Saving(a, t, d, p)
      BY <2>2 DEF Saves
    <3>2. /\ prefs' = prefs \/ prefs' = [prefs EXCEPT ![d.target] = p]
          /\ status' = [status EXCEPT ![d.target] = "pending"]
      BY <3>1 DEF Saving, Save, SaveAll, SaveClashes, SaveStops, SaveUser, SavePreferences
    <3>3. u = d.target /\ p # prefs[u] /\ status'[u] = "pending"
      BY <3>2 DEF RInv, Tables
    <3> QED BY <3>1, <3>3 DEF Saving
  <2> QED BY <2>1, <2>2, StepShape
<1>2. RInv /\ [Next]_vars => [Kept]_vars
  BY <1>1
<1> QED
  BY <1>2, RegistrationInvariant, PTL DEF Spec, PreferencesKept

=============================================================================
