----------------------- MODULE MigrationRunner_proofs -----------------------
(***************************************************************************)
(* Theorems about MigrationRunner, for any rows, any releases and any      *)
(* number of stops: versions are recorded in order, each over foreign keys *)
(* that hold, a process serves the version its release knows, and unless a *)
(* migration was torn it finds its tables, with everything that was stored *)
(* in them.                                                                *)
(***************************************************************************)
EXTENDS MigrationRunner, SequenceTheorems, TLAPS

Ops == {"ensure", "create", "discard", "drop", "copy", "rename", "keys_on", "keys_off"}
Statements == [op : Ops, table : Tables, from : Tables]

-----------------------------------------------------------------------------
(* The scripts.                                                            *)

\* Short tuples are sequences.
LEMMA Tuples ==
  ASSUME NEW S
  PROVE  /\ \A a \in S : <<a>> \in Seq(S)
         /\ \A a, b \in S : <<a, b>> \in Seq(S)
         /\ \A a, b, c \in S : <<a, b, c>> \in Seq(S)
         /\ \A a, b, c, d \in S : <<a, b, c, d>> \in Seq(S)
         /\ \A a, b, c, d, e \in S : <<a, b, c, d, e>> \in Seq(S)
         /\ \A a, b, c, d, e, f \in S : <<a, b, c, d, e, f>> \in Seq(S)
OBVIOUS

\* Every form of statement about known tables is a statement.
LEMMA Forms ==
  ASSUME NEW t \in Tables, NEW s \in Tables
  PROVE  /\ Ensure(t) \in Statements /\ Create(t) \in Statements
         /\ Discard(t) \in Statements /\ Drop(t) \in Statements
         /\ Copy(t, s) \in Statements /\ Rename(s, t) \in Statements
         /\ Keys(TRUE) \in Statements /\ Keys(FALSE) \in Statements
<1>1. "users" \in Tables
  BY DEF Tables
<1> QED
  BY <1>1 DEF Statements, Ops, Ensure, Create, Discard, Drop, Copy, Rename, Keys

\* A rebuild of one known table into another is a script.
LEMMA RebuildIsScript ==
  ASSUME NEW t \in Tables, NEW new \in Tables
  PROVE  Rebuild(t, new) \in Seq(Statements)
<1>1. /\ Discard(new) \in Statements /\ Create(new) \in Statements
      /\ Copy(new, t) \in Statements /\ Drop(t) \in Statements
      /\ Rename(new, t) \in Statements
  BY Forms
<1> QED
  BY <1>1, Tuples DEF Rebuild

\* 0003, with the keys switched off before and on after.
LEMMA RebuildUsersIsScript == RebuildUsers \in Seq(Statements)
<1>1. "users" \in Tables /\ "users_new" \in Tables
  BY DEF Tables
<1>2. Rebuild("users", "users_new") \in Seq(Statements)
  BY <1>1, RebuildIsScript
<1>3. <<Keys(FALSE)>> \in Seq(Statements) /\ <<Keys(TRUE)>> \in Seq(Statements)
  BY <1>1, Forms, Tuples
<1>4. <<Keys(FALSE)>> \o Rebuild("users", "users_new") \in Seq(Statements)
  BY <1>2, <1>3, ConcatProperties
<1> QED
  BY <1>3, <1>4, ConcatProperties DEF RebuildUsers

\* There are fourteen scripts, and every statement of theirs is about known tables.
LEMMA ScriptsTyped == Len(Scripts) = 14 /\ Scripts \in Seq(Seq(Statements))
<1> USE DEF Tables
<1>1. Initial \in Seq(Statements)
  <2>1. /\ Keys(TRUE) \in Statements /\ Ensure("users") \in Statements
        /\ Ensure("telegram_accounts") \in Statements
        /\ Ensure("splitwise_users") \in Statements
    BY Forms
  <2> QED
    BY <2>1, Tuples DEF Initial
<1>2. RebuildSplitwise \in Seq(Statements)
  BY RebuildIsScript DEF RebuildSplitwise
<1>3. MergeSeen \in Seq(Statements)
  <2>1. /\ Create("telegram_accounts_new") \in Statements
        /\ Copy("telegram_accounts_new", "telegram_accounts") \in Statements
        /\ Copy("telegram_accounts_new", "telegram_seen_accounts") \in Statements
        /\ Drop("telegram_accounts") \in Statements
        /\ Rename("telegram_accounts_new", "telegram_accounts") \in Statements
        /\ Drop("telegram_seen_accounts") \in Statements
    BY Forms
  <2> QED
    BY <2>1, Tuples DEF MergeSeen
<1>4. PollRegistry \in Seq(Statements)
  <2>1. Create("polls") \in Statements /\ Create("poll_selected_options") \in Statements
    BY Forms
  <2> QED
    BY <2>1, Tuples DEF PollRegistry
<1>5. CoffeeTables \in Seq(Statements)
  <2>1. /\ Create("coffee_preferences") \in Statements
        /\ Create("coffee_sessions") \in Statements
        /\ Create("coffee_session_participants") \in Statements
    BY Forms
  <2> QED
    BY <2>1, Tuples DEF CoffeeTables
<1>6. Unify \in Seq(Statements)
  <2>1. /\ Create("user_invitation_preferences") \in Statements
        /\ Copy("user_invitation_preferences", "coffee_preferences") \in Statements
        /\ Drop("coffee_preferences") \in Statements
    BY Forms
  <2> QED
    BY <2>1, Tuples DEF Unify
<1>7. /\ DebugSettings \in Seq(Statements) /\ AutoChats \in Seq(Statements)
      /\ Vacations \in Seq(Statements) /\ SeenAccounts \in Seq(Statements)
      /\ Requests \in Seq(Statements) /\ PinnedMessages \in Seq(Statements)
  <2>1. \A t \in Tables : Ensure(t) \in Statements
    BY Forms
  <2>2. \A t \in Tables : <<Ensure(t)>> \in Seq(Statements)
    BY <2>1, Tuples
  <2> QED
    BY <2>2 DEF DebugSettings, AutoChats, Vacations, SeenAccounts, Requests, PinnedMessages
<1>9. RelaxSplitwise \in Seq(Statements)
  BY RebuildIsScript DEF RelaxSplitwise
<1> HIDE DEF Tables
<1> DEFINE S == Seq(Statements)
<1>8. \A a, b, c, d, e, f, g, h, i, j, k, l, m, n \in S :
        /\ Len(<<a, b, c, d, e, f, g, h, i, j, k, l, m, n>>) = 14
        /\ <<a, b, c, d, e, f, g, h, i, j, k, l, m, n>> \in Seq(S)
  <2> HIDE DEF S
  <2> QED
    OBVIOUS
<1> QED
  BY <1>1, <1>2, <1>3, <1>4, <1>5, <1>6, <1>7, <1>8, <1>9, RebuildUsersIsScript DEF Scripts

\* So the next statement of a script is about known tables.
LEMMA NextStatement ==
  ASSUME at \in 1..Len(Scripts), done \in Nat, done < Len(Script)
  PROVE  Script[done + 1] \in Statements
<1>1. Script \in Seq(Statements)
  BY ScriptsTyped, ElementOfSeq DEF Script
<1>2. done + 1 \in 1..Len(Script)
  BY <1>1, LenProperties
<1> QED
  BY <1>1, <1>2, ElementOfSeq

\* A statement that is not refused leaves tables.
LEMMA ExecutedTyped ==
  ASSUME db \in [Tables -> (SUBSET Rows) \cup {Absent}], NEW s \in Statements,
         ~ Refused(s, db, keys)
  PROVE  Executed(s, db, keys) \in [Tables -> (SUBSET Rows) \cup {Absent}]
<1>1. s.table \in Tables /\ s.from \in Tables /\ s.op \in Ops
  BY DEF Statements
<1>2. CASE s.op \in {"ensure", "create"}
  BY <1>1, <1>2 DEF Executed, Exists
<1>3. CASE s.op \in {"discard", "drop"}
  <2>1. Dropped(db, s.table, keys) \in [Tables -> (SUBSET Rows) \cup {Absent}]
    BY <1>1 DEF Dropped, Exists
  <2> QED
    BY <1>3, <2>1 DEF Executed
<1>4. CASE s.op = "copy"
  <2>1. Exists(db, s.from) /\ Exists(db, s.table)
    BY <1>4 DEF Refused
  <2>2. db[s.from] \in SUBSET Rows /\ db[s.table] \in SUBSET Rows
    BY <1>1, <2>1 DEF Exists
  <2>3. Copied(db, s.table, s.from) \in [Tables -> (SUBSET Rows) \cup {Absent}]
    BY <1>1, <2>2 DEF Copied
  <2> QED
    BY <1>4, <2>3 DEF Executed
<1>5. CASE s.op = "rename"
  BY <1>1, <1>5 DEF Executed
<1>6. CASE s.op \in {"keys_on", "keys_off"}
  BY <1>6 DEF Executed
<1> QED
  BY <1>1, <1>2, <1>3, <1>4, <1>5, <1>6 DEF Ops

-----------------------------------------------------------------------------
(* The invariant.                                                          *)

\* Ids are no names of absent rows, so tables given to the program are typed.
LEMMA InitInv == Init => IInv
<1> SUFFICES ASSUME Init PROVE IInv
  OBVIOUS
<1>0. \A r \in Ids : Unlinked(r) \in Rows /\ Linked(r) \in Rows
  BY DEF Unlinked, Linked, Rows
<1>1. \A us \in SUBSET Ids : {Unlinked(r) : r \in us} \in SUBSET Rows
  BY <1>0
<1>2. \A as \in SUBSET Ids : {Linked(r) : r \in as} \in SUBSET Rows
  BY <1>0
<1>3. db \in [Tables -> (SUBSET Rows) \cup {Absent}]
  BY <1>1, <1>2 DEF Init
<1>4. kept \subseteq Kinds \X Ids
  BY DEF Init, Kinds
<1>5. orphaned \in BOOLEAN
  BY DEF Init, BrokenKeys
<1>6. TypeOK
  <2>1. stops \in 0..MaxStops /\ version \in Nat /\ at \in Nat /\ done \in Nat
    BY MaxStopsAssumption DEF Init
  <2>2. known \in Releases /\ phase \in Phases /\ keys \in BOOLEAN /\ torn \in BOOLEAN
    BY DEF Init, Phases
  <2> QED
    BY <1>3, <1>4, <1>5, <2>1, <2>2 DEF TypeOK
<1>7. InOrder /\ CheckedBeforeRecord
  BY ScriptsTyped DEF Init, InOrder, CheckedBeforeRecord, InMigration
<1> QED
  BY <1>6, <1>7 DEF IInv

\* What the loop does next is in order when the version it goes on from is recorded.
LEMMA NextInOrder ==
  ASSUME IInv, NEW v \in Nat, v <= known, version' = v, known' = known, NextMigration(v)
  PROVE  /\ InOrder' /\ CheckedBeforeRecord'
         /\ phase' \in Phases /\ at' \in Nat /\ done' \in Nat
<1>1. known \in Nat /\ known <= Len(Scripts) /\ Len(Scripts) = 14
  BY ReleasesAssumption, ScriptsTyped DEF IInv, TypeOK
<1>2. done' = 0 /\ phase' \in {"script", "serving"} /\ at' \in Nat
  BY DEF NextMigration
<1>3. phase' = "script" => Len(Script') \in Nat
  <2>1. SUFFICES ASSUME phase' = "script" PROVE Len(Script') \in Nat
    OBVIOUS
  <2>2. at' \in 1..Len(Scripts)
    BY <1>1, <2>1 DEF NextMigration
  <2>3. Script' \in Seq(Statements)
    BY <2>2, ScriptsTyped, ElementOfSeq DEF Script
  <2> QED
    BY <2>3, LenProperties
<1>4. InOrder'
  BY <1>1, <1>2, <1>3 DEF InOrder, InMigration, NextMigration
<1> QED
  BY <1>2, <1>4 DEF CheckedBeforeRecord, Phases

\* Every step keeps the invariant.
LEMMA StepInv == IInv /\ [Next]_vars => IInv'
<1> SUFFICES ASSUME IInv, [Next]_vars PROVE IInv'
  OBVIOUS
<1> USE DEF IInv
<1>0. known \in Nat /\ known <= Len(Scripts) /\ Len(Scripts) = 14
  BY ReleasesAssumption, ScriptsTyped DEF TypeOK
<1>1. CASE Start
  <2>1. InOrder' /\ CheckedBeforeRecord'
        /\ phase' \in Phases /\ at' \in Nat /\ done' \in Nat
    BY <1>1, NextInOrder DEF Start, TypeOK
  <2> QED
    BY <1>1, <2>1 DEF Start, TypeOK
<1>2. CASE RefuseNewer
  BY <1>2 DEF RefuseNewer, TypeOK, InOrder, InMigration, CheckedBeforeRecord, Phases
<1>3. CASE Statement
  <2>1. at \in 1..Len(Scripts)
    BY <1>0, <1>3 DEF Statement, TypeOK, InOrder, InMigration
  <2>2. Script[done + 1] \in Statements
    BY <1>3, <2>1, NextStatement DEF Statement, TypeOK
  <2>3. db' \in [Tables -> (SUBSET Rows) \cup {Absent}]
    BY <1>3, <2>2, ExecutedTyped DEF Statement, TypeOK
  <2>4. keys' \in BOOLEAN
    BY <1>3 DEF Statement, KeysAfter
  <2>5. TypeOK'
    BY <1>3, <2>3, <2>4 DEF Statement, TypeOK
  <2>6. Script' = Script /\ Len(Script) \in Nat
    BY <1>3, <2>1, ScriptsTyped, ElementOfSeq, LenProperties DEF Statement, Script
  <2>7. InOrder'
    BY <1>3, <2>6 DEF Statement, TypeOK, InOrder, InMigration
  <2> QED
    BY <1>3, <2>5, <2>7 DEF Statement, CheckedBeforeRecord
<1>4. CASE StatementFails
  BY <1>4 DEF StatementFails, TypeOK, InOrder, InMigration, CheckedBeforeRecord, Phases
<1>5. CASE ScriptEnds
  BY <1>5 DEF ScriptEnds, TypeOK, InOrder, InMigration, CheckedBeforeRecord, Phases
<1>6. CASE CheckKeys
  BY <1>6 DEF CheckKeys, TypeOK, InOrder, InMigration, CheckedBeforeRecord, Phases
<1>7. CASE RecordVersion
  <2>1. at \in Nat /\ at <= known
    BY <1>7 DEF RecordVersion, TypeOK, InOrder, InMigration
  <2>2. InOrder' /\ CheckedBeforeRecord'
        /\ phase' \in Phases /\ at' \in Nat /\ done' \in Nat
    BY <1>7, <2>1, NextInOrder DEF RecordVersion
  <2> QED
    BY <1>7, <2>1, <2>2 DEF RecordVersion, TypeOK
<1>8. ASSUME NEW kind \in Kinds, NEW r \in Ids, Store(kind, r) PROVE IInv'
  <2> DEFINE t == Home(kind, known)
  <2>1. t \in Tables
    BY <1>0 DEF Home, Tables, Kinds
  <2>2. db[t] \in SUBSET Rows
    BY <1>8, <2>1 DEF Store, Exists, TypeOK
  <2>3. RowOf(kind, r) \in Rows
    BY DEF RowOf, Linked, Unlinked, Rows
  <2>4. Upserted(db[t], kind, r) \in SUBSET Rows
    BY <2>2, <2>3 DEF Upserted
  <2>5. db' \in [Tables -> (SUBSET Rows) \cup {Absent}]
    BY <1>8, <2>1, <2>4 DEF Store, TypeOK
  <2>6. TypeOK'
    BY <1>8, <2>5 DEF Store, TypeOK
  <2> QED
    BY <1>8, <2>6 DEF Store, InOrder, InMigration, CheckedBeforeRecord, Script
<1>9. CASE Poll
  BY <1>9 DEF Poll, vars, TypeOK, InOrder, InMigration, CheckedBeforeRecord, Script
<1>10. CASE Stop
  <2>1. torn' \in BOOLEAN
    BY <1>10 DEF Stop, InMigration
  <2>2. stops' \in 0..MaxStops
    BY <1>10, MaxStopsAssumption DEF Stop, TypeOK
  <2>3. TypeOK'
    BY <1>10, <2>1, <2>2 DEF Stop, TypeOK, Phases
  <2> QED
    BY <1>10, <2>3 DEF Stop, InOrder, InMigration, CheckedBeforeRecord
<1>11. CASE Restart
  BY <1>11 DEF Restart, TypeOK, InOrder, InMigration, CheckedBeforeRecord, Phases
<1>12. ASSUME NEW k \in Releases, Deploy(k) PROVE IInv'
  BY <1>12 DEF Deploy, TypeOK, InOrder, InMigration, CheckedBeforeRecord
<1>13. CASE UNCHANGED vars
  BY <1>13 DEF vars, TypeOK, InOrder, InMigration, CheckedBeforeRecord, Script
<1> QED
  BY <1>1, <1>2, <1>3, <1>4, <1>5, <1>6, <1>7, <1>8, <1>9, <1>10, <1>11, <1>12, <1>13
  DEF Next, Begin, Migrate

\* No version is recorded out of order or over broken keys, and a process that
\* serves has the version its release knows (runner.py:49-62).
THEOREM MigrationsInOrder == Spec => []IInv
BY InitInv, StepInv, PTL DEF Spec

\* The state is well typed: no statement of any script meets a table it does not know.
THEOREM MigrationTypes == Spec => []TypeOK
<1>1. IInv => TypeOK
  BY DEF IInv
<1> QED
  BY <1>1, MigrationsInOrder, PTL

\* The version goes up by one at a time, and only over foreign keys that hold;
\* no release, older or newer, and no stop sets it back (runner.py:70-91).
THEOREM VersionsOnlyGrow == Spec => VersionSteps
<1> DEFINE Grows == version' # version => version' = version + 1 /\ ~ BrokenKeys(db)
<1>1. ASSUME IInv, [Next]_vars PROVE [Grows]_vars
  <2>1. CASE RecordVersion
    BY <1>1, <2>1 DEF RecordVersion, IInv, InOrder, InMigration, CheckedBeforeRecord
  <2>2. CASE ~ RecordVersion
    <3>1. version' = version
      BY <1>1, <2>2 DEF Next, Begin, Migrate, Start, RefuseNewer, Statement,
         StatementFails, ScriptEnds, CheckKeys, Store, Poll, Stop, Restart, Deploy, vars
    <3> QED
      BY <3>1
  <2> QED
    BY <2>1, <2>2
<1> QED
  BY <1>1, MigrationsInOrder, PTL DEF Spec, VersionSteps
-----------------------------------------------------------------------------
(* What a release finds.                                                   *)

Databases == [Tables -> (SUBSET Rows) \cup {Absent}]

\* Fact f is where version v keeps it.
Held(d, v, f) ==
  LET rows == d[Home(f[1], v)]
  IN  IF f[1] = "seen" THEN f[2] \in IdsOf(rows) ELSE RowOf(f[1], f[2]) \in rows

\* Database d has the tables of version v, with the facts in them.  Seen accounts are linked to
\* nobody, and nothing is stored in the requests, which would be lost with their accounts.
Fits(d, v, facts) ==
  /\ d \in Databases
  /\ \A t \in TablesOf(v) : Exists(d, t)
  /\ \A f \in facts : Held(d, v, f)
  /\ \A r \in d["telegram_seen_accounts"] : r.ref = NoRef
  /\ d["registration_requests"] \in {{}, Absent}

Sound(d, v, facts) == Fits(d, v, facts) /\ (v >= 1 => ~ BrokenKeys(d))

\* The scripts that rebuild a table, the table and its copy.
Rebuilds == {2, 3, 6, 9}
Old(k) == CASE k = 3 -> "users" [] k = 9 -> "telegram_accounts" [] OTHER -> "splitwise_users"
New(k) ==
  CASE k = 3 -> "users_new" [] k = 9 -> "telegram_accounts_new" [] OTHER -> "splitwise_users_new"

\* The database with the copy renamed to the table.
Swapped(d, k) == [d EXCEPT ![Old(k)] = d[New(k)], ![New(k)] = Absent]

\* By script and number of statements executed: where the copy is empty, where it has the rows,
\* where the table is gone, and where the script has dropped what its version no longer has.
Empty   == {<<2, 2>>, <<3, 3>>, <<6, 2>>, <<9, 1>>}
Gaps    == {<<2, 4>>, <<3, 5>>, <<6, 4>>, <<9, 4>>}
Filled  == {<<2, 3>>, <<3, 4>>, <<6, 3>>, <<9, 2>>, <<9, 3>>}
Replaced == {<<9, 6>>, <<14, 3>>}

Copying ==
  LET p == <<at, done>> IN
  /\ p \in Empty => db[New(at)] = {}
  /\ p \in Filled \cup Gaps => Exists(db, New(at)) /\ Sound(Swapped(db, at), version, kept)
  /\ p \in Gaps => db[Old(at)] = Absent

\* Accounts and seen accounts are among the new accounts, and the preferences for coffee among
\* those for invitations, before their tables are dropped.
Merging ==
  LET seen == IdsOf(db["telegram_seen_accounts"]) IN
  /\ at = 9 /\ done = 2 => db["telegram_accounts_new"] = db["telegram_accounts"]
  /\ at = 9 /\ done \in {3, 4} => seen \subseteq IdsOf(db["telegram_accounts_new"])
  /\ at = 9 /\ done = 5 => seen \subseteq IdsOf(db["telegram_accounts"])
  /\ at = 14 /\ done = 1 => db["user_invitation_preferences"] = {}
  /\ at = 14 /\ done = 2 => db["coffee_preferences"] \subseteq db["user_invitation_preferences"]
  /\ <<at, done>> \in Replaced => Sound(db, at, kept)

\* The scripts that rebuild nothing have made their tables so far.
Made ==
  at \notin Rebuilds =>
    \A i \in 1..done : Script[i].op \in {"ensure", "create"} => Exists(db, Script[i].table)

\* How far a script has come.
Position ==
  /\ phase # "script" => done = Len(Script)
  /\ keys <=> ~ (at = 3 /\ done \in 1..6)
  /\ <<at, done>> \notin Gaps \cup Replaced => Sound(db, version, kept)
  /\ Made /\ Copying /\ Merging

\* Unless a migration was torn, the tables are those of the recorded version, with every fact in
\* them, also wherever a script may be stopped and run again.
SchemaInv ==
  ~ torn => IF InMigration THEN Position ELSE Sound(db, version, kept)

-----------------------------------------------------------------------------
(* Changes of one table.                                                   *)

\* The row that stands for an absent table is no row.
LEMMA RowsExist ==
  ASSUME NEW R \in SUBSET Rows
  PROVE  R # Absent
<1> DEFINE a == [id |-> NoRef, ref |-> NoRef]
<1>1. a.id = NoRef /\ a \in Absent
  BY DEF Absent
<1>2. \A r \in Rows : r.id \in Ids
  BY DEF Rows
<1>3. a \notin Rows
  BY <1>1, <1>2, NoRefAssumption
<1> QED BY <1>1, <1>3

\* A table that grows, or comes into being, with rows that refer to what is there breaks no key.
LEMMA KeysKept ==
  ASSUME NEW d \in Databases, NEW t \in Tables, NEW R \in SUBSET Rows,
         ~ BrokenKeys(d), Exists(d, t) => IdsOf(d[t]) \subseteq IdsOf(R), Dangling(d, t, R) = {}
  PROVE  ~ BrokenKeys([d EXCEPT ![t] = R])
<1> DEFINE e == [d EXCEPT ![t] = R]
<1>1. R # Absent
  BY RowsExist
<1>2. e[t] = R /\ \A u \in Tables : u # t => e[u] = d[u]
  BY DEF Databases
<1> HIDE DEF e
<1>3. SUFFICES ASSUME NEW u \in Tables, Exists(e, u), NEW r \in Dangling(e, u, e[u])
               PROVE  FALSE
  BY DEF BrokenKeys, e
<1>4. u \in DOMAIN Parent /\ r \in e[u] /\ r.ref # NoRef
  BY DEF Dangling
<1>5. Parent[u] \in Tables /\ Parent[u] # u
  BY <1>4 DEF Parent, Tables
<1>6. ~ Exists(e, Parent[u]) \/ r.ref \notin IdsOf(e[Parent[u]])
  BY DEF Dangling
<1>7. CASE u = t
  <2>1. e[Parent[u]] = d[Parent[u]]
    BY <1>2, <1>5, <1>7
  <2>2. r \in Dangling(d, t, R)
    BY <1>2, <1>4, <1>6, <1>7, <2>1 DEF Dangling, Exists
  <2> QED BY <2>2
<1>8. CASE u # t
  <2>1. e[u] = d[u] /\ Exists(d, u)
    BY <1>2, <1>3, <1>8 DEF Exists
  <2>2. r \notin Dangling(d, u, d[u])
    BY <2>1 DEF BrokenKeys
  <2>3. Exists(d, Parent[u]) /\ r.ref \in IdsOf(d[Parent[u]])
    BY <1>4, <2>1, <2>2 DEF Dangling
  <2>4. CASE Parent[u] = t
    BY <1>1, <1>2, <1>6, <2>3, <2>4 DEF Exists
  <2>5. CASE Parent[u] # t
    BY <1>2, <1>5, <1>6, <2>3, <2>5 DEF Exists
  <2> QED BY <2>4, <2>5
<1> QED BY <1>7, <1>8

\* Nor does a table that nobody refers to, when it goes.
LEMMA KeysWithout ==
  ASSUME NEW d \in Databases, NEW t \in Tables, t \notin {"users", "telegram_accounts"},
         ~ BrokenKeys(d)
  PROVE  ~ BrokenKeys([d EXCEPT ![t] = Absent])
<1> DEFINE e == [d EXCEPT ![t] = Absent]
<1>1. ~ Exists(e, t) /\ \A u \in Tables : u # t => e[u] = d[u]
  BY DEF Databases, Exists
<1> HIDE DEF e
<1>2. SUFFICES ASSUME NEW u \in Tables, Exists(e, u), NEW r \in Dangling(e, u, e[u])
               PROVE  FALSE
  BY DEF BrokenKeys, e
<1>3. u # t /\ Exists(d, u) /\ e[u] = d[u]
  BY <1>1, <1>2 DEF Exists
<1>4. u \in DOMAIN Parent
  BY DEF Dangling
<1>5. Parent[u] \in Tables /\ Parent[u] # t
  BY <1>4 DEF Parent, Tables
<1>6. r \in Dangling(d, u, d[u])
  BY <1>1, <1>3, <1>5 DEF Dangling, Exists
<1> QED BY <1>3, <1>6 DEF BrokenKeys

\* Facts are looked up in tables.
LEMMA HomeIsTable ==
  ASSUME NEW kind \in Kinds, NEW v \in Nat
  PROVE  /\ Home(kind, v) \in Tables /\ Home(kind, v) # "registration_requests"
         /\ Home(kind, v) = "telegram_seen_accounts" => kind = "seen"
BY DEF Home, Kinds, Tables

\* A table that grows by such rows keeps the database sound.
LEMMA Grown ==
  ASSUME NEW d, NEW v \in Nat, NEW facts \in SUBSET (Kinds \X Ids), Sound(d, v, facts),
         NEW t \in Tables, NEW R \in SUBSET Rows,
         Exists(d, t) => d[t] \subseteq R, v >= 1 => Dangling(d, t, R) = {},
         t = "registration_requests" => R = {},
         t = "telegram_seen_accounts" => \A r \in R : r.ref = NoRef
  PROVE  Sound([d EXCEPT ![t] = R], v, facts) /\ Exists([d EXCEPT ![t] = R], t)
<1> DEFINE e == [d EXCEPT ![t] = R]
<1>0. d \in Databases
  BY DEF Sound, Fits
<1>1. R # Absent
  BY RowsExist
<1>2. e \in Databases /\ e[t] = R /\ \A u \in Tables : u # t => e[u] = d[u]
  BY <1>0 DEF Databases
<1>3. v >= 1 => ~ BrokenKeys(e)
  BY <1>0, KeysKept DEF Sound, IdsOf
<1> HIDE DEF e
<1>4. \A u \in TablesOf(v) : Exists(e, u)
  BY <1>1, <1>2 DEF Sound, Fits, TablesOf, Exists
<1>5. ASSUME NEW f \in facts PROVE Held(e, v, f)
  <2>1. Held(d, v, f) /\ f[1] \in Kinds /\ f[2] \in Ids
    BY DEF Sound, Fits
  <2>2. Home(f[1], v) \in Tables
    BY <2>1, HomeIsTable
  <2>3. CASE Home(f[1], v) # t
    BY <1>2, <2>1, <2>2, <2>3 DEF Held
  <2>4. CASE Home(f[1], v) = t
    <3>1. Exists(d, t)
      BY <2>1, <2>4, NoRefAssumption DEF Held, Exists, Absent, IdsOf, RowOf, Linked, Unlinked
    <3> QED BY <1>2, <2>1, <2>4, <3>1 DEF Held, IdsOf
  <2> QED BY <2>3, <2>4
<1>6. \A r \in e["telegram_seen_accounts"] : r.ref = NoRef
  BY <1>2 DEF Sound, Fits, Tables
<1>7. e["registration_requests"] \in {{}, Absent}
  BY <1>2 DEF Sound, Fits, Tables
<1> QED BY <1>1, <1>2, <1>3, <1>4, <1>5, <1>6, <1>7 DEF Sound, Fits, Exists, e

\* So does a table that goes and is none of the version's.
LEMMA Without ==
  ASSUME NEW d, NEW v \in Nat, NEW facts \in SUBSET (Kinds \X Ids), Sound(d, v, facts),
         NEW t \in Tables, t \notin TablesOf(v), t \notin {"users", "telegram_accounts"},
         \A f \in facts : Home(f[1], v) # t
  PROVE  Sound([d EXCEPT ![t] = Absent], v, facts)
<1> DEFINE e == [d EXCEPT ![t] = Absent]
<1>0. d \in Databases
  BY DEF Sound, Fits
<1>2. e \in Databases /\ e[t] = Absent /\ \A u \in Tables : u # t => e[u] = d[u]
  BY <1>0 DEF Databases
<1>3. v >= 1 => ~ BrokenKeys(e)
  BY <1>0, KeysWithout DEF Sound
<1> HIDE DEF e
<1>4. \A u \in TablesOf(v) : Exists(e, u)
  BY <1>2 DEF Sound, Fits, TablesOf, Exists
<1>5. \A f \in facts : Held(e, v, f)
  BY <1>2, HomeIsTable DEF Sound, Fits, Held
<1>6. \A r \in e["telegram_seen_accounts"] : r.ref = NoRef
  BY <1>2 DEF Sound, Fits, Tables, Absent
<1>7. e["registration_requests"] \in {{}, Absent}
  BY <1>2 DEF Sound, Fits, Tables
<1> QED BY <1>2, <1>3, <1>4, <1>5, <1>6, <1>7 DEF Sound, Fits, e

\* What a release stores keeps the database sound for its version, and is where it looks for it.
LEMMA StoredSound ==
  ASSUME NEW d, NEW v \in Nat, NEW facts \in SUBSET (Kinds \X Ids), Sound(d, v, facts),
         NEW kind \in Kinds, NEW r \in Ids, NEW t, t = Home(kind, v), Exists(d, t),
         Dangling(d, t, {RowOf(kind, r)}) = {}
  PROVE  Sound([d EXCEPT ![t] = Upserted(@, kind, r)], v, facts \cup {<<kind, r>>})
<1> DEFINE R == Upserted(d[t], kind, r)
           e == [d EXCEPT ![t] = R]
<1>1. d \in Databases /\ t \in Tables /\ t # "registration_requests"
      /\ (t = "telegram_seen_accounts" => kind = "seen")
  BY HomeIsTable DEF Sound, Fits
<1>2. d[t] \in SUBSET Rows
  BY <1>1 DEF Databases, Exists
<1>3. RowOf(kind, r) \in Rows /\ RowOf(kind, r).id = r
  BY DEF RowOf, Linked, Unlinked, Rows
<1>4. /\ R \subseteq d[t] \cup {RowOf(kind, r)}
      /\ \A x \in d[t] : x.id # r => x \in R
      /\ kind = "seen" /\ r \in IdsOf(d[t]) => R = d[t]
      /\ ~ (kind = "seen" /\ r \in IdsOf(d[t])) => RowOf(kind, r) \in R
  BY DEF Upserted
<1> HIDE DEF R
<1>5. R \in SUBSET Rows
  BY <1>2, <1>3, <1>4
<1>6. IdsOf(d[t]) \subseteq IdsOf(R) /\ r \in IdsOf(R)
  BY <1>3, <1>4 DEF IdsOf
<1>7. v >= 1 => ~ BrokenKeys(e)
  <2>1. SUFFICES ASSUME v >= 1 PROVE ~ BrokenKeys(e)
    OBVIOUS
  <2>2. ~ BrokenKeys(d)
    BY <2>1 DEF Sound
  <2>3. Dangling(d, t, d[t]) = {}
    BY <1>1, <2>2 DEF BrokenKeys
  <2>4. Dangling(d, t, R) = {}
    BY <1>4, <2>3 DEF Dangling
  <2> QED BY <1>1, <1>5, <1>6, <2>2, <2>4, KeysKept
<1>8. e \in Databases /\ e[t] = R /\ \A u \in Tables : u # t => e[u] = d[u]
  BY <1>1, <1>5 DEF Databases
<1>9. e = [d EXCEPT ![t] = Upserted(@, kind, r)]
  BY DEF R
<1> HIDE DEF e
<1>10. \A u \in TablesOf(v) : Exists(e, u)
  BY <1>5, <1>8, RowsExist DEF Sound, Fits, TablesOf, Exists
<1>11. ASSUME NEW f \in facts \cup {<<kind, r>>} PROVE Held(e, v, f)
  <2>1. CASE f = <<kind, r>>
    <3>1. f[1] = kind /\ f[2] = r
      BY <2>1
    <3> QED BY <1>4, <1>6, <1>8, <3>1 DEF Held
  <2>2. CASE f \in facts /\ Home(f[1], v) # t
    <3>1. Held(d, v, f) /\ Home(f[1], v) \in Tables
      BY <2>2, HomeIsTable DEF Sound, Fits
    <3> QED BY <1>8, <2>2, <3>1 DEF Held
  <2>3. CASE f \in facts /\ Home(f[1], v) = t /\ f # <<kind, r>>
    <3>1. Held(d, v, f) /\ f[1] \in Kinds /\ f[2] \in Ids /\ f = <<f[1], f[2]>>
      BY <2>3 DEF Sound, Fits
    <3>2. CASE f[1] = "seen"
      BY <1>6, <1>8, <2>3, <3>1, <3>2 DEF Held
    <3>3. CASE f[1] # "seen"
      <4>1. RowOf(f[1], f[2]) \in d[t] /\ RowOf(f[1], f[2]).id = f[2]
        BY <2>3, <3>1, <3>3 DEF Held, RowOf, Linked, Unlinked
      <4>2. CASE f[2] # r
        BY <1>4, <1>8, <2>3, <3>3, <4>1, <4>2 DEF Held
      <4>3. CASE f[2] = r
        <5>1. f[1] # kind
          BY <2>3, <3>1, <4>3
        <5>2. kind = "seen"
          BY <2>3, <3>1, <3>3, <5>1 DEF Home, Kinds
        <5>3. R = d[t]
          BY <1>4, <4>1, <4>3, <5>2 DEF IdsOf
        <5> QED BY <1>8, <2>3, <3>3, <4>1, <5>3 DEF Held
      <4> QED BY <4>2, <4>3
    <3> QED BY <3>2, <3>3
  <2> QED BY <2>1, <2>2, <2>3
<1>12. \A x \in e["telegram_seen_accounts"] : x.ref = NoRef
  <2>1. "telegram_seen_accounts" \in Tables
    BY DEF Tables
  <2>2. \A x \in d["telegram_seen_accounts"] : x.ref = NoRef
    BY DEF Sound, Fits
  <2>3. kind = "seen" => RowOf(kind, r).ref = NoRef
    BY DEF RowOf, Unlinked
  <2>4. CASE t = "telegram_seen_accounts"
    BY <1>1, <1>4, <1>8, <2>2, <2>3, <2>4
  <2>5. CASE t # "telegram_seen_accounts"
    BY <1>8, <2>1, <2>2, <2>5
  <2> QED BY <2>4, <2>5
<1>13. e["registration_requests"] \in {{}, Absent}
  BY <1>1, <1>8 DEF Sound, Fits, Tables
<1> QED BY <1>7, <1>8, <1>9, <1>10, <1>11, <1>12, <1>13 DEF Sound, Fits

-----------------------------------------------------------------------------
(* The scripts, statement by statement.                                    *)

\* The script of each version.
LEMMA ScriptOf ==
  /\ Scripts[1] = Initial /\ Scripts[2] = RebuildSplitwise /\ Scripts[3] = RebuildUsers
  /\ Scripts[4] = DebugSettings /\ Scripts[5] = AutoChats /\ Scripts[6] = RelaxSplitwise
  /\ Scripts[7] = Vacations /\ Scripts[8] = SeenAccounts /\ Scripts[9] = MergeSeen
  /\ Scripts[10] = Requests /\ Scripts[11] = PinnedMessages /\ Scripts[12] = PollRegistry
  /\ Scripts[13] = CoffeeTables /\ Scripts[14] = Unify
BY DEF Scripts

\* The statements of a rebuild.
LEMMA RebuildText ==
  ASSUME NEW t, NEW new
  PROVE  /\ Len(Rebuild(t, new)) = 5
         /\ Rebuild(t, new)[1] = Discard(new) /\ Rebuild(t, new)[2] = Create(new)
         /\ Rebuild(t, new)[3] = Copy(new, t) /\ Rebuild(t, new)[4] = Drop(t)
         /\ Rebuild(t, new)[5] = Rename(new, t)
BY DEF Rebuild

\* Statements put before and after a script.
LEMMA Enclosed ==
  ASSUME NEW S, NEW a \in S, NEW b \in S, NEW s \in Seq(S), NEW v, v = <<a>> \o s \o <<b>>
  PROVE  /\ Len(v) = Len(s) + 2
         /\ v[1] = a /\ \A i \in 1..Len(s) : v[i + 1] = s[i]
         /\ v[Len(s) + 2] = b
<1>1. PICK off, on : off = <<a>> /\ on = <<b>>
  OBVIOUS
<1>2. off \in Seq(S) /\ on \in Seq(S)
  BY <1>1
<1>3. Len(off) = 1 /\ Len(on) = 1 /\ off[1] = a /\ on[1] = b
  BY <1>1
<1>4. PICK u : u = off \o s
  OBVIOUS
<1>5. /\ u \in Seq(S) /\ Len(u) = Len(off) + Len(s)
      /\ \A i \in 1 .. Len(off) + Len(s) : u[i] = IF i <= Len(off) THEN off[i] ELSE s[i - Len(off)]
  BY <1>2, <1>4, ConcatProperties
<1>6. v = u \o on
  BY <1>1, <1>4
<1>7. u \in Seq(S)
  BY <1>5
<1>8. /\ Len(v) = Len(u) + Len(on)
      /\ \A i \in 1 .. Len(u) + Len(on) : v[i] = IF i <= Len(u) THEN u[i] ELSE on[i - Len(u)]
  BY <1>2, <1>6, <1>7, ConcatProperties
<1>9. Len(s) \in Nat
  BY LenProperties
<1>10. PICK n \in Nat : n = Len(s)
  BY <1>9
<1>11. Len(u) = n + 1 /\ Len(v) = n + 2
  BY <1>3, <1>5, <1>8, <1>10
<1>12. \A i \in 1..n + 1 : u[i] = IF i <= 1 THEN off[i] ELSE s[i - 1]
  BY <1>3, <1>5, <1>10
<1>13. \A i \in 1..n + 2 : v[i] = IF i <= n + 1 THEN u[i] ELSE on[i - (n + 1)]
  BY <1>3, <1>8, <1>11
<1>14. v[1] = off[1] /\ v[n + 2] = on[1]
  <2>1. v[1] = u[1] /\ u[1] = off[1]
    BY <1>12, <1>13
  <2>2. n + 2 \in 1..n + 2 /\ ~ (n + 2 <= n + 1) /\ n + 2 - (n + 1) = 1
    BY <1>10
  <2> QED BY <1>10, <1>13, <2>1, <2>2
<1>15. ASSUME NEW i \in 1..n PROVE v[i + 1] = s[i]
  <2>1. PICK j \in 1..n + 1 : j = i + 1 /\ ~ (j <= 1) /\ j - 1 = i /\ j \in 1..n + 2 /\ j <= n + 1
    BY <1>10
  <2>2. v[j] = u[j] /\ u[j] = s[j - 1]
    BY <1>12, <1>13, <2>1
  <2> QED BY <2>1, <2>2
<1> QED BY <1>3, <1>10, <1>11, <1>14, <1>15

\* 0003, with the keys switched off and on around it.
LEMMA UsersText ==
  /\ Len(RebuildUsers) = 7
  /\ RebuildUsers[1] = Keys(FALSE) /\ RebuildUsers[2] = Discard("users_new")
  /\ RebuildUsers[3] = Create("users_new") /\ RebuildUsers[4] = Copy("users_new", "users")
  /\ RebuildUsers[5] = Drop("users") /\ RebuildUsers[6] = Rename("users_new", "users")
  /\ RebuildUsers[7] = Keys(TRUE)
<1>1. "users" \in Tables /\ "users_new" \in Tables
  BY DEF Tables
<1>2. PICK s : s = Rebuild("users", "users_new")
  OBVIOUS
<1>3. s \in Seq(Statements) /\ Keys(FALSE) \in Statements /\ Keys(TRUE) \in Statements
  BY <1>1, <1>2, RebuildIsScript, Forms
<1>4. Len(s) = 5
  BY <1>2, RebuildText
<1>5. PICK off, on, v : off = Keys(FALSE) /\ on = Keys(TRUE) /\ v = RebuildUsers
  OBVIOUS
<1>6. off \in Statements /\ on \in Statements /\ v = <<off>> \o s \o <<on>>
  BY <1>2, <1>3, <1>5 DEF RebuildUsers
<1>7. /\ Len(v) = Len(s) + 2
      /\ v[1] = off /\ \A i \in 1..Len(s) : v[i + 1] = s[i]
      /\ v[Len(s) + 2] = on
  BY <1>3, <1>6, Enclosed
<1>8. Len(v) = 7 /\ v[7] = on
  <2>1. Len(s) + 2 = 7
    BY <1>4
  <2> QED BY <1>7, <2>1
<1>9. v[2] = s[1] /\ v[3] = s[2] /\ v[4] = s[3] /\ v[5] = s[4] /\ v[6] = s[5]
  <2>1. \A i \in 1..5 : v[i + 1] = s[i]
    <3>1. \A i \in 1..5 : i \in 1..Len(s)
      BY <1>4
    <3> QED BY <1>7, <3>1
  <2>2. v[1 + 1] = s[1] /\ v[2 + 1] = s[2] /\ v[3 + 1] = s[3] /\ v[4 + 1] = s[4] /\ v[5 + 1] = s[5]
    BY <2>1
  <2> QED BY <2>2
<1>10. /\ s[1] = Discard("users_new") /\ s[2] = Create("users_new")
      /\ s[3] = Copy("users_new", "users") /\ s[4] = Drop("users")
      /\ s[5] = Rename("users_new", "users")
  BY <1>2, RebuildText
<1> QED BY <1>5, <1>7, <1>8, <1>9, <1>10

\* 0009.
LEMMA MergeText ==
  /\ Len(MergeSeen) = 6
  /\ MergeSeen[1] = Create("telegram_accounts_new")
  /\ MergeSeen[2] = Copy("telegram_accounts_new", "telegram_accounts")
  /\ MergeSeen[3] = Copy("telegram_accounts_new", "telegram_seen_accounts")
  /\ MergeSeen[4] = Drop("telegram_accounts")
  /\ MergeSeen[5] = Rename("telegram_accounts_new", "telegram_accounts")
  /\ MergeSeen[6] = Drop("telegram_seen_accounts")
BY DEF MergeSeen

\* 0014.
LEMMA UnifyText ==
  /\ Len(Unify) = 3
  /\ Unify[1] = Create("user_invitation_preferences")
  /\ Unify[2] = Copy("user_invitation_preferences", "coffee_preferences")
  /\ Unify[3] = Drop("coffee_preferences")
BY DEF Unify

\* A statement of a script that rebuilds nothing, except for the two that move the preferences.
LEMMA PlainText ==
  ASSUME NEW k \in 1..14, k \notin Rebuilds, NEW i \in 1..Len(Scripts[k]),
         k = 14 => i = 1
  PROVE  Scripts[k][i].op \in {"keys_on", "ensure", "create"}
<1> USE DEF Ensure, Create, Keys
<1>1. CASE k = 1
  <2>1. Initial = <<Keys(TRUE), Ensure("users"), Ensure("telegram_accounts"),
                    Ensure("splitwise_users")>>
    BY DEF Initial
  <2>2. \A j \in 1..4 : Initial[j].op \in {"keys_on", "ensure", "create"} /\ Len(Initial) = 4
    BY <2>1
  <2>3. Scripts[k] = Initial /\ Len(Initial) = 4
    BY <1>1, <2>2, ScriptOf
  <2>4. i \in 1..4
    BY <2>3
  <2> QED BY <2>2, <2>3, <2>4
<1>2. CASE k \in {4, 5, 7, 8, 10, 11}
  <2>1. \E t : Scripts[k] = <<Ensure(t)>>
    BY <1>2, ScriptOf
    DEF DebugSettings, AutoChats, Vacations, SeenAccounts, Requests, PinnedMessages
  <2> QED BY <2>1
<1>3. CASE k = 12
  BY <1>3, ScriptOf DEF PollRegistry
<1>4. CASE k = 13
  BY <1>4, ScriptOf DEF CoffeeTables
<1>5. CASE k = 14
  BY <1>5, ScriptOf, UnifyText
<1> QED BY <1>1, <1>2, <1>3, <1>4, <1>5 DEF Rebuilds

\* Every table that a version adds is made by its script.
LEMMA PlainMakes ==
  ASSUME NEW k \in 1..14, NEW t \in TablesOf(k), t \notin TablesOf(k - 1)
  PROVE  k \notin Rebuilds /\ \E i \in 1..Len(Scripts[k]) :
           Scripts[k][i].op \in {"ensure", "create"} /\ Scripts[k][i].table = t
<1> USE DEF Ensure, Create, Keys
<1>0. \/ k = 1 /\ t \in {"users", "telegram_accounts", "splitwise_users"}
      \/ k = 4 /\ t = "telegram_debug_settings"
      \/ k = 5 /\ t = "lunch_auto_chats"
      \/ k = 7 /\ t = "user_vacations"
      \/ k = 8 /\ t = "telegram_seen_accounts"
      \/ k = 10 /\ t = "registration_requests"
      \/ k = 11 /\ t = "lunch_pinned_messages"
      \/ k = 12 /\ t \in {"polls", "poll_selected_options"}
      \/ k = 13 /\ t \in {"coffee_preferences", "coffee_sessions", "coffee_session_participants"}
      \/ k = 14 /\ t = "user_invitation_preferences"
  BY DEF TablesOf, Tables
<1>1. CASE k = 1
  BY <1>0, <1>1, ScriptOf DEF Initial, Rebuilds
<1>2. CASE k \in {4, 5, 7, 8, 10, 11}
  <2>1. Scripts[k] = <<Ensure(t)>>
    BY <1>0, <1>2, ScriptOf
    DEF DebugSettings, AutoChats, Vacations, SeenAccounts, Requests, PinnedMessages
  <2> QED BY <1>2, <2>1 DEF Rebuilds
<1>3. CASE k = 12
  BY <1>0, <1>3, ScriptOf DEF PollRegistry, Rebuilds
<1>4. CASE k = 13
  BY <1>0, <1>4, ScriptOf DEF CoffeeTables, Rebuilds
<1>5. CASE k = 14
  BY <1>0, <1>5, ScriptOf, UnifyText DEF Rebuilds
<1> QED BY <1>0, <1>1, <1>2, <1>3, <1>4, <1>5

\* The statements of a rebuild, by position.
LEMMA RebuildPositions ==
  ASSUME at \in Rebuilds, done \in Nat, done < Len(Script)
  PROVE  LET p == <<at, done>>
             s == Script[done + 1]
         IN  \/ p \in {<<2, 0>>, <<3, 1>>, <<6, 0>>} /\ s = Discard(New(at))
             \/ p \in {<<2, 1>>, <<3, 2>>, <<6, 1>>, <<9, 0>>} /\ s = Create(New(at))
             \/ p \in Empty /\ s = Copy(New(at), Old(at))
             \/ p = <<9, 2>> /\ s = Copy("telegram_accounts_new", "telegram_seen_accounts")
             \/ p \in Filled \ {<<9, 2>>} /\ s = Drop(Old(at))
             \/ p \in Gaps /\ s = Rename(New(at), Old(at))
             \/ p = <<9, 5>> /\ s = Drop("telegram_seen_accounts")
             \/ p = <<3, 0>> /\ s = Keys(FALSE)
             \/ p = <<3, 6>> /\ s = Keys(TRUE)
<1>1. CASE at \in {2, 6}
  <2>1. Script = Rebuild(Old(at), New(at))
    BY <1>1, ScriptOf DEF Script, RebuildSplitwise, RelaxSplitwise, Old, New
  <2>2. Len(Script) = 5
    BY <2>1, RebuildText
  <2>3. /\ Script[1] = Discard(New(at)) /\ Script[2] = Create(New(at))
        /\ Script[3] = Copy(New(at), Old(at)) /\ Script[4] = Drop(Old(at))
        /\ Script[5] = Rename(New(at), Old(at))
    BY <2>1, RebuildText
  <2>4. done \in {0, 1, 2, 3, 4}
    BY <2>2
  <2>5. CASE done = 0
    <3>1. <<at, done>> = <<2, 0>> \/ <<at, done>> = <<6, 0>>
      BY <1>1, <2>5
    <3>2. Script[done + 1] = Discard(New(at))
      BY <2>3, <2>5
    <3> QED BY <3>1, <3>2
  <2>6. CASE done = 1
    BY <1>1, <2>3, <2>6 DEF Empty, Filled, Gaps
  <2>7. CASE done = 2
    BY <1>1, <2>3, <2>7 DEF Empty, Filled, Gaps
  <2>8. CASE done = 3
    BY <1>1, <2>3, <2>8 DEF Empty, Filled, Gaps
  <2>9. CASE done = 4
    BY <1>1, <2>3, <2>9 DEF Empty, Filled, Gaps
  <2> QED BY <2>4, <2>5, <2>6, <2>7, <2>8, <2>9
<1>2. CASE at = 3
  <2>1. Script = RebuildUsers
    BY <1>2, ScriptOf DEF Script
  <2>2. Len(Script) = 7
    BY <2>1, UsersText
  <2>3. /\ Script[1] = Keys(FALSE) /\ Script[2] = Discard(New(at)) /\ Script[3] = Create(New(at))
        /\ Script[4] = Copy(New(at), Old(at)) /\ Script[5] = Drop(Old(at))
        /\ Script[6] = Rename(New(at), Old(at)) /\ Script[7] = Keys(TRUE)
    BY <1>2, <2>1, UsersText DEF New, Old
  <2>4. done \in {0, 1, 2, 3, 4, 5, 6}
    BY <2>2
  <2>5. CASE done = 0
    <3>1. Script[done + 1] = Keys(FALSE) /\ <<at, done>> = <<3, 0>>
      <4>1. done + 1 = 1
        BY <2>5
      <4> QED BY <1>2, <2>3, <2>5, <4>1, Zenon
    <3> QED BY <3>1, Zenon
  <2>6. CASE done = 1
    BY <1>2, <2>3, <2>6 DEF Empty, Filled, Gaps
  <2>7. CASE done = 2
    BY <1>2, <2>3, <2>7 DEF Empty, Filled, Gaps
  <2>8. CASE done = 3
    BY <1>2, <2>3, <2>8 DEF Empty, Filled, Gaps
  <2>9. CASE done = 4
    BY <1>2, <2>3, <2>9 DEF Empty, Filled, Gaps
  <2>10. CASE done = 5
    BY <1>2, <2>3, <2>10 DEF Empty, Filled, Gaps
  <2>11. CASE done = 6
    <3>1. Script[done + 1] = Keys(TRUE) /\ <<at, done>> = <<3, 6>>
      <4>1. done + 1 = 7
        BY <2>11
      <4> QED BY <1>2, <2>3, <2>11, <4>1, Zenon
    <3> QED BY <3>1, Zenon
  <2> QED BY <2>4, <2>5, <2>6, <2>7, <2>8, <2>9, <2>10, <2>11
<1>3. CASE at = 9
  <2>1. Script = MergeSeen
    BY <1>3, ScriptOf DEF Script
  <2>2. Len(Script) = 6
    BY <2>1, MergeText
  <2>3. /\ Script[1] = Create(New(at)) /\ Script[2] = Copy(New(at), Old(at))
        /\ Script[3] = Copy("telegram_accounts_new", "telegram_seen_accounts")
        /\ Script[4] = Drop(Old(at))
        /\ Script[5] = Rename(New(at), Old(at)) /\ Script[6] = Drop("telegram_seen_accounts")
    BY <1>3, <2>1, MergeText DEF New, Old
  <2>4. done \in {0, 1, 2, 3, 4, 5}
    BY <2>2
  <2> QED BY <1>3, <2>3, <2>4 DEF Empty, Filled, Gaps
<1> QED BY <1>1, <1>2, <1>3 DEF Rebuilds

-----------------------------------------------------------------------------
(* One statement further.                                                  *)

\* What is known when a statement is executed.
LEMMA StatementFacts ==
  ASSUME IInv, SchemaInv, ~ torn, Statement
  PROVE  /\ at \in 1..14 /\ version \in Nat /\ at = version + 1 /\ Script = Scripts[at]
         /\ done \in Nat /\ done < Len(Script) /\ Len(Script) \in Nat
         /\ Script[done + 1] \in Statements /\ ~ Refused(Script[done + 1], db, keys)
         /\ db \in Databases /\ kept \in SUBSET (Kinds \X Ids) /\ keys \in BOOLEAN /\ Position
         /\ db' = Executed(Script[done + 1], db, keys) /\ keys' = KeysAfter(Script[done + 1], keys)
         /\ done' = done + 1 /\ at' = at /\ version' = version /\ kept' = kept
         /\ phase' = "script" /\ torn' = torn /\ Script' = Script
<1>1. known \in Nat /\ known <= Len(Scripts) /\ Len(Scripts) = 14
  BY ReleasesAssumption, ScriptsTyped DEF IInv, TypeOK
<1>2. phase = "script" /\ InMigration
  BY DEF Statement, InMigration
<1>3. at = version + 1 /\ at <= known /\ version \in Nat /\ done \in Nat
  BY <1>2 DEF IInv, TypeOK, InOrder
<1>4. at \in 1..14
  BY <1>1, <1>3
<1>5. Script \in Seq(Statements)
  BY <1>1, <1>4, ScriptsTyped, ElementOfSeq DEF Script
<1>6. Script[done + 1] \in Statements
  BY <1>1, <1>3, <1>4, NextStatement DEF Statement
<1>7. Position
  BY <1>2 DEF SchemaInv
<1>8. db \in Databases /\ kept \in SUBSET (Kinds \X Ids) /\ keys \in BOOLEAN
  BY DEF IInv, TypeOK, Databases
<1>9. Len(Script) \in Nat
  BY <1>5, LenProperties
<1> QED BY <1>2, <1>3, <1>4, <1>6, <1>7, <1>8, <1>9 DEF Statement, Script

\* A table that is made, unless it is there.
LEMMA Making ==
  ASSUME NEW d, NEW v \in Nat, NEW facts \in SUBSET (Kinds \X Ids), Sound(d, v, facts),
         NEW t \in Tables, ~ Exists(d, t)
  PROVE  /\ Sound([d EXCEPT ![t] = {}], v, facts) /\ [d EXCEPT ![t] = {}][t] = {}
         /\ \A u \in Tables : Exists(d, u) \/ u = t => Exists([d EXCEPT ![t] = {}], u)
<1>1. d \in Databases /\ {} \in SUBSET Rows /\ Dangling(d, t, {}) = {}
  BY DEF Sound, Fits, Dangling
<1>2. Sound([d EXCEPT ![t] = {}], v, facts)
  BY <1>1, Grown
<1>3. {} # Absent
  BY RowsExist
<1> QED BY <1>1, <1>2, <1>3 DEF Databases, Exists

\* The scripts that only add tables, and the first statement of 0014.
LEMMA PlainStep ==
  ASSUME IInv, SchemaInv, ~ torn, Statement, at \notin Rebuilds, at = 14 => done = 0
  PROVE  Position'
<1> USE StatementFacts
<1>1. PICK s : s = Script[done + 1]
  OBVIOUS
<1>2. s \in Statements /\ s.op \in {"keys_on", "ensure", "create"} /\ s.table \in Tables
  <2>1. done + 1 \in 1..Len(Scripts[at])
    OBVIOUS
  <2>2. PICK k, i : k = at /\ i = done + 1
    OBVIOUS
  <2>3. k \in 1..14 /\ k \notin Rebuilds /\ i \in 1..Len(Scripts[k]) /\ (k = 14 => i = 1)
    BY <2>1, <2>2
  <2>4. Scripts[k][i].op \in {"keys_on", "ensure", "create"}
    BY <2>3, PlainText
  <2> QED BY <1>1, <2>2, <2>4 DEF Statements
<1>3. Sound(db, version, kept) /\ keys = TRUE /\ Made
  <2>1. <<at, done>> \notin Gaps \cup Replaced
    BY DEF Rebuilds, Gaps, Replaced
  <2>2. at # 3
    BY DEF Rebuilds
  <2> QED BY <2>1, <2>2 DEF Position
<1>4. /\ Sound(db', version, kept) /\ \A u \in Tables : Exists(db, u) => Exists(db', u)
      /\ s.op \in {"ensure", "create"} => Exists(db', s.table)
      /\ s.op = "create" => db'[s.table] = {}
  <2>1. CASE s.op \in {"ensure", "create"} /\ ~ Exists(db, s.table)
    <3>1. db' = [db EXCEPT ![s.table] = {}]
      BY <1>1, <2>1 DEF Executed
    <3>2. PICK t : t = s.table
      OBVIOUS
    <3>3. t \in Tables /\ ~ Exists(db, t) /\ db' = [db EXCEPT ![t] = {}]
      BY <1>2, <2>1, <3>1, <3>2
    <3>4. version \in Nat /\ kept \in SUBSET (Kinds \X Ids)
      OBVIOUS
    <3>5. Sound(db', version, kept) /\ db'[t] = {}
          /\ \A u \in Tables : Exists(db, u) \/ u = t => Exists(db', u)
      BY <1>3, <3>3, <3>4, Making
    <3> QED BY <3>2, <3>3, <3>5
  <2>2. CASE ~ (s.op \in {"ensure", "create"} /\ ~ Exists(db, s.table))
    <3>1. s.op # "create"
      BY <1>1, <2>2 DEF Refused
    <3>2. db' = db
      BY <1>1, <1>2, <2>2, <3>1 DEF Executed
    <3> QED BY <1>2, <1>3, <2>2, <3>1, <3>2
  <2> QED BY <2>1, <2>2
<1>5. keys' = TRUE
  BY <1>1, <1>2, <1>3 DEF KeysAfter
<1>6. Made'
  <2>1. SUFFICES ASSUME NEW i \in 1..done + 1, Script[i].op \in {"ensure", "create"}
                 PROVE  Exists(db', Script[i].table)
    BY DEF Made
  <2>2. CASE i = done + 1
    BY <1>1, <1>4, <2>1, <2>2
  <2>3. CASE i # done + 1
    <3>1. i \in 1..done
      BY <2>3
    <3>2. Exists(db, Script[i].table)
      BY <1>3, <2>1, <3>1 DEF Made
    <3>3. Script[i] \in Statements
      <4>1. Script \in Seq(Statements)
        BY ScriptsTyped, ElementOfSeq
      <4>2. i \in 1..Len(Script)
        BY <3>1
      <4> QED BY <4>1, <4>2, ElementOfSeq
    <3>4. Script[i].table \in Tables
      BY <3>3 DEF Statements
    <3> QED BY <1>4, <3>2, <3>4
  <2> QED BY <2>2, <2>3
<1>7. Copying'
  BY DEF Copying, Rebuilds, Empty, Filled, Gaps
<1>8. Merging'
  <2>1. at = 14 => db'["user_invitation_preferences"] = {}
    <3>1. SUFFICES ASSUME at = 14 PROVE db'["user_invitation_preferences"] = {}
      OBVIOUS
    <3>2. s = Create("user_invitation_preferences")
      BY <1>1, <3>1, ScriptOf, UnifyText
    <3> QED BY <1>4, <3>2 DEF Create
  <2>2. at # 9 /\ <<at', done'>> \notin Replaced
    BY DEF Rebuilds, Replaced
  <2> QED BY <2>1, <2>2 DEF Merging
<1>9. <<at', done'>> \notin Gaps \cup Replaced
  BY DEF Rebuilds, Gaps, Replaced
<1>10. keys' <=> ~ (at' = 3 /\ done' \in 1..6)
  BY <1>5 DEF Rebuilds
<1> QED BY <1>4, <1>6, <1>7, <1>8, <1>9, <1>10 DEF Position

\* Dropping a table drops nothing else, unless rows with a live key refer to it.
LEMMA DroppedOnly ==
  ASSUME NEW d \in Databases, NEW t \in Tables, NEW on \in BOOLEAN,
         d["registration_requests"] \in {{}, Absent}, t = "users" => ~ on
  PROVE  Dropped(d, t, on) = [d EXCEPT ![t] = Absent]
<1>1. ASSUME NEW x \in Tables, x # t PROVE Dropped(d, t, on)[x] = d[x]
  <2>1. CASE on /\ x \in DOMAIN Parent /\ Parent[x] = t /\ Exists(d, x)
    <3>1. x = "registration_requests"
      BY <2>1 DEF Parent
    <3>2. d[x] = {}
      BY <2>1, <3>1 DEF Exists
    <3> QED BY <1>1, <2>1, <3>2 DEF Dropped, Databases
  <2>2. CASE ~ (on /\ x \in DOMAIN Parent /\ Parent[x] = t /\ Exists(d, x))
    BY <1>1, <2>2 DEF Dropped, Databases
  <2> QED BY <2>1, <2>2
<1>2. Dropped(d, t, on)[t] = Absent /\ DOMAIN Dropped(d, t, on) = Tables
  BY DEF Dropped, Databases
<1>3. PICK e : e = Dropped(d, t, on)
  OBVIOUS
<1>4. e = [x \in Tables |-> e[x]]
  BY <1>3 DEF Dropped, Databases
<1> QED BY <1>1, <1>2, <1>3, <1>4 DEF Databases

\* Copying into an empty table copies everything.
LEMMA CopiedAll ==
  ASSUME NEW d, NEW t \in Tables, NEW u \in Tables, d[t] = {}
  PROVE  Copied(d, t, u) = [d EXCEPT ![t] = d[u]]
BY DEF Copied, IdsOf

\* The preferences for coffee are copied and dropped (0014).
LEMMA UnifyStep ==
  ASSUME IInv, SchemaInv, ~ torn, Statement, at = 14, done # 0
  PROVE  Position'
<1> DEFINE cp == "coffee_preferences"
           uip == "user_invitation_preferences"
<1>0. /\ version = 13 /\ Script = Unify /\ done \in {1, 2} /\ keys = TRUE
      /\ <<at, done>> \notin Gaps \cup Replaced /\ at \notin Rebuilds
  <2>1. version = 13 /\ Script = Unify
    BY StatementFacts, ScriptOf
  <2>2. done \in {1, 2}
    BY <2>1, StatementFacts, UnifyText
  <2>3. Position
    BY StatementFacts
  <2> QED BY <2>1, <2>2, <2>3 DEF Gaps, Replaced, Position, Rebuilds
<1>1. Sound(db, version, kept) /\ Made /\ Merging
  BY <1>0, StatementFacts DEF Position
<1>2. /\ db \in Databases /\ kept \in SUBSET (Kinds \X Ids) /\ Script' = Script /\ at' = at
      /\ done' = done + 1 /\ version' = version /\ kept' = kept /\ phase' = "script"
  BY StatementFacts
<1>3. cp \in Tables /\ uip \in Tables /\ cp # uip /\ Exists(db, cp)
  <2>1. cp \in TablesOf(13)
    BY DEF TablesOf, Tables
  <2> QED BY <1>0, <1>1, <2>1 DEF Sound, Fits, Tables
<1>4. Exists(db, uip)
  <2>1. 1 \in 1..done /\ Script[1] = Create(uip)
    BY <1>0, UnifyText
  <2> QED BY <1>0, <1>1, <2>1 DEF Made, Create
<1>5. db[cp] \in SUBSET Rows /\ db[uip] \in SUBSET Rows
  BY <1>2, <1>3, <1>4 DEF Databases, Exists
<1>6. Copying'
  BY <1>0, <1>2 DEF Copying, Empty, Filled, Gaps
<1>7. ASSUME Exists(db', uip) PROVE Made'
  <2>1. \A i \in 1..3 : Script[i].op \in {"ensure", "create"} => Script[i].table = uip
    BY <1>0, UnifyText DEF Create, Copy, Drop
  <2> QED BY <1>0, <1>2, <1>7, <2>1 DEF Made
<1>8. CASE done = 1
  <2>1. Script[2] = Copy(uip, cp) /\ done + 1 = 2 /\ done' = 2
    BY <1>0, <1>2, <1>8, UnifyText
  <2>2. ~ Refused(Copy(uip, cp), db, keys) /\ db' = Executed(Copy(uip, cp), db, keys)
        /\ keys' = KeysAfter(Copy(uip, cp), keys)
    BY <2>1, StatementFacts
  <2>3. db[uip] = {}
    BY <1>1, <1>8 DEF Merging
  <2>4. db' = [db EXCEPT ![uip] = db[cp]]
    <3>1. Executed(Copy(uip, cp), db, keys) = Copied(db, uip, cp)
      BY DEF Executed, Copy
    <3> QED BY <1>3, <2>2, <2>3, <3>1, CopiedAll
  <2>5. Dangling(db, uip, db[cp]) = {} /\ keys' = TRUE
    BY <1>0, <2>2 DEF Refused, Copy, KeysAfter
  <2>6. Sound(db', version, kept) /\ Exists(db', uip)
    <3>1. db[uip] \subseteq db[cp] /\ version \in Nat
      BY <1>0, <2>3
    <3> QED BY <1>1, <1>2, <1>3, <1>5, <2>4, <2>5, <3>1, Grown
  <2>7. db'[cp] \subseteq db'[uip]
    BY <1>2, <1>3, <2>4 DEF Databases
  <2>8. Merging'
    BY <1>2, <2>1, <2>7 DEF Merging, Replaced
  <2> QED BY <1>2, <1>6, <1>7, <2>5, <2>6, <2>8 DEF Position
<1>9. CASE done = 2
  <2>1. Script[3] = Drop(cp) /\ done + 1 = 3 /\ done' = 3
    BY <1>0, <1>2, <1>9, UnifyText
  <2>2. db' = Executed(Drop(cp), db, keys) /\ keys' = KeysAfter(Drop(cp), keys)
    BY <2>1, StatementFacts
  <2>3. db' = [db EXCEPT ![cp] = Absent]
    <3>1. Executed(Drop(cp), db, keys) = Dropped(db, cp, keys)
      BY DEF Executed, Drop
    <3>2. db["registration_requests"] \in {{}, Absent}
      BY <1>1 DEF Sound, Fits
    <3> QED BY <1>0, <1>2, <1>3, <2>2, <3>1, <3>2, DroppedOnly
  <2>4. db[cp] \subseteq db[uip]
    BY <1>1, <1>9 DEF Merging
  <2>6. Sound(db, 14, kept)
    <3>1. \A t \in TablesOf(14) : t \in TablesOf(13) \/ t = uip
      BY DEF TablesOf
    <3>2. ASSUME NEW f \in kept PROVE Held(db, 14, f)
      <4>1. Held(db, 13, f) /\ f[1] \in Kinds
        BY <1>0, <1>1, <1>2 DEF Sound, Fits
      <4>2. CASE f[1] = "coffee"
        <5>1. Home(f[1], 13) = cp /\ Home(f[1], 14) = uip
          BY <4>2 DEF Home
        <5> QED BY <2>4, <4>1, <4>2, <5>1 DEF Held
      <4>3. CASE f[1] # "coffee"
        <5>1. Home(f[1], 13) = Home(f[1], 14)
          BY <4>1, <4>3 DEF Home, Kinds
        <5> QED BY <4>1, <5>1 DEF Held
      <4> QED BY <4>2, <4>3
    <3> QED BY <1>0, <1>1, <1>4, <3>1, <3>2 DEF Sound, Fits
  <2>7. Sound(db', 14, kept)
    <3>1. cp \notin TablesOf(14) /\ cp \notin {"users", "telegram_accounts"}
      BY DEF TablesOf
    <3>2. \A f \in kept : Home(f[1], 14) # cp
      BY <1>2 DEF Home, Kinds
    <3> QED BY <1>2, <1>3, <2>3, <2>6, <3>1, <3>2, Without
  <2>8. keys' = TRUE
    BY <1>0, <2>2 DEF KeysAfter, Drop
  <2>9. Merging'
    BY <1>2, <2>1, <2>7 DEF Merging, Replaced
  <2>10. Exists(db', uip)
    BY <1>2, <1>3, <1>4, <2>3 DEF Databases, Exists
  <2> QED BY <1>2, <1>6, <1>7, <2>1, <2>8, <2>9, <2>10 DEF Position, Replaced
<1> QED BY <1>0, <1>8, <1>9

-----------------------------------------------------------------------------
(* The rebuilds.                                                           *)

\* The copy of a table is no table of a version.
LEMMA OldAndNew ==
  ASSUME NEW k \in Rebuilds, NEW v \in Nat, v = k - 1
  PROVE  /\ Old(k) \in Tables /\ New(k) \in Tables /\ Old(k) # New(k) /\ Old(k) \in TablesOf(v)
         /\ New(k) \notin TablesOf(v) /\ New(k) \notin {"users", "telegram_accounts"}
         /\ \A kind \in Kinds : Home(kind, v) # New(k)
         /\ {Old(k), New(k)} \cap {"registration_requests", "telegram_seen_accounts"} = {}
         /\ Old(k) = "users" <=> k = 3
<1>1. CASE k = 3
  BY <1>1 DEF Old, New, Tables, TablesOf, Home, Kinds
<1>2. CASE k = 9
  BY <1>2 DEF Old, New, Tables, TablesOf, Home, Kinds
<1>3. CASE k \in {2, 6}
  BY <1>3 DEF Old, New, Tables, TablesOf, Home, Kinds
<1> QED BY <1>1, <1>2, <1>3 DEF Rebuilds

\* A copy may be thrown away.
LEMMA CopyDiscarded ==
  ASSUME NEW d, NEW k \in Rebuilds, NEW v \in Nat, v = k - 1,
         NEW facts \in SUBSET (Kinds \X Ids), Sound(d, v, facts)
  PROVE  Sound([d EXCEPT ![New(k)] = Absent], v, facts)
<1>1. PICK n : n = New(k)
  OBVIOUS
<1>2. n \in Tables /\ n \notin TablesOf(v) /\ n \notin {"users", "telegram_accounts"}
      /\ \A f \in facts : Home(f[1], v) # n
  BY <1>1, OldAndNew
<1>3. Sound([d EXCEPT ![n] = Absent], v, facts)
  BY <1>2, Without
<1> QED BY <1>1, <1>3

\* A copy that is empty, or has rows of the table, may have more rows that refer to nothing:
\* none of them is missing when it takes the table's name.
LEMMA CopyFilled ==
  ASSUME NEW d, NEW k \in Rebuilds, NEW v \in Nat, v = k - 1,
         NEW facts \in SUBSET (Kinds \X Ids), Sound(d, v, facts),
         NEW R \in SUBSET Rows, d[New(k)] \subseteq R, d[Old(k)] \subseteq R,
         \A r \in R : r \in d[Old(k)] \/ r.ref = NoRef
  PROVE  /\ Sound([d EXCEPT ![New(k)] = R], v, facts)
         /\ Sound(Swapped([d EXCEPT ![New(k)] = R], k), v, facts)
         /\ Exists([d EXCEPT ![New(k)] = R], New(k))
<1>1. PICK o, n : o = Old(k) /\ n = New(k)
  OBVIOUS
<1>2. /\ o \in Tables /\ n \in Tables /\ o # n /\ n \notin TablesOf(v)
      /\ n \notin {"users", "telegram_accounts"} /\ \A f \in facts : Home(f[1], v) # n
      /\ o # "registration_requests" /\ o # "telegram_seen_accounts"
      /\ n # "registration_requests" /\ n # "telegram_seen_accounts" /\ v >= 1
  <2>1. \A f \in facts : f[1] \in Kinds
    OBVIOUS
  <2>2. v >= 1
    BY DEF Rebuilds
  <2> QED BY <1>1, <2>1, <2>2, OldAndNew
<1>3. d \in Databases /\ ~ BrokenKeys(d) /\ Exists(d, o)
  BY <1>1, <1>2, OldAndNew DEF Sound, Fits
<1>4. Dangling(d, o, R) = {}
  <2>1. Dangling(d, o, d[o]) = {}
    BY <1>2, <1>3 DEF BrokenKeys
  <2> QED BY <1>1, <2>1 DEF Dangling
<1>5. Dangling(d, n, R) = {}
  <2>1. \/ o \in DOMAIN Parent /\ n \in DOMAIN Parent /\ Parent[o] = Parent[n]
        \/ n \notin DOMAIN Parent
    BY <1>1 DEF Old, New, Parent, Rebuilds
  <2> QED BY <1>4, <2>1 DEF Dangling
<1>6. Sound([d EXCEPT ![n] = R], v, facts) /\ Exists([d EXCEPT ![n] = R], n)
  BY <1>1, <1>2, <1>5, Grown
<1>7. Sound([d EXCEPT ![o] = R], v, facts)
  BY <1>1, <1>2, <1>4, Grown
<1>8. Sound([[d EXCEPT ![o] = R] EXCEPT ![n] = Absent], v, facts)
  BY <1>2, <1>7, Without
<1>9. Swapped([d EXCEPT ![n] = R], k) = [[d EXCEPT ![o] = R] EXCEPT ![n] = Absent]
  BY <1>1, <1>2, <1>3 DEF Swapped, Databases
<1> QED BY <1>1, <1>6, <1>8, <1>9

\* The rebuilds step by step (0002, 0003, 0006, 0009).
LEMMA RebuildStep ==
  ASSUME IInv, SchemaInv, ~ torn, Statement, at \in Rebuilds
  PROVE  Position'
<1>0. PICK o, n, s : o = Old(at) /\ n = New(at) /\ s = Script[done + 1]
  OBVIOUS
<1>1. /\ at \in Rebuilds /\ version \in Nat /\ version = at - 1 /\ version >= 1 /\ done \in Nat
      /\ db \in Databases /\ kept \in SUBSET (Kinds \X Ids) /\ keys \in BOOLEAN
      /\ at' = at /\ done' = done + 1 /\ version' = version /\ kept' = kept /\ phase' = "script"
      /\ db' = Executed(s, db, keys) /\ keys' = KeysAfter(s, keys) /\ ~ Refused(s, db, keys)
  BY <1>0, StatementFacts DEF Rebuilds
<1>a. at \in Rebuilds /\ version \in Nat /\ version = at - 1 /\ kept \in SUBSET (Kinds \X Ids)
  BY <1>1
<1>2. /\ o \in Tables /\ n \in Tables /\ o # n /\ n \notin {"users", "telegram_accounts"}
      /\ o # "registration_requests" /\ o # "telegram_seen_accounts"
      /\ n # "registration_requests" /\ n # "telegram_seen_accounts" /\ (o = "users" <=> at = 3)
  BY <1>0, <1>1, OldAndNew
<1>3. /\ keys <=> ~ (at = 3 /\ done \in 1..6)
      /\ <<at, done>> \notin Gaps \cup Replaced => Sound(db, version, kept)
      /\ Copying /\ Merging
  BY StatementFacts DEF Position
<1>4. Made'
  BY <1>1 DEF Made
<1>5. \/ <<at, done>> \in {<<2, 0>>, <<3, 1>>, <<6, 0>>} /\ s = Discard(n)
      \/ <<at, done>> \in {<<2, 1>>, <<3, 2>>, <<6, 1>>, <<9, 0>>} /\ s = Create(n)
      \/ <<at, done>> \in Empty /\ s = Copy(n, o)
      \/ <<at, done>> = <<9, 2>> /\ s = Copy("telegram_accounts_new", "telegram_seen_accounts")
      \/ <<at, done>> \in Filled \ {<<9, 2>>} /\ s = Drop(o)
      \/ <<at, done>> \in Gaps /\ s = Rename(n, o)
      \/ <<at, done>> = <<9, 5>> /\ s = Drop("telegram_seen_accounts")
      \/ <<at, done>> = <<3, 0>> /\ s = Keys(FALSE)
      \/ <<at, done>> = <<3, 6>> /\ s = Keys(TRUE)
  BY <1>0, StatementFacts, RebuildPositions
<1>6. CASE <<at, done>> \in {<<2, 0>>, <<3, 1>>, <<6, 0>>} /\ s = Discard(n)
  <2>1. <<at', done'>> \in {<<2, 1>>, <<3, 2>>, <<6, 1>>}
    BY <1>1, <1>6
  <2>2. Sound(db, version, kept)
    BY <1>3, <1>6 DEF Gaps, Replaced
  <2>3. db' = [db EXCEPT ![n] = Absent]
    <3>1. db' = Dropped(db, n, keys)
      BY <1>1, <1>6 DEF Executed, Discard
    <3>2. db["registration_requests"] \in {{}, Absent}
      BY <2>2 DEF Sound, Fits
    <3> QED BY <1>1, <1>2, <3>1, <3>2, DroppedOnly
  <2>4. Sound(db', version, kept)
    <3>1. Sound([db EXCEPT ![New(at)] = Absent], version, kept)
      BY <1>a, <2>2, CopyDiscarded
    <3> QED BY <1>0, <2>3, <3>1
  <2>5. keys' <=> ~ (at' = 3 /\ done' \in 1..6)
    BY <1>1, <1>3, <1>6 DEF KeysAfter, Discard
  <2>6. Copying' /\ Merging'
    BY <2>1 DEF Copying, Merging, Empty, Filled, Gaps, Replaced
  <2> QED BY <1>1, <1>4, <2>4, <2>5, <2>6 DEF Position
<1>7. CASE <<at, done>> \in {<<2, 1>>, <<3, 2>>, <<6, 1>>, <<9, 0>>} /\ s = Create(n)
  <2>1. <<at', done'>> \in Empty
    BY <1>1, <1>7 DEF Empty
  <2>2. Sound(db, version, kept)
    BY <1>3, <1>7 DEF Gaps, Replaced
  <2>3. db' = [db EXCEPT ![n] = {}] /\ ~ Exists(db, n)
    BY <1>1, <1>7 DEF Executed, Refused, Create
  <2>4. Sound(db', version, kept) /\ db'[n] = {}
    <3>1. n \in Tables
      BY <1>2
    <3> QED BY <1>a, <2>2, <2>3, <3>1, Making
  <2>5. keys' <=> ~ (at' = 3 /\ done' \in 1..6)
    BY <1>1, <1>3, <1>7 DEF KeysAfter, Create
  <2>6. Copying'
    <3>1. <<at', done'>> \notin Filled \cup Gaps
      BY <2>1 DEF Empty, Filled, Gaps
    <3>2. db'[New(at)] = {}
      BY <1>0, <2>4
    <3> QED BY <1>1, <3>1, <3>2 DEF Copying
  <2>7. Merging'
    BY <2>1 DEF Merging, Empty, Replaced
  <2> QED BY <1>1, <1>4, <2>4, <2>5, <2>6, <2>7 DEF Position
<1>8. CASE <<at, done>> \in Empty /\ s = Copy(n, o)
  <2>1. <<at', done'>> \in Filled /\ <<at', done'>> \notin Empty \cup Gaps \cup Replaced
        /\ (at' = 9 => done' = 2)
    BY <1>1, <1>8 DEF Empty, Filled, Gaps, Replaced
  <2>2. Sound(db, version, kept) /\ db[n] = {}
    BY <1>0, <1>3, <1>8 DEF Empty, Gaps, Replaced, Copying
  <2>3. Exists(db, o) /\ db[o] \in SUBSET Rows
    BY <1>1, <1>2, <1>8 DEF Refused, Copy, Databases, Exists
  <2>4. db' = [db EXCEPT ![n] = db[o]]
    <3>1. db' = Copied(db, n, o)
      BY <1>1, <1>8 DEF Executed, Copy
    <3> QED BY <1>2, <2>2, <3>1, CopiedAll
  <2>5. Sound(db', version, kept) /\ Sound(Swapped(db', at), version, kept) /\ Exists(db', n)
    <3>1. db[New(at)] \subseteq db[o] /\ db[Old(at)] \subseteq db[o]
          /\ \A r \in db[o] : r \in db[Old(at)] \/ r.ref = NoRef
      BY <1>0, <2>2
    <3>2. db[o] \in SUBSET Rows
      BY <2>3
    <3>3. /\ Sound([db EXCEPT ![New(at)] = db[o]], version, kept)
          /\ Sound(Swapped([db EXCEPT ![New(at)] = db[o]], at), version, kept)
          /\ Exists([db EXCEPT ![New(at)] = db[o]], New(at))
      BY <1>a, <2>2, <3>1, <3>2, CopyFilled
    <3> QED BY <1>0, <2>4, <3>3
  <2>6. keys' <=> ~ (at' = 3 /\ done' \in 1..6)
    BY <1>1, <1>3, <1>8 DEF KeysAfter, Copy, Empty
  <2>7. Copying'
    BY <1>0, <1>1, <2>1, <2>5 DEF Copying
  <2>8. Merging'
    <3>1. at = 9 => db'["telegram_accounts_new"] = db'["telegram_accounts"]
      <4>1. at = 9 => n = "telegram_accounts_new" /\ o = "telegram_accounts"
        BY <1>0 DEF Old, New
      <4> QED BY <1>1, <1>2, <2>4, <4>1 DEF Databases
    <3>2. at' # 14
      BY <1>1 DEF Rebuilds
    <3> QED BY <1>1, <2>1, <3>1, <3>2 DEF Merging
  <2> QED BY <1>1, <1>4, <2>5, <2>6, <2>7, <2>8 DEF Position
<1>9. CASE <<at, done>> = <<9, 2>> /\ s = Copy("telegram_accounts_new", "telegram_seen_accounts")
  <2> DEFINE tsa == "telegram_seen_accounts"
             R == db[n] \cup {r \in db[tsa] : r.id \notin IdsOf(db[n])}
  <2>1. at = 9 /\ done = 2 /\ n = "telegram_accounts_new" /\ o = "telegram_accounts"
    BY <1>0, <1>9 DEF Old, New
  <2>2. Sound(db, version, kept) /\ db[n] = db[o]
    BY <1>3, <2>1 DEF Gaps, Replaced, Merging
  <2>3. Exists(db, n) /\ Exists(db, tsa) /\ tsa \in Tables
    BY <1>1, <1>9, <2>1 DEF Refused, Copy, Tables
  <2>4. db[n] \in SUBSET Rows /\ db[tsa] \in SUBSET Rows
    BY <1>1, <1>2, <2>3 DEF Databases, Exists
  <2>5. R \in SUBSET Rows /\ \A r \in R : r \in db[o] \/ r.ref = NoRef
    BY <2>2, <2>4 DEF Sound, Fits
  <2>6. db' = [db EXCEPT ![n] = R]
    BY <1>1, <1>9, <2>1 DEF Executed, Copy, Copied
  <2>7. Sound(db', version, kept) /\ Sound(Swapped(db', at), version, kept) /\ Exists(db', n)
    <3>1. db[New(at)] \subseteq R /\ db[Old(at)] \subseteq R
          /\ \A r \in R : r \in db[Old(at)] \/ r.ref = NoRef
      BY <1>0, <2>2, <2>5
    <3> HIDE DEF R
    <3>2. R \in SUBSET Rows
      BY <2>5
    <3>3. /\ Sound([db EXCEPT ![New(at)] = R], version, kept)
          /\ Sound(Swapped([db EXCEPT ![New(at)] = R], at), version, kept)
          /\ Exists([db EXCEPT ![New(at)] = R], New(at))
      BY <1>a, <2>2, <3>1, <3>2, CopyFilled
    <3> QED BY <1>0, <2>6, <3>3
  <2>8. IdsOf(db'[tsa]) \subseteq IdsOf(db'[n])
    <3>1. db'[tsa] = db[tsa] /\ db'[n] = R
      BY <1>1, <1>2, <2>3, <2>6 DEF Databases
    <3> QED BY <3>1 DEF IdsOf
  <2>9. at' = 9 /\ done' = 3
    BY <1>1, <2>1
  <2>10. keys' <=> ~ (at' = 3 /\ done' \in 1..6)
    <3>1. keys
      BY <1>3, <2>1
    <3>2. s.op = "copy"
      BY <1>9 DEF Copy
    <3>3. keys' <=> keys
      BY <1>1, <3>2 DEF KeysAfter
    <3> QED BY <2>9, <3>1, <3>3
  <2>11. Copying'
    BY <1>0, <1>1, <2>7, <2>9 DEF Copying, Empty, Gaps
  <2>12. Merging'
    BY <2>1, <2>8, <2>9 DEF Merging, Replaced
  <2> QED BY <1>1, <1>4, <2>7, <2>10, <2>11, <2>12 DEF Position
<1>10. CASE <<at, done>> \in Filled \ {<<9, 2>>} /\ s = Drop(o)
  <2>1. /\ <<at', done'>> \in Gaps /\ <<at', done'>> \notin Empty \cup Replaced
        /\ (at = 9 => done = 3 /\ done' = 4) /\ (at = 3 => done = 4 /\ done' = 5)
    BY <1>1, <1>10 DEF Empty, Filled, Gaps, Replaced
  <2>2. /\ Sound(db, version, kept)
        /\ Sound(Swapped(db, at), version, kept) /\ Exists(db, n)
    BY <1>0, <1>3, <1>10 DEF Filled, Gaps, Replaced, Copying
  <2>3. db' = [db EXCEPT ![o] = Absent]
    <3>1. db' = Dropped(db, o, keys)
      BY <1>1, <1>10 DEF Executed, Drop
    <3>2. db["registration_requests"] \in {{}, Absent}
      BY <2>2 DEF Sound, Fits
    <3>3. o = "users" => ~ keys
      BY <1>2, <1>3, <2>1
    <3> QED BY <1>1, <1>2, <3>1, <3>2, <3>3, DroppedOnly
  <2>4. db'[o] = Absent /\ \A u \in Tables : u # o => db'[u] = db[u]
    BY <1>1, <1>2, <2>3 DEF Databases
  <2>5. Swapped(db', at) = Swapped(db, at)
    BY <1>0, <1>1, <1>2, <2>3 DEF Swapped, Databases
  <2>6. Exists(db', n)
    BY <1>2, <2>2, <2>4 DEF Exists
  <2>7. Copying'
    BY <1>0, <1>1, <2>1, <2>2, <2>4, <2>5, <2>6 DEF Copying
  <2>8. Merging'
    <3>1. at = 9 => IdsOf(db'["telegram_seen_accounts"]) \subseteq IdsOf(db'["telegram_accounts_new"])
      <4>1. SUFFICES ASSUME at = 9
                     PROVE  IdsOf(db'["telegram_seen_accounts"]) \subseteq IdsOf(db'["telegram_accounts_new"])
        OBVIOUS
      <4>2. n = "telegram_accounts_new"
        BY <1>0, <4>1 DEF New
      <4>3. "telegram_seen_accounts" \in Tables
        BY DEF Tables
      <4>4. IdsOf(db["telegram_seen_accounts"]) \subseteq IdsOf(db[n])
        BY <1>3, <2>1, <4>1, <4>2 DEF Merging
      <4> QED BY <1>2, <2>4, <4>2, <4>3, <4>4
    <3>2. at' # 14
      BY <1>1 DEF Rebuilds
    <3> QED BY <1>1, <2>1, <3>1, <3>2 DEF Merging
  <2>9. keys' <=> ~ (at' = 3 /\ done' \in 1..6)
    <3>1. keys' <=> keys
      <4>1. s.op = "drop"
        BY <1>10 DEF Drop
      <4> QED BY <1>1, <4>1 DEF KeysAfter
    <3> QED BY <1>1, <1>3, <2>1, <3>1
  <2> QED BY <1>1, <1>4, <2>1, <2>7, <2>8, <2>9 DEF Position
<1>11. CASE <<at, done>> \in Gaps /\ s = Rename(n, o)
  <2>1. /\ <<at', done'>> \notin Empty \cup Filled \cup Gaps \cup Replaced
        /\ (at = 9 => done = 4 /\ done' = 5) /\ (at = 3 => done = 5 /\ done' = 6)
    BY <1>1, <1>11 DEF Empty, Filled, Gaps, Replaced
  <2>2. Sound(Swapped(db, at), version, kept)
    BY <1>3, <1>11 DEF Copying
  <2>3. db' = [db EXCEPT ![o] = db[n], ![n] = Absent]
    BY <1>1, <1>11 DEF Executed, Rename
  <2>4. Sound(db', version, kept)
    BY <1>0, <2>2, <2>3 DEF Swapped
  <2>5. Copying'
    BY <2>1 DEF Copying
  <2>6. Merging'
    <3>1. at = 9 => IdsOf(db'["telegram_seen_accounts"]) \subseteq IdsOf(db'["telegram_accounts"])
      <4>1. SUFFICES ASSUME at = 9
                     PROVE  IdsOf(db'["telegram_seen_accounts"]) \subseteq IdsOf(db'["telegram_accounts"])
        OBVIOUS
      <4>2. n = "telegram_accounts_new" /\ o = "telegram_accounts"
        BY <1>0, <4>1 DEF New, Old
      <4>3. IdsOf(db["telegram_seen_accounts"]) \subseteq IdsOf(db[n])
        BY <1>3, <2>1, <4>1, <4>2 DEF Merging
      <4>4. db'[o] = db[n] /\ db'["telegram_seen_accounts"] = db["telegram_seen_accounts"]
        <5>1. "telegram_seen_accounts" \in Tables
          BY DEF Tables
        <5> QED BY <1>1, <1>2, <2>3, <5>1 DEF Databases
      <4> QED BY <4>2, <4>3, <4>4
    <3>2. at' # 14
      BY <1>1 DEF Rebuilds
    <3> QED BY <1>1, <2>1, <3>1, <3>2 DEF Merging
  <2>7. keys' <=> ~ (at' = 3 /\ done' \in 1..6)
    <3>1. keys' <=> keys
      <4>1. s.op = "rename"
        BY <1>11 DEF Rename
      <4> QED BY <1>1, <4>1 DEF KeysAfter
    <3> QED BY <1>1, <1>3, <2>1, <3>1
  <2> QED BY <1>1, <1>4, <2>4, <2>5, <2>6, <2>7 DEF Position
<1>12. CASE <<at, done>> = <<9, 5>> /\ s = Drop("telegram_seen_accounts")
  <2> DEFINE tsa == "telegram_seen_accounts"
             ta == "telegram_accounts"
  <2>1. at = 9 /\ done = 5 /\ at' = 9 /\ done' = 6 /\ version = 8
    BY <1>1, <1>12
  <2>2. Sound(db, 8, kept) /\ IdsOf(db[tsa]) \subseteq IdsOf(db[ta])
    BY <1>3, <2>1 DEF Gaps, Replaced, Merging
  <2>3. Sound(db, 9, kept)
    <3>1. \A t \in TablesOf(9) : t \in TablesOf(8)
      BY DEF TablesOf
    <3>2. ASSUME NEW f \in kept PROVE Held(db, 9, f)
      <4>1. Held(db, 8, f) /\ f[1] \in Kinds
        BY <1>1, <2>2 DEF Sound, Fits
      <4>2. CASE f[1] = "seen"
        <5>1. Home(f[1], 8) = tsa /\ Home(f[1], 9) = ta
          BY <4>2 DEF Home
        <5> QED BY <2>2, <4>1, <4>2, <5>1 DEF Held
      <4>3. CASE f[1] # "seen"
        <5>1. Home(f[1], 8) = Home(f[1], 9)
          BY <4>1, <4>3 DEF Home, Kinds
        <5> QED BY <4>1, <5>1 DEF Held
      <4> QED BY <4>2, <4>3
    <3> QED BY <2>2, <3>1, <3>2 DEF Sound, Fits
  <2>4. db' = [db EXCEPT ![tsa] = Absent]
    <3>1. db' = Dropped(db, tsa, keys)
      BY <1>1, <1>12 DEF Executed, Drop
    <3>2. db["registration_requests"] \in {{}, Absent} /\ tsa \in Tables
      BY <2>2 DEF Sound, Fits, Tables
    <3> QED BY <1>1, <3>1, <3>2, DroppedOnly
  <2>5. Sound(db', 9, kept)
    <3>1. tsa \in Tables /\ tsa \notin TablesOf(9) /\ tsa \notin {"users", "telegram_accounts"}
      BY DEF TablesOf, Tables
    <3>2. \A f \in kept : Home(f[1], 9) # tsa
      BY <1>1 DEF Home, Kinds
    <3> QED BY <1>a, <2>3, <2>4, <3>1, <3>2, Without
  <2>6. Copying'
    BY <2>1 DEF Copying, Empty, Filled, Gaps
  <2>7. Merging'
    BY <1>1, <2>1, <2>5 DEF Merging
  <2>8. keys' <=> ~ (at' = 3 /\ done' \in 1..6)
    <3>1. keys
      BY <1>3, <2>1
    <3>2. s.op = "drop"
      BY <1>12 DEF Drop
    <3>3. keys' <=> keys
      BY <1>1, <3>2 DEF KeysAfter
    <3> QED BY <2>1, <3>1, <3>3
  <2> QED BY <1>1, <1>4, <2>1, <2>6, <2>7, <2>8 DEF Position, Replaced
<1>13. CASE \/ <<at, done>> = <<3, 0>> /\ s = Keys(FALSE)
            \/ <<at, done>> = <<3, 6>> /\ s = Keys(TRUE)
  <2>1. CASE <<at, done>> = <<3, 0>> /\ s = Keys(FALSE)
    <3>1. at' = 3 /\ done' = 1 /\ at = 3 /\ done = 0
      BY <1>1, <2>1
    <3>2. s.op = "keys_off"
      BY <2>1 DEF Keys
    <3>3. ~ keys'
      BY <1>1, <3>2 DEF KeysAfter
    <3>4. Sound(db, version, kept) /\ db' = db
      BY <1>1, <1>3, <3>1, <3>2 DEF Gaps, Replaced, Executed
    <3>5. Copying' /\ Merging'
      BY <3>1 DEF Copying, Merging, Empty, Filled, Gaps, Replaced
    <3> QED BY <1>1, <1>4, <3>1, <3>3, <3>4, <3>5 DEF Position
  <2>2. CASE <<at, done>> = <<3, 6>> /\ s = Keys(TRUE)
    <3>1. at' = 3 /\ done' = 7 /\ at = 3 /\ done = 6
      BY <1>1, <2>2
    <3>2. s.op = "keys_on"
      BY <2>2 DEF Keys
    <3>3. keys'
      BY <1>1, <3>2 DEF KeysAfter
    <3>4. Sound(db, version, kept) /\ db' = db
      BY <1>1, <1>3, <3>1, <3>2 DEF Gaps, Replaced, Executed
    <3>5. Copying' /\ Merging'
      BY <3>1 DEF Copying, Merging, Empty, Filled, Gaps, Replaced
    <3> QED BY <1>1, <1>4, <3>1, <3>3, <3>4, <3>5 DEF Position
  <2> QED BY <1>13, <2>1, <2>2
<1> QED BY <1>5, <1>6, <1>7, <1>8, <1>9, <1>10, <1>11, <1>12, <1>13

-----------------------------------------------------------------------------
(* Whole scripts.                                                          *)

\* At its end a script has brought the tables to its version.
LEMMA ScriptDone ==
  ASSUME Position, at \in 1..14, at = version + 1, version \in Nat, done = Len(Script),
         kept \in SUBSET (Kinds \X Ids)
  PROVE  /\ Fits(db, at, kept) /\ keys
         /\ <<at, done>> \in Replaced => ~ BrokenKeys(db)
         /\ <<at, done>> \notin Replaced => Sound(db, version, kept)
<1>1. Script = Scripts[at]
  BY DEF Script
<1>2. <<at, done>> \notin Gaps /\ (at = 3 => done = 7) /\ (at = 9 => done = 6) /\ (at = 14 => done = 3)
  <2>1. CASE at \in {2, 6}
    BY <1>1, <2>1, ScriptOf, RebuildText DEF Gaps, RebuildSplitwise, RelaxSplitwise
  <2>2. CASE at = 3
    <3>1. done = 7
      BY <1>1, <2>2, ScriptOf, UsersText
    <3> QED BY <2>2, <3>1 DEF Gaps
  <2>3. CASE at = 9
    <3>1. done = 6
      BY <1>1, <2>3, ScriptOf, MergeText
    <3> QED BY <2>3, <3>1 DEF Gaps
  <2>4. CASE at = 14
    BY <1>1, <2>4, ScriptOf, UnifyText DEF Gaps
  <2>5. CASE at \notin {2, 3, 6, 9, 14}
    BY <2>5 DEF Gaps
  <2> QED BY <2>1, <2>2, <2>3, <2>4, <2>5
<1>3. keys
  <2>1. keys <=> ~ (at = 3 /\ done \in 1..6)
    BY DEF Position
  <2> QED BY <1>2, <2>1
<1>4. CASE <<at, done>> \in Replaced
  <2>1. Sound(db, at, kept)
    BY <1>4 DEF Position, Merging
  <2> QED BY <1>3, <1>4, <2>1 DEF Sound
<1>5. CASE <<at, done>> \notin Replaced
  <2>1. Sound(db, version, kept) /\ at \notin {9, 14}
    BY <1>2, <1>5 DEF Position, Replaced
  <2>2. ASSUME NEW t \in TablesOf(at) PROVE Exists(db, t)
    <3>1. CASE t \in TablesOf(version)
      BY <2>1, <3>1 DEF Sound, Fits
    <3>2. CASE t \notin TablesOf(version)
      <4>1. version = at - 1
        OBVIOUS
      <4>2. PICK k \in 1..14 : k = at
        OBVIOUS
      <4>3. t \in TablesOf(k) /\ t \notin TablesOf(k - 1)
        BY <3>2, <4>1, <4>2
      <4>4. k \notin Rebuilds /\ \E i \in 1..Len(Scripts[k]) :
              Scripts[k][i].op \in {"ensure", "create"} /\ Scripts[k][i].table = t
        BY <4>3, PlainMakes
      <4>5. at \notin Rebuilds /\ \E i \in 1..Len(Script) :
              Script[i].op \in {"ensure", "create"} /\ Script[i].table = t
        BY <1>1, <4>2, <4>4
      <4> QED BY <4>5 DEF Position, Made
    <3> QED BY <3>1, <3>2
  <2>3. ASSUME NEW f \in kept PROVE Held(db, at, f)
    <3>1. Held(db, version, f) /\ f[1] \in Kinds
      BY <2>1 DEF Sound, Fits
    <3>2. Home(f[1], version) = Home(f[1], at)
      BY <2>1, <3>1 DEF Home, Kinds
    <3> QED BY <3>1, <3>2 DEF Held
  <2> QED BY <1>3, <1>5, <2>1, <2>2, <2>3 DEF Sound, Fits
<1> QED BY <1>4, <1>5

\* A script that has not begun is at a sound database.
LEMMA ScriptBegins ==
  ASSUME NEW v \in Nat, NextMigration(v), Sound(db', v, kept'), version' = v, keys' = TRUE
  PROVE  IF InMigration' THEN Position' ELSE Sound(db, version, kept)'
<1>1. CASE v < known
  <2>1. phase' = "script" /\ at' = v + 1 /\ done' = 0
    BY <1>1 DEF NextMigration
  <2>2. Made' /\ Copying' /\ Merging' /\ <<at', done'>> \notin Replaced
    BY <2>1 DEF Made, Copying, Merging, Empty, Filled, Gaps, Replaced
  <2> QED BY <2>1, <2>2 DEF Position, InMigration
<1>2. CASE ~ (v < known)
  BY <1>2 DEF NextMigration, InMigration
<1> QED BY <1>1, <1>2

\* Where the tables are not those of the recorded version, a stop tears the migration.
LEMMA TornThere ==
  ASSUME <<at, done>> \in Gaps \cup Replaced
  PROVE  at \in 1..14 /\ BlocksRerun(Script, done)
<1>1. CASE at \in {2, 3, 6}
  <2>1. done \in Nat /\ done \in 1..done
    BY <1>1 DEF Gaps, Replaced
  <2>2. Script[done].op = "drop"
    <3>1. CASE at \in {2, 6}
      <4>1. done = 4
        BY <3>1 DEF Gaps, Replaced
      <4>2. \E t, n : Script = Rebuild(t, n)
        BY <3>1, ScriptOf DEF Script, RebuildSplitwise, RelaxSplitwise
      <4>3. PICK t, n : Script = Rebuild(t, n)
        BY <4>2
      <4>4. Script[4] = Drop(t)
        BY <4>3, RebuildText
      <4> QED BY <4>1, <4>4 DEF Drop
    <3>2. CASE at = 3
      <4>1. done = 5
        BY <3>2 DEF Gaps, Replaced
      <4>2. Script = RebuildUsers
        BY <3>2, ScriptOf DEF Script
      <4> QED BY <4>1, <4>2, UsersText DEF Drop
    <3> QED BY <1>1, <3>1, <3>2
  <2>3. \A j \in (done + 1)..done : FALSE
    BY <2>1
  <2> QED BY <1>1, <2>1, <2>2, <2>3 DEF BlocksRerun
<1>2. CASE at \in {9, 14}
  <2>1. 1 \in 1..done /\ \A j \in 1..(1 - 1) : FALSE
    BY <1>2 DEF Gaps, Replaced
  <2>2. Script[1].op = "create"
    BY <1>2, ScriptOf, MergeText, UnifyText DEF Script, Create
  <2> QED BY <1>2, <2>1, <2>2 DEF BlocksRerun
<1> QED BY <1>1, <1>2 DEF Gaps, Replaced

-----------------------------------------------------------------------------
(* Every step.                                                             *)

\* Nothing, or tables of the time before versions.
LEMMA InitSchema == Init => SchemaInv
<1> SUFFICES ASSUME Init PROVE Sound(db, version, kept)
  BY DEF Init, SchemaInv, InMigration
<1>1. db \in Databases /\ version = 0
  BY InitInv DEF IInv, TypeOK, Databases, Init
<1>2. \A t \in TablesOf(0) : FALSE
  BY DEF TablesOf
<1>3. ASSUME NEW f \in kept PROVE Held(db, 0, f)
  <2>1. PICK us \in SUBSET Ids, as \in SUBSET Ids :
          /\ db["users"] = {Unlinked(r) : r \in us}
          /\ db["telegram_accounts"] = {Linked(r) : r \in as}
          /\ kept = ({"user"} \X us) \cup ({"account"} \X as)
    BY <1>3 DEF Init, Tables
  <2>2. CASE f[1] = "user"
    BY <1>3, <2>1, <2>2 DEF Held, Home, RowOf
  <2>3. CASE f[1] = "account"
    BY <1>3, <2>1, <2>3 DEF Held, Home, RowOf
  <2> QED BY <1>3, <2>1, <2>2, <2>3
<1>4. db["telegram_seen_accounts"] = Absent /\ db["registration_requests"] = Absent
  BY DEF Init, Tables
<1>5. \A r \in db["telegram_seen_accounts"] : r.ref = NoRef
  BY <1>4 DEF Absent
<1> QED BY <1>1, <1>2, <1>3, <1>4, <1>5 DEF Sound, Fits

\* Every step keeps the tables whole.
LEMMA SchemaStep == IInv /\ SchemaInv /\ [Next]_vars => SchemaInv'
<1> SUFFICES ASSUME IInv, SchemaInv, [Next]_vars, ~ torn'
             PROVE  IF InMigration' THEN Position' ELSE Sound(db, version, kept)'
  BY DEF SchemaInv
<1>1. ~ torn
  BY DEF Next, Begin, Migrate, Start, RefuseNewer, Statement, StatementFails, ScriptEnds,
     CheckKeys, RecordVersion, Store, Poll, Stop, Restart, Deploy, vars
<1>2. /\ version \in Nat /\ known \in Nat /\ kept \in SUBSET (Kinds \X Ids) /\ done \in Nat
      /\ known <= 14
  BY ReleasesAssumption, ScriptsTyped DEF IInv, TypeOK
<1>3. InMigration => Position /\ at = version + 1 /\ at \in 1..14
  BY <1>1, <1>2 DEF SchemaInv, IInv, InOrder
<1>4. ~ InMigration => Sound(db, version, kept)
  BY <1>1 DEF SchemaInv
<1>5. CASE Start
  <2>1. Sound(db, version, kept)
    BY <1>4, <1>5 DEF Start, InMigration
  <2> QED BY <1>2, <1>5, <2>1, ScriptBegins DEF Start
<1>6. CASE RefuseNewer \/ Restart \/ \E k \in Releases : Deploy(k)
  BY <1>4, <1>6 DEF RefuseNewer, Restart, Deploy, InMigration
<1>7. CASE Statement
  <2>1. CASE at \in Rebuilds
    BY <1>1, <1>7, <2>1, RebuildStep, StatementFacts DEF InMigration
  <2>2. CASE at = 14 /\ done # 0
    BY <1>1, <1>7, <2>2, UnifyStep, StatementFacts DEF InMigration
  <2>3. CASE at \notin Rebuilds /\ (at = 14 => done = 0)
    BY <1>1, <1>7, <2>3, PlainStep, StatementFacts DEF InMigration
  <2> QED BY <2>1, <2>2, <2>3
<1>8. CASE StatementFails
  <2>1. Position /\ at = version + 1 /\ at \in 1..14
    BY <1>3, <1>8 DEF StatementFails, InMigration
  <2>2. <<at, done>> \notin Gaps
    <3>1. SUFFICES ASSUME <<at, done>> \in Gaps PROVE FALSE
      OBVIOUS
    <3>2. at \in Rebuilds /\ <<at, done>> \notin Empty \cup Filled
      BY <3>1 DEF Gaps, Rebuilds, Empty, Filled
    <3>3. Script[done + 1] = Rename(New(at), Old(at))
      <4>1. /\ <<at, done>> \notin {<<2, 0>>, <<3, 1>>, <<6, 0>>}
            /\ <<at, done>> \notin {<<2, 1>>, <<3, 2>>, <<6, 1>>, <<9, 0>>}
            /\ <<at, done>> \notin {<<9, 2>>, <<9, 5>>, <<3, 0>>, <<3, 6>>}
        BY <3>1 DEF Gaps
      <4>2. done < Len(Script)
        BY <1>8 DEF StatementFails
      <4> QED BY <1>2, <3>2, <4>1, <4>2, RebuildPositions
    <3>4. Exists(db, New(at)) /\ ~ Exists(db, Old(at))
      BY <2>1, <3>1 DEF Position, Copying, Exists
    <3>5. Script[done + 1].op = "rename" /\ Script[done + 1].table = Old(at)
          /\ Script[done + 1].from = New(at)
      BY <3>3 DEF Rename
    <3> QED BY <1>8, <3>4, <3>5 DEF StatementFails, Refused
  <2>3. <<at, done>> \notin Replaced
    <3>1. SUFFICES ASSUME <<at, done>> \in Replaced PROVE FALSE
      OBVIOUS
    <3>2. done = Len(Script)
      BY <3>1, ScriptOf, MergeText, UnifyText DEF Replaced, Script
    <3> QED BY <1>2, <1>8, <3>2 DEF StatementFails
  <2>4. Sound(db, version, kept)
    BY <2>1, <2>2, <2>3 DEF Position
  <2> QED BY <1>8, <2>4 DEF StatementFails, InMigration
<1>9. CASE ScriptEnds
  <2>1. Position
    BY <1>3, <1>9 DEF ScriptEnds, InMigration
  <2> QED
    BY <1>9, <2>1 DEF ScriptEnds, InMigration, Position, Made, Copying, Merging, Script
<1>10. CASE CheckKeys
  <2>1. Position /\ at = version + 1 /\ at \in 1..14 /\ done = Len(Script)
    BY <1>3, <1>10 DEF CheckKeys, InMigration, Position
  <2>2. BrokenKeys(db) => Sound(db, version, kept)
    BY <1>2, <2>1, ScriptDone
  <2>3. CASE BrokenKeys(db)
    BY <1>10, <2>2, <2>3 DEF CheckKeys, InMigration
  <2>4. CASE ~ BrokenKeys(db)
    BY <1>10, <2>1, <2>4
    DEF CheckKeys, InMigration, Position, Made, Copying, Merging, Script
  <2> QED BY <2>3, <2>4
<1>11. CASE RecordVersion
  <2>1. Position /\ at = version + 1 /\ at \in 1..14 /\ done = Len(Script)
    BY <1>3, <1>11 DEF RecordVersion, InMigration, Position
  <2>2. Fits(db, at, kept) /\ keys
    BY <1>2, <2>1, ScriptDone
  <2>3. ~ BrokenKeys(db) /\ keys = TRUE
    BY <1>11, <2>2 DEF RecordVersion, IInv, TypeOK, CheckedBeforeRecord
  <2>4. Sound(db, at, kept)
    BY <2>2, <2>3 DEF Sound
  <2> QED BY <1>11, <2>1, <2>3, <2>4, ScriptBegins DEF RecordVersion
<1>12. ASSUME NEW kind \in Kinds, NEW r \in Ids, Store(kind, r)
       PROVE  IF InMigration' THEN Position' ELSE Sound(db, version, kept)'
  <2>1. PICK t : t = Home(kind, known)
    OBVIOUS
  <2>2. /\ version = known /\ Sound(db, known, kept)
        /\ Exists(db, t) /\ Dangling(db, t, {RowOf(kind, r)}) = {}
        /\ db' = [db EXCEPT ![t] = Upserted(@, kind, r)] /\ kept' = kept \cup {<<kind, r>>}
        /\ version' = version /\ phase' = "serving"
    BY <1>4, <1>12, <2>1 DEF Store, InMigration, IInv, InOrder
  <2>3. Sound(db', known, kept')
    BY <1>2, <2>1, <2>2, StoredSound
  <2> QED BY <2>2, <2>3 DEF InMigration
<1>13. CASE Stop
  <2>1. ~ (InMigration /\ BlocksRerun(Script, done))
    BY <1>13 DEF Stop
  <2>2. Sound(db, version, kept)
    <3>1. CASE InMigration
      BY <1>3, <2>1, <3>1, TornThere DEF Position
    <3> QED BY <1>4, <3>1
  <2> QED BY <1>13, <2>2 DEF Stop, InMigration
<1>14. CASE Poll \/ UNCHANGED vars
  <2>1. UNCHANGED vars
    BY <1>14 DEF Poll
  <2> QED
    BY <1>3, <1>4, <2>1 DEF vars, InMigration, Position, Made, Copying, Merging, Script
<1> QED BY <1>5, <1>6, <1>7, <1>8, <1>9, <1>10, <1>11, <1>12, <1>13, <1>14
        DEF Next, Begin, Migrate

\* For any releases, in any order, and any number of stops: unless a migration was torn the
\* tables are those of the recorded version, with everything that was stored (runner.py:49-62).
THEOREM SchemaInvariant == Spec => [](IInv /\ SchemaInv)
<1>1. Init => IInv /\ SchemaInv
  BY InitInv, InitSchema
<1>2. IInv /\ SchemaInv /\ [Next]_vars => (IInv /\ SchemaInv)'
  BY StepInv, SchemaStep
<1> QED BY <1>1, <1>2, PTL DEF Spec

\* A process that serves finds every table its queries name and foreign keys that hold, unless
\* a migration was torn, whatever releases came before and wherever they were stopped.
THEOREM SchemaServed == Spec => []ServedSchema
<1>1. IInv /\ SchemaInv => ServedSchema
  <2> SUFFICES ASSUME IInv, SchemaInv, phase = "serving", ~ torn
               PROVE  (\A t \in TablesOf(known) : Exists(db, t)) /\ ~ BrokenKeys(db)
    BY DEF ServedSchema
  <2>1. Sound(db, known, kept) /\ known >= 1
    BY ReleasesAssumption DEF SchemaInv, InMigration, IInv, TypeOK, InOrder
  <2> QED BY <2>1 DEF Sound, Fits
<1> QED BY <1>1, SchemaInvariant, PTL

\* Every fact the program stored is where the release that serves looks for it, after any
\* upgrades, roll-backs and stops that tear no migration: no rebuild, merge or dropped table
\* loses a row (0002, 0003, 0006, 0009, 0014).
THEOREM FactsKept == Spec => []DataKept
<1>1. IInv /\ SchemaInv => DataKept
  <2> SUFFICES ASSUME IInv, SchemaInv, phase = "serving", ~ torn, NEW f \in kept
               PROVE  LET t == Home(f[1], known) IN
                      Exists(db, t) /\ \E x \in db[t] :
                        x.id = f[2] /\ (f[1] # "seen" => x = RowOf(f[1], f[2]))
    BY DEF DataKept
  <2>1. Held(db, known, f) /\ f[2] \in Ids
    BY DEF SchemaInv, InMigration, IInv, TypeOK, InOrder, Sound, Fits
  <2>2. PICK t : t = Home(f[1], known)
    OBVIOUS
  <2>3. PICK x \in db[t] : x.id = f[2] /\ (f[1] # "seen" => x = RowOf(f[1], f[2]))
    BY <2>1, <2>2 DEF Held, IdsOf, RowOf, Linked, Unlinked
  <2>4. Exists(db, t)
    BY <2>1, <2>3, NoRefAssumption DEF Exists, Absent
  <2> QED BY <2>2, <2>3, <2>4
<1> QED BY <1>1, SchemaInvariant, PTL
=============================================================================
