--------------------------- MODULE MigrationRunner ---------------------------
(***************************************************************************)
(* database/migrations/runner.py with main.py around it: a process starts, *)
(* brings the database to the version its release knows, script by script, *)
(* serves, and may stop at any point; systemd starts it again, or another  *)
(* release is put in its place.                                            *)
(*                                                                         *)
(* executescript leaves every statement in a transaction of its own, and   *)
(* the version is written in another: a stop may fall between any two.     *)
(* While it serves, the program stores rows; kept remembers what it stored *)
(* so that the properties can say what a migration may not lose.           *)
(***************************************************************************)
EXTENDS MigrationScripts

CONSTANTS
  Releases,   \* for each release that may be deployed, the migrations it has
  MaxStops    \* how many times the process may be stopped

\* Every release that has the runner has 0001.
ASSUME ReleasesAssumption == Releases \subseteq 1..Len(Scripts)
ASSUME MaxStopsAssumption == MaxStops \in Nat

VARIABLES
  db,       \* table -> its rows, or Absent
  version,  \* PRAGMA user_version
  known,    \* len(load_migrations()) of the release in place
  phase,    \* what the process is doing
  at,       \* the migration it is applying
  done,     \* how many statements of its script have been executed
  keys,     \* PRAGMA foreign_keys of its connection
  stops,    \* how many times it was stopped
  torn,     \* it was stopped at a point from which the script cannot run again
  orphaned, \* the database was broken before it was given to the program
  kept      \* what the program has stored: pairs of a kind of fact and an id

vars == <<db, version, known, phase, at, done, keys, stops, torn, orphaned, kept>>
process == <<phase, at, done, keys>>

Phases == {"down", "script", "check", "record", "serving", "failed"}
Kinds == {"user", "account", "seen", "splitwise", "coffee"}

\* Types, to begin with.
TypeOK ==
  /\ db \in [Tables -> (SUBSET Rows) \cup {Absent}]
  /\ version \in Nat /\ known \in Releases
  /\ phase \in Phases
  /\ at \in Nat /\ done \in Nat
  /\ keys \in BOOLEAN /\ torn \in BOOLEAN /\ orphaned \in BOOLEAN
  /\ stops \in 0..MaxStops
  /\ kept \subseteq Kinds \X Ids

Linked(r)   == [id |-> r, ref |-> r]
Unlinked(r) == [id |-> r, ref |-> NoRef]

\* Nothing, or the tables of the time before versions with some users in them
\* and some accounts, whose user may have been deleted by hand.
Init ==
  /\ \/ /\ db = [t \in Tables |-> Absent]
        /\ kept = {}
     \/ \E us, as \in SUBSET Ids :
          /\ db = [t \in Tables |->
                     CASE t = "users" -> {Unlinked(r) : r \in us}
                       [] t = "telegram_accounts" -> {Linked(r) : r \in as}
                       [] OTHER -> Absent]
          /\ kept = ({"user"} \X us) \cup ({"account"} \X as)
  /\ orphaned = BrokenKeys(db)
  /\ version = 0 /\ known \in Releases
  /\ phase = "down" /\ at = 0 /\ done = 0 /\ keys = FALSE
  /\ stops = 0 /\ torn = FALSE

-----------------------------------------------------------------------------
(* Starting: a new connection, the version compared with what is known.    *)

\* The loop goes on to the next migration, or the bot is built and polls.
NextMigration(v) ==
  /\ phase' = IF v < known THEN "script" ELSE "serving"
  /\ at' = IF v < known THEN v + 1 ELSE v
  /\ done' = 0

\* Mutant of Start: the loop skips versions below the current one only.
StartsAtCurrent ==
  /\ phase = "down"
  /\ version <= known
  /\ IF version = known \/ version = 0 THEN NextMigration(version) ELSE NextMigration(version - 1)
  /\ keys' = TRUE
  /\ UNCHANGED <<db, version, known, stops, torn, orphaned, kept>>

Start ==
  /\ phase = "down"
  /\ version <= known
  /\ NextMigration(version)
  /\ keys' = TRUE
  /\ UNCHANGED <<db, version, known, stops, torn, orphaned, kept>>

\* _ensure_database_is_not_newer
RefuseNewer ==
  /\ phase = "down"
  /\ version > known
  /\ phase' = "failed"
  /\ UNCHANGED <<db, version, known, at, done, keys, stops, torn, orphaned, kept>>

-----------------------------------------------------------------------------
(* One migration: the script, the check of the keys, the version.          *)

Script == Scripts[at]

Statement ==
  /\ phase = "script"
  /\ done < Len(Script)
  /\ ~ Refused(Script[done + 1], db, keys)
  /\ db' = Executed(Script[done + 1], db, keys)
  /\ keys' = KeysAfter(Script[done + 1], keys)
  /\ done' = done + 1
  /\ UNCHANGED <<version, known, phase, at, stops, torn, orphaned, kept>>

\* sqlite3.OperationalError leaves the whole program.
StatementFails ==
  /\ phase = "script"
  /\ done < Len(Script)
  /\ Refused(Script[done + 1], db, keys)
  /\ phase' = "failed"
  /\ UNCHANGED <<db, version, known, at, done, keys, stops, torn, orphaned, kept>>

ScriptEnds ==
  /\ phase = "script"
  /\ done = Len(Script)
  /\ phase' = "check"
  /\ UNCHANGED <<db, version, known, at, done, keys, stops, torn, orphaned, kept>>

\* Mutant of CheckKeys: foreign_key_check is not read.
Unchecked ==
  /\ phase = "check"
  /\ phase' = "record"
  /\ UNCHANGED <<db, version, known, at, done, keys, stops, torn, orphaned, kept>>

CheckKeys ==
  /\ phase = "check"
  /\ phase' = IF BrokenKeys(db) THEN "failed" ELSE "record"
  /\ UNCHANGED <<db, version, known, at, done, keys, stops, torn, orphaned, kept>>

RecordVersion ==
  /\ phase = "record"
  /\ version' = at
  /\ NextMigration(at)
  /\ UNCHANGED <<db, known, keys, stops, torn, orphaned, kept>>

-----------------------------------------------------------------------------
(* Serving: the rows the repositories write, where release v keeps them.   *)

Home(kind, v) ==
  CASE kind = "user" -> "users"
    [] kind = "account" -> "telegram_accounts"
    [] kind = "seen" /\ v >= 9 -> "telegram_accounts"
    [] kind = "seen" /\ v < 9 -> "telegram_seen_accounts"
    [] kind = "splitwise" -> "splitwise_users"
    [] kind = "coffee" /\ v >= 14 -> "user_invitation_preferences"
    [] kind = "coffee" /\ v < 14 -> "coffee_preferences"

RowOf(kind, r) == IF kind \in {"user", "seen"} THEN Unlinked(r) ELSE Linked(r)

\* The upserts of the repositories: a link replaces a row without one, and a
\* seen account that has a row keeps its link.
Upserted(rows, kind, r) ==
  IF kind = "seen" /\ r \in IdsOf(rows) THEN rows
  ELSE {x \in rows : x.id # r} \cup {RowOf(kind, r)}

Store(kind, r) ==
  LET t == Home(kind, known) IN
  /\ phase = "serving"
  /\ Exists(db, t)
  /\ Dangling(db, t, {RowOf(kind, r)}) = {}
  /\ <<kind, r>> \notin kept
  /\ db' = [db EXCEPT ![t] = Upserted(@, kind, r)]
  /\ kept' = kept \cup {<<kind, r>>}
  /\ UNCHANGED <<version, known, phase, at, done, keys, stops, torn, orphaned>>

\* Updates that store nothing new.
Poll == phase = "serving" /\ UNCHANGED vars

-----------------------------------------------------------------------------
(* Stopping, and what is started next.                                     *)

\* The script, run from its first statement after its first n were executed,
\* meets a table it creates, or one it copies from is gone and its copy is
\* the first thing the script throws away.
BlocksRerun(script, n) ==
  \/ \E i \in 1..n :
       /\ script[i].op = "create"
       /\ \A j \in 1..(i - 1) : script[j] # Discard(script[i].table)
  \/ \E i \in 1..n :
       /\ script[i].op = "drop"
       /\ \A j \in (i + 1)..n : ~ (script[j].op = "rename" /\ script[j].table = script[i].table)

InMigration == phase \in {"script", "check", "record"}

Stop ==
  /\ phase \in {"script", "check", "record", "serving"}
  /\ stops < MaxStops
  /\ stops' = stops + 1
  /\ torn' = (torn \/ (InMigration /\ BlocksRerun(Script, done)))
  /\ phase' = "down" /\ at' = 0 /\ done' = 0 /\ keys' = FALSE
  /\ UNCHANGED <<db, version, known, orphaned, kept>>

\* Restart=on-failure
Restart ==
  /\ phase = "failed"
  /\ phase' = "down" /\ at' = 0 /\ done' = 0 /\ keys' = FALSE
  /\ UNCHANGED <<db, version, known, stops, torn, orphaned, kept>>

Deploy(k) ==
  /\ phase = "down"
  /\ k # known
  /\ known' = k
  /\ UNCHANGED <<db, version, phase, at, done, keys, stops, torn, orphaned, kept>>

-----------------------------------------------------------------------------
Begin   == Start \/ RefuseNewer
Migrate == Statement \/ StatementFails \/ ScriptEnds \/ CheckKeys \/ RecordVersion

Next ==
  \/ Begin \/ Migrate \/ Poll
  \/ \E kind \in Kinds, r \in Ids : Store(kind, r)
  \/ Stop \/ Restart
  \/ \E k \in Releases : Deploy(k)

Spec == Init /\ [][Next]_vars
\* The process runs, and systemd starts it again.
FairSpec == Spec /\ WF_vars(Begin) /\ WF_vars(Migrate) /\ WF_vars(Restart)

-----------------------------------------------------------------------------
(* Properties.                                                             *)

TablesOf(v) == {t \in Tables :
  CASE t \in {"users", "telegram_accounts", "splitwise_users"} -> v >= 1
    [] t = "telegram_debug_settings" -> v >= 4
    [] t = "lunch_auto_chats" -> v >= 5
    [] t = "user_vacations" -> v >= 7
    [] t = "telegram_seen_accounts" -> v = 8
    [] t = "registration_requests" -> v >= 10
    [] t = "lunch_pinned_messages" -> v >= 11
    [] t \in {"polls", "poll_selected_options"} -> v >= 12
    [] t = "coffee_preferences" -> v = 13
    [] t \in {"coffee_sessions", "coffee_session_participants"} -> v >= 13
    [] t = "user_invitation_preferences" -> v >= 14
    [] OTHER -> FALSE}

\* The migration in progress is the next one, whatever release and stop came
\* before.
InOrder ==
  /\ version <= Len(Scripts)
  /\ InMigration => at = version + 1 /\ at <= known
  /\ phase = "script" => done <= Len(Script)
  /\ phase = "serving" => version = known

\* Between the check of the keys and the commit of the version nothing moves.
CheckedBeforeRecord == phase = "record" => ~ BrokenKeys(db)

\* What the steps preserve: no version is recorded out of order or over broken
\* keys, and a process serves the version its release knows (runner.py:49-62).
IInv == TypeOK /\ InOrder /\ CheckedBeforeRecord

\* The version only goes up, by one, and over keys that hold; a roll-back never
\* rewrites it (runner.py:70-91).
VersionSteps ==
  [][version' # version => version' = version + 1 /\ ~ BrokenKeys(db)]_vars

\* Unless a migration was torn, a process that serves finds every table its
\* queries name, and foreign keys that hold, whatever releases came before it
\* and wherever they were stopped (runner.py:49, README.md:153).
ServedSchema ==
  phase = "serving" /\ ~ torn =>
    /\ \A t \in TablesOf(known) : Exists(db, t)
    /\ ~ BrokenKeys(db)

\* Every fact the program stored is where the release that serves looks for
\* it, after any upgrades and any stops that tear no migration: a rebuild
\* copies all rows, and dropping the old table cascades to no other
\* (0003: PRAGMA foreign_keys = OFF).
DataKept ==
  phase = "serving" /\ ~ torn =>
    \A f \in kept :
      LET t == Home(f[1], known) IN
      \/ f[1] = "coffee" /\ known < 13
      \/ f[1] = "seen" /\ known < 8
      \/ Exists(db, t) /\ \E x \in db[t] :
           x.id = f[2] /\ (f[1] # "seen" => x = RowOf(f[1], f[2]))

\* The tables a fact may be in, at any version and inside a script.
Holders(kind) ==
  CASE kind = "user" -> {"users", "users_new"}
    [] kind = "account" -> {"telegram_accounts", "telegram_accounts_new"}
    [] kind = "seen" -> {"telegram_seen_accounts", "telegram_accounts",
                         "telegram_accounts_new"}
    [] kind = "splitwise" -> {"splitwise_users", "splitwise_users_new"}
    [] kind = "coffee" -> {"coffee_preferences", "user_invitation_preferences"}

\* "Preserve existing data explicitly when rebuilding a table" (README.md:175):
\* what was stored is in some table, also after a stop inside a rebuild.  The
\* code breaks it: after a stop between DROP TABLE users and the RENAME of its
\* copy, the script's first statement throws the copy away.
DataSurvives ==
  \A f \in kept : \E t \in Holders(f[1]) : Exists(db, t) /\ f[2] \in IdsOf(db[t])

\* Started on a database it knows, the program comes to serve, however often it
\* was stopped on the way, unless a migration was torn, the database was broken
\* before, or another release is put in its place that is older than the data.
UpgradeEnds ==
  version <= known ~> (phase = "serving" \/ torn \/ orphaned \/ version > known)
=============================================================================
