-------------------------- MODULE MigrationScripts --------------------------
(***************************************************************************)
(* The SQL scripts of database/migrations, statement by statement, and     *)
(* what a statement does to the tables.                                    *)
(*                                                                         *)
(* A table is absent or a set of rows; a row has the identifier the code   *)
(* looks it up by and, where a foreign key may be null, the parent it      *)
(* refers to.  Columns, defaults, checks and indexes are left out, and so  *)
(* is the UPDATE of 0009, which fills in profile names only.               *)
(***************************************************************************)
EXTENDS Naturals, Sequences

CONSTANTS Ids, NoRef

ASSUME NoRefAssumption == NoRef \notin Ids

Absent == {[id |-> NoRef, ref |-> NoRef]}   \* the value of a table that is not there

Rows == [id : Ids, ref : Ids \cup {NoRef}]

\* The tables whose rows the model follows or whose presence a script tests.
Tables ==
  {"users", "users_new", "telegram_accounts", "telegram_accounts_new",
   "telegram_seen_accounts", "splitwise_users", "splitwise_users_new",
   "telegram_debug_settings", "lunch_auto_chats", "user_vacations",
   "registration_requests", "lunch_pinned_messages", "polls",
   "poll_selected_options", "coffee_preferences", "coffee_sessions",
   "coffee_session_participants", "user_invitation_preferences"}

\* The forms of statement the scripts are written in.
Ensure(t)  == [op |-> "ensure", table |-> t, from |-> t]    \* CREATE TABLE IF NOT EXISTS
Create(t)  == [op |-> "create", table |-> t, from |-> t]    \* CREATE TABLE
Discard(t) == [op |-> "discard", table |-> t, from |-> t]   \* DROP TABLE IF EXISTS
Drop(t)    == [op |-> "drop", table |-> t, from |-> t]      \* DROP TABLE
Copy(t, s) == [op |-> "copy", table |-> t, from |-> s]      \* INSERT INTO t SELECT FROM s
Rename(s, t) == [op |-> "rename", table |-> t, from |-> s]  \* ALTER TABLE s RENAME TO t
Keys(on)   == [op |-> IF on THEN "keys_on" ELSE "keys_off", \* PRAGMA foreign_keys
               table |-> "users", from |-> "users"]

Rebuild(t, new) ==
  <<Discard(new), Create(new), Copy(new, t), Drop(t), Rename(new, t)>>
Initial          == <<Keys(TRUE), Ensure("users"), Ensure("telegram_accounts"),
                      Ensure("splitwise_users")>>
RebuildSplitwise == Rebuild("splitwise_users", "splitwise_users_new")

\* Mutant of RebuildUsers: the foreign keys stay on.
RebuildUsersKeysOn == Rebuild("users", "users_new")

RebuildUsers     == <<Keys(FALSE)>> \o Rebuild("users", "users_new") \o <<Keys(TRUE)>>
DebugSettings    == <<Ensure("telegram_debug_settings")>>
AutoChats        == <<Ensure("lunch_auto_chats")>>
RelaxSplitwise   == Rebuild("splitwise_users", "splitwise_users_new")
Vacations        == <<Ensure("user_vacations")>>
SeenAccounts     == <<Ensure("telegram_seen_accounts")>>
Requests         == <<Ensure("registration_requests")>>
PinnedMessages   == <<Ensure("lunch_pinned_messages")>>
MergeSeen        == <<Create("telegram_accounts_new"),
                      Copy("telegram_accounts_new", "telegram_accounts"),
                      Copy("telegram_accounts_new", "telegram_seen_accounts"),
                      Drop("telegram_accounts"),
                      Rename("telegram_accounts_new", "telegram_accounts"),
                      Drop("telegram_seen_accounts")>>
PollRegistry     == <<Create("polls"), Create("poll_selected_options")>>
CoffeeTables     == <<Create("coffee_preferences"), Create("coffee_sessions"),
                      Create("coffee_session_participants")>>

\* Mutant of Unify: the old table is dropped before it is copied.
UnifyDropsFirst == <<Create("user_invitation_preferences"), Drop("coffee_preferences"),
                     Copy("user_invitation_preferences", "coffee_preferences")>>

Unify            == <<Create("user_invitation_preferences"),
                      Copy("user_invitation_preferences", "coffee_preferences"),
                      Drop("coffee_preferences")>>

\* In the order of their file names, which are the versions 1 to 14.
Scripts ==
  <<Initial, RebuildSplitwise, RebuildUsers, DebugSettings, AutoChats, RelaxSplitwise,
    Vacations, SeenAccounts, MergeSeen, Requests, PinnedMessages, PollRegistry,
    CoffeeTables, Unify>>

-----------------------------------------------------------------------------
(* What a statement does.                                                  *)

Exists(db, t) == db[t] # Absent
IdsOf(rows) == {r.id : r \in rows}

\* REFERENCES clauses, of the tables whose rows are followed.
Parent == [t \in {"telegram_accounts", "telegram_accounts_new", "splitwise_users",
                  "splitwise_users_new", "user_vacations", "coffee_preferences",
                  "user_invitation_preferences", "registration_requests"} |->
             IF t = "registration_requests" THEN "telegram_accounts" ELSE "users"]

\* The rows that refer to a row that is not there, were they in table t.
Dangling(db, t, rows) ==
  {r \in rows : /\ t \in DOMAIN Parent /\ r.ref # NoRef
                /\ \/ ~ Exists(db, Parent[t])
                   \/ r.ref \notin IdsOf(db[Parent[t]])}

\* PRAGMA foreign_key_check returns a row.
BrokenKeys(db) == \E t \in Tables : Exists(db, t) /\ Dangling(db, t, db[t]) # {}

\* SQLite refuses the statement, and the script ends there.
Refused(s, db, keys) ==
  \/ s.op = "create" /\ Exists(db, s.table)
  \/ s.op = "drop" /\ ~ Exists(db, s.table)
  \/ s.op = "copy" /\ ~ (Exists(db, s.from) /\ Exists(db, s.table))
  \/ s.op = "copy" /\ keys /\ Dangling(db, s.table, db[s.from]) # {}
  \/ s.op = "rename" /\ (~ Exists(db, s.from) \/ Exists(db, s.table))

\* Dropping a table deletes its rows first; with foreign keys on, ON DELETE
\* CASCADE takes the rows that refer to them.
Dropped(db, t, keys) ==
  [x \in DOMAIN db |->
     IF x = t THEN Absent
     ELSE IF keys /\ x \in DOMAIN Parent /\ Parent[x] = t /\ Exists(db, x) /\ Exists(db, t)
     THEN {r \in db[x] : r.ref \notin IdsOf(db[t])}
     ELSE db[x]]

\* Only rows whose identifier is new: 0009 joins the two tables for that, and
\* the other copies are made into an empty table.
Copied(db, t, s) ==
  [db EXCEPT ![t] = @ \cup {r \in db[s] : r.id \notin IdsOf(@)}]

Executed(s, db, keys) ==
  CASE s.op \in {"ensure", "create"} /\ ~ Exists(db, s.table) -> [db EXCEPT ![s.table] = {}]
    [] s.op \in {"discard", "drop"} -> Dropped(db, s.table, keys)
    [] s.op = "copy"   -> Copied(db, s.table, s.from)
    [] s.op = "rename" -> [db EXCEPT ![s.table] = db[s.from], ![s.from] = Absent]
    [] OTHER           -> db

KeysAfter(s, keys) == s.op = "keys_on" \/ (keys /\ s.op # "keys_off")
=============================================================================
