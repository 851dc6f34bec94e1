-------------------------- MODULE CoffeeRefinement --------------------------
(***************************************************************************)
(* The sessions of CoffeeSession seen as the meetings of CoffeeMeeting.    *)
(***************************************************************************)
EXTENDS CoffeeSession

PhaseOf(status) ==
  CASE status \in OpenStatus -> "open"
    [] status = "completing" -> "closing"
    [] status = "completed" -> "held"
    [] OTHER -> "dropped"

MeetingOf(s) ==
  [chat |-> rows[s].chat, phase |-> PhaseOf(rows[s].status),
   attendees |-> rows[s].members, calls |-> pings[s]]

Promise == INSTANCE CoffeeMeeting
             WITH meetings <- [s \in 1..Len(rows) |-> MeetingOf(s)]

\* Every behaviour of the bot, with its crashes, failed and lost calls, is one of
\* CoffeeMeeting: the service, the jobs and the recovery together keep the promise.
KeepsPromise == Promise!Spec

-----------------------------------------------------------------------------
(* Why the promise is kept.                                                *)

\* A completion works on the row as it is, and calls only for a meeting that is closed
\* and has somebody to call: between its awaits nothing else changes its session.
CompletionIsCurrent ==
  \A c \in Chats : lock[c].pc \in {"unpin", "close", "ready"} =>
    /\ lock[c].cur = rows[lock[c].sid]
    /\ lock[c].pc # "unpin" => lock[c].cur.status = "completing"
    /\ lock[c].pc = "ready" => lock[c].cur.members # {}

\* Each call is the one after which the meeting is completed, or is paid for by a lost
\* answer or a crash.
CallsAccounted ==
  /\ \A k \in BudgetKinds : budget[k] <= Budget[k]
  /\ \A s \in DOMAIN rows :
       pings[s] <= Spent("lost") + Spent("crash")
                     + (IF rows[s].status = "completed" THEN 1 ELSE 0)

\* The inductive invariant of the refinement.
PromiseInv == IInv /\ CompletionIsCurrent /\ CallsAccounted /\ CompletedMeansCalled
=============================================================================
