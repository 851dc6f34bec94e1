--------------------------- MODULE CoffeeMeeting ---------------------------
(***************************************************************************)
(* What the bot promises about coffee meetings, without locks, jobs,       *)
(* restarts or retries.  A meeting is open to everybody until it closes;   *)
(* from then on its attendees are fixed, they may be called, and it ends   *)
(* held or dropped, for good.  It is held only if its attendees were       *)
(* called, or there was nobody to call.                                    *)
(***************************************************************************)
EXTENDS Naturals, Sequences

CONSTANTS Chats, Users

VARIABLE meetings   \* all meetings ever proposed, in order

Phases == {"open", "closing", "held", "dropped"}

Meeting == [chat: Chats, phase: Phases, attendees: SUBSET Users, calls: Nat]

MeetingsOK == meetings \in Seq(Meeting)

Ends == {"held", "dropped"}

Init == meetings = <<>>

Propose(c, u) ==
  /\ \A m \in DOMAIN meetings : meetings[m].chat = c => meetings[m].phase # "open"
  /\ meetings' = Append(meetings,
       [chat |-> c, phase |-> "open", attendees |-> {u}, calls |-> 0])

ChangeAttendees(m, people) ==
  /\ meetings[m].phase = "open"
  /\ meetings' = [meetings EXCEPT ![m].attendees = people]

Close(m) ==
  /\ meetings[m].phase = "open"
  /\ meetings' = [meetings EXCEPT ![m].phase = "closing"]

\* Nobody wants to go: the meeting ends without a call.
HoldEmpty(m) ==
  /\ meetings[m].phase = "closing"
  /\ meetings[m].attendees = {}
  /\ meetings' = [meetings EXCEPT ![m].phase = "held"]

\* The call reaches the chat; the bot knows it did ("held"), tries again
\* ("closing") or has no attempt left ("dropped").
Call(m, phase) ==
  /\ meetings[m].phase = "closing"
  /\ meetings' = [meetings EXCEPT ![m].calls = @ + 1, ![m].phase = phase]

\* Meetings the bot gives up; a restart may find several of them.
Drop(M) ==
  /\ \A m \in M : meetings[m].phase \notin Ends
  /\ meetings' = [m \in DOMAIN meetings |->
       IF m \in M THEN [meetings[m] EXCEPT !.phase = "dropped"] ELSE meetings[m]]

Next ==
  \/ \E c \in Chats, u \in Users : Propose(c, u)
  \/ \E m \in DOMAIN meetings :
       \/ \E people \in SUBSET Users : ChangeAttendees(m, people)
       \/ Close(m)
       \/ HoldEmpty(m)
       \/ \E phase \in Phases \ {"open"} : Call(m, phase)
  \/ \E M \in SUBSET DOMAIN meetings : Drop(M)

Spec == Init /\ [][Next]_meetings
=============================================================================
