------------------------------- MODULE MCLunch -------------------------------
(* Instances of LunchPolls for TLC. *)
EXTENDS LunchPolls

CONSTANTS u1, u2

\* The first chat has two voters, the second none that answer.
MCVoters == 1 :> {u1, u2} @@ 2 :> {}

MCBallots ==
  [k \in Kinds |-> IF k = Attendance THEN {{"office"}, {"home"}}
                   ELSE IF k = OtherFood THEN {} ELSE {{"other"}, {"view", "own"}}]

\* Votes: a publication by command beside the automatic one.
MCVotes == [groups |-> {1}, auto |-> {1}, work |-> {1}, budget |->
  [command |-> 1, switch |-> 0, vote |-> 2, away |-> 0, reject |-> 0, lost |-> 0, crash |-> 0, day |-> 0]]

\* Restart: votes around a restart, with a lost answer of Telegram.
MCRestart == [groups |-> {1}, auto |-> {1}, work |-> {1}, budget |->
  [command |-> 0, switch |-> 0, vote |-> 2, away |-> 1, reject |-> 0, lost |-> 1, crash |-> 1, day |-> 0]]

\* Days: two runs over two chats, with refused and lost calls and a switch in between.
MCDays == [groups |-> {1, 2}, auto |-> {1, 2}, work |-> {1, 2}, budget |->
  [command |-> 0, switch |-> 1, vote |-> 0, away |-> 0, reject |-> 1, lost |-> 1, crash |-> 1, day |-> 1]]

\* Holiday: pins are cleared on a day without publications; everybody may leave.
MCHoliday == [MCDays EXCEPT !.work = {1}, !.budget.switch = 0, !.budget.crash = 0,
                            !.budget.away = 2]

MCScenarios == {MCVotes, MCRestart, MCDays, MCHoliday}

=============================================================================
