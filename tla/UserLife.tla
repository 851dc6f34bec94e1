------------------------------ MODULE UserLife ------------------------------
(***************************************************************************)
(* What registration promises about a user, whatever conversations,        *)
(* commands, failures and restarts there are: which status can follow      *)
(* which, and when the data a user is known by may change.                 *)
(***************************************************************************)
CONSTANTS Users, Names, Members, NoName, NoMember
VARIABLES status, name, link

Blocked == {"rejected", "disabled"}
Unregistered == {"none", "abandoned"}

Init ==
  /\ status \in [Users -> Blocked \cup Unregistered \cup {"pending", "active"}]
  /\ name \in [Users -> Names \cup {NoName}]
  /\ link \in [Users -> Members \cup {NoMember}]

Free(u, m) == m = NoMember \/ \A v \in Users \ {u} : link[v] # m

\* A request for approval, with new data; the only way the data changes.
Ask(u) ==
  /\ status[u] \notin Blocked
  /\ status' = [status EXCEPT ![u] = "pending"]
  /\ \E n \in Names : name' = [name EXCEPT ![u] = n]
  /\ \/ UNCHANGED link
     \/ \E m \in Members \cup {NoMember} : Free(u, m) /\ link' = [link EXCEPT ![u] = m]

\* An admin lets in a user known to the bot, with the data the user has.
LetIn(u) ==
  /\ status[u] # "none"
  /\ status' = [status EXCEPT ![u] = "active"]
  /\ UNCHANGED <<name, link>>

\* The user leaves, and the link to Splitwise goes too.
Leave(u) ==
  /\ status[u] \notin Unregistered
  /\ status' = [status EXCEPT ![u] = "abandoned"]
  /\ link' = [link EXCEPT ![u] = NoMember]
  /\ UNCHANGED name

Next == \E u \in Users : Ask(u) \/ LetIn(u) \/ Leave(u)

Spec == Init /\ [][Next]_<<status, name, link>>
=============================================================================
