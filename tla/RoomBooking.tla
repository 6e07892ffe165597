---------------------------- MODULE RoomBooking ----------------------------
(***************************************************************************)
(* What completePickedPlayers relies on when it has a room allocated for a *)
(* match: the room is booked on one server, stays booked until it is given *)
(* back, and no server has more players booked than its capacity.          *)
(***************************************************************************)
EXTENDS Naturals, FiniteSets

CONSTANTS
  Matches,    \* the matches that rooms are booked for
  Servers,    \* the room servers
  NoServer,
  Slots       \* players per match

VARIABLES
  assigned,   \* the server on which each match has its room
  capacity    \* the player slots of each server, 0 before it registers

Booked(s) == {m \in Matches : assigned[m] = s}

Init ==
  /\ assigned = [m \in Matches |-> NoServer]
  /\ capacity = [s \in Servers |-> 0]

Open(s) ==
  /\ capacity[s] = 0
  /\ \E n \in Nat \ {0} : capacity' = [capacity EXCEPT ![s] = n]
  /\ UNCHANGED assigned

Book(m, s) ==
  /\ assigned[m] = NoServer
  /\ Slots * (Cardinality(Booked(s)) + 1) <= capacity[s]
  /\ assigned' = [assigned EXCEPT ![m] = s]
  /\ UNCHANGED capacity

GiveBack(m) ==
  /\ assigned[m] # NoServer
  /\ assigned' = [assigned EXCEPT ![m] = NoServer]
  /\ UNCHANGED capacity

Next ==
  \/ \E s \in Servers : Open(s)
  \/ \E m \in Matches : (\E s \in Servers : Book(m, s)) \/ GiveBack(m)

Spec == Init /\ [][Next]_<<assigned, capacity>>
=============================================================================
