----------------------------- MODULE ServoLink -----------------------------
(***************************************************************************)
(* What the receiving half of the plugin (ReceiveServoPacket and what it   *)
(* calls, src/src/ArduPilotPlugin.cc:1518) promises the rest of it.  A     *)
(* packet counts as new when its frame count differs from the last one.  A *)
(* new packet, and nothing else, loads commands, and exactly those it asks *)
(* for.  The same packet once more brings back a lost connection and loads *)
(* nothing.  All commands are dropped in the step that loses the           *)
(* connection, so that one a repetition brings back has none.              *)
(*                                                                         *)
(* ArduPilotPlugin, which has the packets, and MotorControl, which has the *)
(* commands, implement it: what MotorControl takes a receive for is what   *)
(* the exchange makes of it.                                               *)
(***************************************************************************)
CONSTANTS
  Never,    \* the frame count while no packet has been accepted
  None,     \* no command is loaded
  Loads     \* what a packet may ask for

VARIABLES
  online,   \* the controller counts as connected
  last,     \* the frame count of the last new packet
  asks,     \* the commands that packet asks for
  loaded    \* the commands that drive the motors

Init == online = FALSE /\ last = Never /\ asks = None /\ loaded = None

\* A new packet.  Its commands may all be zero, too.
Accept ==
  /\ online' = TRUE
  /\ last' # last /\ last' # Never
  /\ asks' \in Loads \cup {None}
  /\ loaded' = asks'

\* The last packet once more.
Repeat == last # Never /\ online' = TRUE /\ UNCHANGED <<last, asks, loaded>>

Lose == online /\ online' = FALSE /\ loaded' = None /\ UNCHANGED <<last, asks>>

Next == Accept \/ Repeat \/ Lose

Spec == Init /\ [][Next]_<<online, last, asks, loaded>>
=============================================================================
