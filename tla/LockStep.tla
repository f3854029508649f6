------------------------------ MODULE LockStep ------------------------------
(***************************************************************************)
(* What lock-step promises (README.md:16): while a flight controller is    *)
(* connected, it and the simulation take turns.  Each step of the world    *)
(* uses up one grant, and only a new servo frame gives one.                *)
(***************************************************************************)
EXTENDS Naturals

CONSTANT MaxTime       \* bound: simulation steps of a run

VARIABLES
  turn,    \* "free": not connected; "controller": the world waits for a
           \* frame; "world": a frame came and the world may take one step
  time     \* the time the world has reached

Init == turn = "free" /\ time = 0

\* A new servo frame grants one step, whether it is the first one or not.
Grant == turn \in {"free", "controller"} /\ turn' = "world" /\ UNCHANGED time

Step ==
  /\ turn = "world" /\ time < MaxTime
  /\ turn' = "controller" /\ time' = time + 1

\* Without a controller, or after SIGINT, the world runs freely.
FreeStep == turn = "free" /\ time < MaxTime /\ time' = time + 1 /\ UNCHANGED turn
Interrupt == turn' = "free" /\ UNCHANGED time

Next == Grant \/ Step \/ FreeStep \/ Interrupt

Spec == Init /\ [][Next]_<<turn, time>>
=============================================================================
