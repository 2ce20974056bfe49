-------------------------------- MODULE Clock --------------------------------
(***************************************************************************)
(* The clock the smaller components read (Clock.now of both packages).     *)
(* What awaits lets it move on between a read and the use of what was      *)
(* read.                                                                   *)
(***************************************************************************)
EXTENDS Naturals

CONSTANT MaxTime  \* bound: the clock

ASSUME ClockAssumption == MaxTime \in Nat \ {0}

VARIABLE now  \* from 1: 0 is an absent time

ClockInit == now = 1
Tick == now < MaxTime /\ now' = now + 1
=============================================================================
