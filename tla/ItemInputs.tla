----------------------------- MODULE ItemInputs -----------------------------
(***************************************************************************)
(* What run_improved_plan knows of one item at one location once the       *)
(* recipes are exploded: usable stock, daily demand and open orders.       *)
(*                                                                         *)
(* Day 0 is the planning date and End the last day with a forecast for the *)
(* location.  Every forecast has a recipe and so demands something, or the *)
(* explosion raises, so the two computations of that day agree.            *)
(* Quantities are whole numbers of a unit that is small enough for the     *)
(* divisions of the code, which uses decimals, to be exact.                *)
(***************************************************************************)
EXTENDS Integers

CONSTANTS End,   \* projection_end_date, forecast_end_by_location
          Last   \* bound on the days that delivery windows reach

ASSUME DayAssumption == End \in Nat /\ Last \in Nat /\ End <= Last

Day == 0..Last

\* Orders that should have arrived before the planning date.
Overdue == -1

VARIABLES opening,  \* usable units times pack size, plus the open pack
          demand,   \* required_g of each day
          orders    \* open quantity expected on each day, or overdue

inputs == <<opening, demand, orders>>

\* Nothing is demanded after the last forecast.
InputsOK == /\ opening \in Nat
            /\ demand \in [Day -> Nat]
            /\ \A d \in Day : d > End => demand[d] = 0
            /\ orders \in [Day \cup {Overdue} -> Nat]
=============================================================================
