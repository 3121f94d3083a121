------------------------------- MODULE RateSheets -------------------------------
(***************************************************************************)
(* What the memory cache promises to those who ask it for a rate: at any   *)
(* moment it holds one rate sheet, whole, and a caller works with a copy   *)
(* of the sheet that was there at one moment of its call, while the next   *)
(* sheet may already be in place.                                          *)
(***************************************************************************)
CONSTANTS
  Caller,   \* those who ask for rates
  Sheet,    \* the rate sheets that may be loaded
  Blank     \* no sheet

VARIABLES
  current,  \* the sheet in the cache
  copy      \* the sheet each caller works with

Init ==
  /\ current = Blank
  /\ copy = [c \in Caller |-> Blank]

Load ==
  /\ current' \in Sheet
  /\ UNCHANGED copy

Look(c) ==
  /\ copy' = [copy EXCEPT ![c] = current]
  /\ UNCHANGED current

PutAway(c) ==
  /\ copy' = [copy EXCEPT ![c] = Blank]
  /\ UNCHANGED current

Next == Load \/ \E c \in Caller : Look(c) \/ PutAway(c)

Spec == Init /\ [][Next]_<<current, copy>>

================================================================================
