------------------------------- MODULE SharedClient -------------------------------
(***************************************************************************)
(* What callers of qc() may rely on: one client is shared by all.  It is   *)
(* made when the first of them asks, kept for ever once it is there, and   *)
(* made anew for the next who asks when making it failed, in which case    *)
(* exactly those who waited for it are turned down.                        *)
(***************************************************************************)
CONSTANT Callers

VARIABLES
  cell,     \* none, making, kept
  holder    \* of each caller: away, waiting, served, turned down

cellVars == <<cell, holder>>

CellInit ==
  /\ cell = "none"
  /\ holder = [c \in Callers |-> "away"]

Ask(c) ==
  /\ holder[c] = "away"
  /\ holder' = [holder EXCEPT ![c] = "waiting"]
  /\ cell' = IF cell = "none" THEN "making" ELSE cell

Made ==
  /\ cell = "making"
  /\ cell' = "kept"
  /\ UNCHANGED holder

Broke ==
  /\ cell = "making"
  /\ cell' = "none"
  /\ holder' = [c \in Callers |-> IF holder[c] = "waiting" THEN "turned down" ELSE holder[c]]

Serve(c) ==
  /\ holder[c] = "waiting" /\ cell = "kept"
  /\ holder' = [holder EXCEPT ![c] = "served"]
  /\ UNCHANGED cell

(* Without an endpoint there is nothing to be made. *)
TurnDown(c) ==
  /\ holder[c] = "away" /\ cell = "none"
  /\ holder' = [holder EXCEPT ![c] = "turned down"]
  /\ UNCHANGED cell

(* A caller may ask again, for another field. *)
Leave(c) ==
  /\ holder[c] \in {"served", "turned down"}
  /\ holder' = [holder EXCEPT ![c] = "away"]
  /\ UNCHANGED cell

CellNext ==
  \/ \E c \in Callers : Ask(c) \/ Serve(c) \/ TurnDown(c) \/ Leave(c)
  \/ Made \/ Broke

CellSpec == CellInit /\ [][CellNext]_cellVars

=============================================================================
