---------------------------- MODULE MC_ClaimsPaging ----------------------------
(* Instances of ClaimsPaging for TLC. *)
EXTENDS ClaimsPaging

(* A page, none, and what is no size of a page *)
PageSizes == {2, 0, -1, NotANumber}

(* Bound: who asks for an odd page size asks for ascending claims of any   *)
(* status.                                                                 *)
OddSizesArePlain ==
  query.take = 2 \/ (query.order = "asc" /\ query.status = NoFilter)

MCInit == Init /\ OddSizesArePlain

MCFairSpec == MCInit /\ [][Next]_vars /\ Fairness

=============================================================================
