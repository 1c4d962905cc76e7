----------------------------- MODULE MCWebHost ------------------------------
(***************************************************************************)
(* Values for TLC.  Proposals are interchangeable.  The posts of the tab   *)
(* and the starts of the Host share one budget: many posts on one runtime, *)
(* or fewer across a restart of it; a restart or a close costs one more.   *)
(* Two posts may find the Host in any state and three on one that is up;   *)
(* then, at most two are under way at a time, and one across a close.      *)
(***************************************************************************)
EXTENDS WebChat, TLC, FiniteSets

CONSTANT MaxWork

Interchangeable == Permutations(Proposals)

UnderWay == Cardinality({i \in Requests : req[i].at # "none"})

Budget ==
  /\ posted + last + (IF last > 2 \/ closes > 0 THEN 1 ELSE 0) <= MaxWork
  /\ posted > 2 => hostRuntime # 0 /\ UnderWay <= 2
  /\ closes > 0 => UnderWay <= 1
=============================================================================
