------------------------- MODULE WriteConfirmation -------------------------
(***************************************************************************)
(* What the confirmation flow promises about one proposed mutation         *)
(* (docs/adr/007-explicit-confirmation-for-mutations.md): nothing is done  *)
(* for it before an explicit confirmation, a dropped proposal is never     *)
(* executed, and a confirmed one is executed at most once.  ChatSession is *)
(* shown to implement this specification.                                  *)
(***************************************************************************)
CONSTANT Proposals      \* every write the model will ever propose

VARIABLE state          \* [Proposals -> States]

States == {"new", "pending", "dropped", "confirmed", "applied", "refused"}

Init == state = [p \in Proposals |-> "new"]

Move(p, from, to) ==
  /\ state[p] \in from
  /\ state' = [state EXCEPT ![p] = to]

\* The proposal is shown to the user, with its exact arguments.
Propose(p) == Move(p, {"new"}, "pending")

\* Cancelled by the user, lost with its session, or never shown at all.
Drop(p) == Move(p, {"new", "pending"}, "dropped")

Confirm(p) == Move(p, {"pending"}, "confirmed")

\* The owning MCP server executes the write, or answers that it did not.
Apply(p) == Move(p, {"confirmed"}, "applied")
Refuse(p) == Move(p, {"confirmed"}, "refused")

Next == \E p \in Proposals :
          Propose(p) \/ Drop(p) \/ Confirm(p) \/ Apply(p) \/ Refuse(p)

Spec == Init /\ [][Next]_state
=============================================================================
