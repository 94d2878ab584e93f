----------------------------- MODULE MCListing -----------------------------
(***************************************************************************)
(* A small instance of Listing, with Provisioning.                         *)
(***************************************************************************)
EXTENDS Listing, TLC

Symmetry == Permutations(AgentIDs) \cup Permutations(Keys) \cup Permutations(Calls)
              \cup Permutations(TxnIDs)

\* Both limits and the offset are out of bounds: they become 2, 2 and 0.
SomeLimits  == {0, 5}
SomeOffsets == {-1}
EveryOwner  == {All}
SomeStatuses == {"active", "PENDING_APPROVAL", All}
=============================================================================
