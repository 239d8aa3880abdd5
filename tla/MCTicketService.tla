--------------------------- MODULE MCTicketService --------------------------
(* Instances of TicketService for TLC. *)
EXTENDS TicketService, TLC

CONSTANT Buyers   \* the users whose role is Buyer; the others are Sellers

MCRolesOf == [u \in Users |-> IF u \in Buyers THEN {"Buyer"} ELSE {"Seller"}]

MCAmounts == {<<500, "USD">>}

Symmetry == Permutations(References) \cup Permutations(Requests)

=============================================================================
