--------------------------- MODULE MembershipRoles --------------------------
(***************************************************************************)
(* The membership decisions of modules/membership (roles.go, verify.go):   *)
(* what a member's Discord roles say about their tier, and what the tier   *)
(* allows.  Roles are a set of role names.                                 *)
(***************************************************************************)

MemberRoleNames == {"User", "Buyer", "Seller"}

RestrictionRoles == {"Under Review", "Suspended", "Blacklisted"}

LegacyMemberRoles == {"New Member", "Verified Seller", "Provisional Seller", "Verified Buyer"}

RoleNames == MemberRoleNames \cup RestrictionRoles \cup LegacyMemberRoles

(* A legacy role, or two member roles at once, is a conflict.  (A member   *)
(* whose roles could not be read is one too; every decision below treats   *)
(* "conflict" and "none" alike.)                                           *)
MemberTier(roles) ==
    LET held == roles \cap MemberRoleNames
    IN  CASE roles \cap LegacyMemberRoles # {} -> "conflict"
          [] roles \cap LegacyMemberRoles = {} /\ held = {}         -> "none"
          [] roles \cap LegacyMemberRoles = {} /\ held = {"User"}   -> "user"
          [] roles \cap LegacyMemberRoles = {} /\ held = {"Buyer"}  -> "buyer"
          [] roles \cap LegacyMemberRoles = {} /\ held = {"Seller"} -> "seller"
          [] OTHER -> "conflict"

Restricted(roles) == roles \cap RestrictionRoles # {}

(* Who may open a ticket of a type; the types outside the gated four are   *)
(* open to everyone.                                                       *)
EligibleTicketApplicant(ticketType, roles) ==
    ticketType \in {"withdraw", "seller-verification", "campaign", "affiliate"} =>
        /\ ~Restricted(roles)
        /\ MemberTier(roles) \in
              CASE ticketType = "withdraw"            -> {"seller"}
                [] ticketType = "seller-verification" -> {"buyer"}
                [] OTHER                              -> {"buyer", "seller"}

(* A seller application may be approved for a Buyer, and again for one who *)
(* already is a Seller.                                                    *)
DecideSellerApproval(roles) ==
    /\ ~Restricted(roles)
    /\ MemberTier(roles) \in {"seller", "buyer"}

=============================================================================
