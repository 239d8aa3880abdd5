---------------------------- MODULE PayoutLedger ----------------------------
(***************************************************************************)
(* What the ledger of outgoing payments promises its readers (/mutasi and  *)
(* /revenue), whatever the tickets do: a row, once booked, stays as it is, *)
(* no ticket is paid out twice and no payment reference is booked twice.   *)
(***************************************************************************)
VARIABLE rows

Booked(row) == \E old \in rows : old.ticket = row.ticket \/ old.reference = row.reference

Init == rows = {}

(* Some new payout is booked; nothing else ever happens to the ledger. *)
Book == \E row \in rows' : ~Booked(row) /\ rows' = rows \cup {row}

Spec == Init /\ [][Book]_rows

(* No ticket and no reference appears in two rows. *)
SingleUse ==
    \A a, b \in rows : a.ticket = b.ticket \/ a.reference = b.reference => a = b

=============================================================================
