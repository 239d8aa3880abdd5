---- MODULE MCHttpGateway ----
EXTENDS HttpGateway, TLC

CONSTANTS r1, r2, ip, operator, member

MCRequests == {r1, r2}
MCAccounts == {operator, member}
MCGroups == {"health", "uploads", "tickets"}
MCKeys == {<<"global", ip>>, <<"tickets", operator>>} \cup ({"uploads"} \X MCAccounts)
MCWatched == <<"global", ip>>

Symmetry == Permutations(MCRequests)
====
