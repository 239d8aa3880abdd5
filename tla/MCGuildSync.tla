---------------------------- MODULE MCGuildSync -----------------------------
(* An instance of GuildSync for TLC: a few names of each table. *)
EXTENDS GuildSync, TLC

Symmetry == Permutations(Handlers)

=============================================================================
