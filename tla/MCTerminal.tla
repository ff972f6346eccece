----------------------------- MODULE MCTerminal -----------------------------
(* Terminal for TLC.  Two configured repositories; one repository, two types   *)
(* of event and a panel of one line or two in the dashboard; one repository    *)
(* beside the global token sources; two TLS hosts, of which one changes its    *)
(* certificate, and two clients.                                               *)
EXTENDS Terminal, TLC

CONSTANTS a, b, started, completed, h1, h2, old, new, only

MCShows == [h \in Host |-> IF h = h1 THEN {old, new} ELSE {only}]
ClientSymmetry == Permutations(Client)

MCConfigured == <<a, b>>
MCRepoOrder == <<a>>
MCTypeOrder == <<started, completed>>
=============================================================================
