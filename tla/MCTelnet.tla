------------------------------ MODULE MCTelnet ------------------------------
(* Starts of the daemon for TLC: main's DNS server comes up, or fails, while  *)
(* the telnet server starts, or has come up before; with a local console only *)
(* in the latter case, which keeps the number of states down.                 *)
EXTENDS TelnetClients

AtTerminal == {[terminal |-> TRUE, dns |-> "serving"]}
Anywhere == AtTerminal \cup {[terminal |-> FALSE, dns |-> "starting"]}
=============================================================================
