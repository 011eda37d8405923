----------------------------- MODULE MCLineEditor -----------------------------
(* Words of one and two letters for TLC: commands, subcommands and zones of   *)
(* which some begin alike and one is the beginning of another.                *)
EXTENDS LineEditor

Letter(c) == <<c>>
Letters(c, d) == <<c, d>>

CheckWord == Letter("a")
ShowWord == Letter("b")
ZoneWord == Letter("a")
AllWord == Letter("a")
Top == {CheckWord, ShowWord, Letters("b", "a")}
Sub == ShowWord :> {ZoneWord, Letters("a", "b"), Letters("b", "b")}
Zones == {Letters("a", "b"), Letters("b", "a")}
=============================================================================
