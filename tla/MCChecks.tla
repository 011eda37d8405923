------------------------------- MODULE MCChecks -------------------------------
(* Values of the constants of Checks for TLC.                                 *)
EXTENDS Checks

(* Statuses as they are, and a command line for each of them.                 *)
MCRemappings ==
  {Unmapped, [Unmapped EXCEPT !.CRITICAL = WARNING],
   [Unmapped EXCEPT !.WARNING = OK, !.UNKNOWN = WARNING]}

(* NtpPeers: offsets and jitters around the thresholds 1 and 2, and every     *)
(* list of up to two peers, of which at most one is selected.                 *)
MCRange == [start |-> 1, end |-> 2]
MCPeer == [selected : BOOLEAN, down : BOOLEAN, offset : {-3, 1}, jitter : {0, 2}]
MCPeerLists ==
  {<<>>} \cup {<<p>> : p \in MCPeer}
    \cup {list \in MCPeer \X MCPeer : ~(list[1].selected /\ list[2].selected)}

(* BecsScopes: free addresses below, at and above the limits 1 and 2; a       *)
(* scope without a prefix and one with two; one with an oid that is wrong.    *)
MCDhcpScopes == <<"a", "b", "x">>
MCScopeOpts == [scopes : {<<>>, <<"b", "a">>, <<"a", "c">>}, exclude : {{}, {"x"}, {"a", "x"}},
                icinga : BOOLEAN, file : BOOLEAN, nagios : BOOLEAN]
Prefix(f, a) == [free |-> f, assigned |-> a, excluded |-> 0]
MCAnswers == {<<>>, <<Prefix(0, 1)>>, <<Prefix(1, 1)>>, <<Prefix(1, 0), Prefix(1, 0)>>}

(* Gonemaster: two zones to check, with another exclusion each, one that is   *)
(* not, and a template.                                                       *)
Configured(t, e, x) == [template |-> t, enabled |-> e, exclude |-> x]
MCGoneZones == [z \in {"za", "zb", "zc", "_t"} |->
  CASE z = "za" -> Configured(FALSE, TRUE, {<<"m">>})
    [] z = "zb" -> Configured(FALSE, TRUE, {<<"m", "t1">>})
    [] z = "zc" -> Configured(FALSE, FALSE, {})
    [] z = "_t" -> Configured(TRUE, TRUE, {})]
MCRequests == {{}, {"za"}, {"zb", "zc"}, {"za", "zx"}}
MCResult == [module : {"m"}, testcase : {"t1"}, level : {"NOTICE", "ERROR"}]
              \cup [module : {"m", "n"}, testcase : {"t2"}, level : {"WARNING", "CRITICAL", "DEBUG"}]
MCReports == {<<>>} \cup {<<r>> : r \in MCResult} \cup MCResult \X MCResult

(* ImapMessageAge: more messages than the channel holds, in any order, below  *)
(* and above the limits 1 and 3, and without a date.                          *)
Ages == {0, 2, 4, Undated}
MCFolders == {<<>>} \cup {<<a>> : a \in Ages} \cup Ages \X Ages \X Ages
=============================================================================
