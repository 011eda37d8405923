-------------------------------- MODULE Checks --------------------------------
(***************************************************************************)
(* The parts that run on their own, side by side: checkZone, which the     *)
(* daemon calls, the other check programs, and the generators of Icinga's  *)
(* configuration.  A behaviour is one of them, chosen at the start; they   *)
(* share the program counter, the statuses of the command line and the     *)
(* exit status.                                                            *)
(***************************************************************************)
EXTENDS MonitoringResult, Sequences

VARIABLES program, pc, check, exit

-----------------------------------------------------------------------------
(* CheckZone                                                                *)
CONSTANTS Servers, MaxTries, MaxSerial
ASSUME ZoneAssumption == MaxTries \in Nat \ {0} /\ MaxSerial \in Nat \ {0}

VARIABLES dnsnode, target, nsList, pending, ix, answers, output, sites, verdict
Zone == INSTANCE CheckZone

-----------------------------------------------------------------------------
(* NtpPeers                                                                 *)
CONSTANTS PeerLists, Jitters, MaxOffset, MaxJitter
Peer == [selected : BOOLEAN, down : BOOLEAN, offset : Int, jitter : Int]
ASSUME PeersAssumption == PeerLists \subseteq Seq(Peer) /\ Jitters \subseteq Int

VARIABLES source, peers, at, status, selected, up
Ntp == INSTANCE NtpPeers

-----------------------------------------------------------------------------
(* BecsScopes                                                               *)
CONSTANTS DhcpScopes, BadOids, ScopeOpts, Answers, FreeWarning, FreeCritical
ASSUME ScopesAssumption ==
  /\ DhcpScopes \in Seq(STRING)
  /\ \A opts \in ScopeOpts : opts.scopes \in Seq(STRING)

VARIABLES scopeOpts, todo, sessionID, opened, results, overall, installed, sent
Becs == INSTANCE BecsScopes

-----------------------------------------------------------------------------
(* Gonemaster                                                               *)
CONSTANTS GoneZones, Requests, Reports
TestResult == [module : STRING, testcase : STRING, level : STRING]
ASSUME ReportsAssumption == Reports \subseteq Seq(TestResult)

VARIABLES requested, notifyNagios, left, checkErr, failed, printed, zone, test, worst, reported
Gone == INSTANCE Gonemaster

-----------------------------------------------------------------------------
(* ImapMessageAge                                                           *)
CONSTANTS Folders, Undated, Buffer, AgeWarning, AgeCritical
ASSUME FoldersAssumption == Undated \in Int /\ Folders \subseteq Seq({a \in Int : a <= Undated})

VARIABLES folder, arriving, messages, closed, fetch, fetchErr, oldest, count
Imap == INSTANCE ImapMessageAge

-----------------------------------------------------------------------------
(* FileStatus                                                               *)
CONSTANTS MaxTime, AgeWarnings, AgeCriticals
ASSUME TimeAssumption == MaxTime \in Nat /\ AgeWarnings \subseteq Int /\ AgeCriticals \subseteq Int

VARIABLES limits, now, line, mtime, looked
File == INSTANCE FileStatus

-----------------------------------------------------------------------------
(* ServiceChecks                                                            *)
VARIABLES probe, local, address, responds, answer
Service == INSTANCE ServiceChecks

-----------------------------------------------------------------------------
(* IcingaConf                                                               *)
CONSTANTS Versions, Faults

VARIABLES kind, input, want, tmp, dest, loaded, missed
Icinga == INSTANCE IcingaConf

-----------------------------------------------------------------------------
zoneOwn == <<dnsnode, target, nsList, pending, ix, answers, output, sites, verdict>>
ntpOwn == <<source, peers, at, status, selected, up>>
becsOwn == <<scopeOpts, todo, sessionID, opened, results, overall, installed, sent>>
goneOwn == <<requested, notifyNagios, left, checkErr, failed, printed, zone, test, worst, reported>>
imapOwn == <<folder, arriving, messages, closed, fetch, fetchErr, oldest, count>>
fileOwn == <<limits, now, line, mtime, looked>>
serviceOwn == <<probe, local, address, responds, answer>>
icingaOwn == <<kind, input, want, tmp, dest, loaded, missed>>

vars == <<program, pc, check, exit,
          zoneOwn, ntpOwn, becsOwn, goneOwn, imapOwn, fileOwn, serviceOwn, icingaOwn>>

\* The variables of a program that does not run.
None == "none"

ZoneInit ==
  IF program = "zone" THEN Zone!CheckInit /\ exit = Running ELSE
  /\ dnsnode = None /\ target = None /\ nsList = None /\ pending = None /\ ix = None
  /\ answers = None /\ output = None /\ sites = Zone!Empty /\ verdict = None

NtpInit ==
  IF program = "ntp" THEN Ntp!Init ELSE
  source = None /\ peers = None /\ at = None /\ status = None /\ selected = None /\ up = None

BecsInit ==
  IF program = "becs" THEN Becs!Init ELSE
  /\ scopeOpts = None /\ todo = None /\ sessionID = None /\ opened = None
  /\ results = None /\ overall = None /\ installed = None /\ sent = None

GoneInit ==
  IF program = "gonemaster" THEN Gone!Init /\ check \in Remappings ELSE
  /\ requested = None /\ notifyNagios = None /\ left = None /\ checkErr = None
  /\ failed = None /\ printed = None /\ zone = None /\ test = None /\ worst = None
  /\ reported = None

ImapInit ==
  IF program = "imap" THEN Imap!Init ELSE
  /\ folder = None /\ arriving = None /\ messages = None /\ closed = None
  /\ fetch = None /\ fetchErr = None /\ oldest = None /\ count = None

FileInit ==
  IF program = "file" THEN File!Init ELSE
  limits = None /\ now = None /\ line = None /\ mtime = None /\ looked = None

ServiceInit ==
  IF program = "service" THEN Service!Init ELSE
  probe = None /\ local = None /\ address = None /\ responds = None /\ answer = None

\* The generators do not look at the statuses, and their process goes on.
IcingaInit ==
  IF program = "icinga" THEN Icinga!Init /\ check = Unmapped /\ exit = Running ELSE
  /\ kind = None /\ input = None /\ want = None /\ tmp = None /\ dest = None
  /\ loaded = None /\ missed = None

Init ==
  /\ program \in {"zone", "ntp", "becs", "gonemaster", "imap", "file", "service", "icinga"}
  /\ ZoneInit /\ NtpInit /\ BecsInit /\ GoneInit /\ ImapInit /\ FileInit /\ ServiceInit /\ IcingaInit

ZoneStep ==
  /\ program = "zone" /\ Zone!CheckNext
  /\ UNCHANGED <<program, exit, ntpOwn, becsOwn, goneOwn, imapOwn, fileOwn, serviceOwn, icingaOwn>>

NtpStep ==
  /\ program = "ntp" /\ Ntp!Next
  /\ UNCHANGED <<program, zoneOwn, becsOwn, goneOwn, imapOwn, fileOwn, serviceOwn, icingaOwn>>

BecsStep ==
  /\ program = "becs" /\ Becs!Next
  /\ UNCHANGED <<program, zoneOwn, ntpOwn, goneOwn, imapOwn, fileOwn, serviceOwn, icingaOwn>>

GoneStep ==
  /\ program = "gonemaster" /\ Gone!Next
  /\ UNCHANGED <<program, check, zoneOwn, ntpOwn, becsOwn, imapOwn, fileOwn, serviceOwn, icingaOwn>>

ImapStep ==
  /\ program = "imap" /\ Imap!Next
  /\ UNCHANGED <<program, zoneOwn, ntpOwn, becsOwn, goneOwn, fileOwn, serviceOwn, icingaOwn>>

FileStep ==
  /\ program = "file" /\ File!Next
  /\ UNCHANGED <<program, zoneOwn, ntpOwn, becsOwn, goneOwn, imapOwn, serviceOwn, icingaOwn>>

ServiceStep ==
  /\ program = "service" /\ Service!Next
  /\ UNCHANGED <<program, zoneOwn, ntpOwn, becsOwn, goneOwn, imapOwn, fileOwn, icingaOwn>>

IcingaStep ==
  /\ program = "icinga" /\ Icinga!Next
  /\ UNCHANGED <<program, check, exit, zoneOwn, ntpOwn, becsOwn, goneOwn, imapOwn, fileOwn, serviceOwn>>

Next ==
  \/ ZoneStep \/ NtpStep \/ BecsStep \/ GoneStep
  \/ ImapStep \/ FileStep \/ ServiceStep \/ IcingaStep

Spec == Init /\ [][Next]_vars /\ WF_vars(ZoneStep) /\ Imap!Fairness

-----------------------------------------------------------------------------
(* The properties of the modules, each of the runs of its program.            *)

\* The variables of checkZone, check_ntp_peers, check_becs_dhcp_scope and the
\* generators are of their types, those that say the same in two ways agree, and
\* a temporary file holds what its run has put there.
TypeOK ==
  /\ program = "zone" => Zone!CheckTypeOK /\ Zone!SitesFollowOutput
  /\ program = "ntp" => Ntp!TypeOK
  /\ program = "becs" => Becs!TypeOK
  /\ program = "icinga" => Icinga!TypeOK

\* checkZone: what its verdict says of the servers, and what the response times.
VerdictSound == program = "zone" => Zone!VerdictSound
ResponseTimesMeasure == program = "zone" => Zone!ResponseTimesMeasure

\* check_ntp_peers: the exit status tells how far the daemon can reach its peers,
\* with statuses as they are.
ExitTellsReachability == program = "ntp" => Ntp!ExitTellsReachability

\* check_becs_dhcp_scope: nothing is written or sent unless all scopes were
\* fetched; exit status and results are those the scopes call for.
AllOrNothing == program = "becs" => Becs!AllOrNothing
StatusesAgree == program = "becs" => Becs!StatusesAgree

\* check_gonemaster: every zone is handled, and what is sent of it is the worst.
ZonesReported == program = "gonemaster" => Gone!EveryZoneHandled /\ Gone!WorstLevelSent

\* check_imap_message_age: the whole folder is judged, or nothing.
WholeFolderJudged == program = "imap" => Imap!WholeFolderJudged

\* check_file_status, check_becs_dhcp_scope and the checks of a service: what OK
\* is said of when no other status is made OK.
NoFalseOk ==
  /\ program = "file" => File!FreshStatus
  /\ program = "becs" => Becs!OkMeansFetched
  /\ program = "service" => Service!OkMeansAnswered

\* The generators: success means that what was generated is installed, and, unless
\* a fault came between copy and reload, loaded; nothing else is ever loaded.
InstalledWhenOk == program = "icinga" => Icinga!InstalledWhenOk
LoadedUnlessMissed == program = "icinga" => Icinga!LoadedUnlessMissed
ReloadsInstalled == [][program = "icinga" => Icinga!LoadsInstalled]_vars

\* checkZone ends, whatever the network answers, and so does a check that has
\* started to fetch messages, whenever the fetch breaks off.
RunsEnd == Zone!CheckEnds /\ Imap!FetchTerminates

(***************************************************************************)
(* "Command line arguments, valid for all checks: --critical-as: How to    *)
(* return CRITICAL", and the same for WARNING and UNKNOWN: what a check    *)
(* tells Icinga is OK or one of the statuses of its command line.  (The    *)
(* status check_file_status finds in its file is not its own.)             *)
(***************************************************************************)
RemappingApplies ==
  LET Told == {OK, check.WARNING, check.CRITICAL, check.UNKNOWN}
  IN  /\ program = "zone" /\ verdict.given => verdict.code \in Told
      /\ program = "ntp" /\ exit # Running => exit \in Told
      /\ program = "becs" => \A i \in DOMAIN sent : sent[i].code \in Told
      /\ program = "gonemaster" => \A z \in DOMAIN reported : reported[z] \in Told
=============================================================================
