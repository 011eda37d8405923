---------------------------- MODULE ImapMessageAge ----------------------------
(***************************************************************************)
(* One run of check_imap_message_age: log in, select the folder, fetch the *)
(* dates of its messages and judge the oldest.                             *)
(*                                                                         *)
(* The fetch is a goroutine: it puts the messages into a channel as they   *)
(* arrive, closes it, and delivers its error on another.  It ends, if only *)
(* because the client's timeout expires.  The client library is modelled   *)
(* from how it is used.                                                    *)
(***************************************************************************)
EXTENDS MonitoringResult, SequencesExt, FiniteSetsExt

CONSTANTS
  Folders,     \* folders: what a fetch delivers, as lists of the ages of messages
  Undated,     \* the age of the zero time, which is before every other: no date
  Buffer,      \* capacity of the channel messages
  AgeWarning,  \* limits, in the unit of the ages
  AgeCritical

VARIABLES
  pc,
  check,     \* check.WARNING, check.CRITICAL, check.UNKNOWN
  folder,    \* history: the messages of the folder
  arriving,  \* messages the server has still to send
  messages,  \* the channel
  closed,    \* whether it is closed
  fetch,     \* the goroutine
  fetchErr,  \* the error it delivers
  oldest,    \* age of the oldest message received, or Undated
  count,
  exit       \* exit status of the process

imapVars == <<folder, arriving, messages, closed, fetch, fetchErr, oldest, count>>
vars == <<pc, check, exit, imapVars>>

Init ==
  /\ check \in Remappings
  /\ folder \in Folders
  /\ pc = "login"
  /\ arriving = folder
  /\ messages = <<>> /\ closed = FALSE
  /\ fetch = "none" /\ fetchErr = FALSE
  /\ oldest = Undated /\ count = 0
  /\ exit = Running

ExitWith(code) == pc' = "exited" /\ exit' = code

\* Credentials, connection, login or folder.
NoFolder ==
  /\ pc = "login"
  /\ ExitWith(check.UNKNOWN)
  /\ UNCHANGED <<check, imapVars>>

Select ==
  /\ pc = "login"
  /\ IF folder = <<>>
       THEN ExitWith(OK) /\ UNCHANGED fetch
       ELSE pc' = "receive" /\ fetch' = "running" /\ UNCHANGED exit
  /\ UNCHANGED <<check, folder, arriving, messages, closed, fetchErr, oldest, count>>

-----------------------------------------------------------------------------
(* The goroutine, which the end of the process ends.                        *)

Fetching == pc # "exited" /\ fetch = "running"

Arrives ==
  /\ Fetching
  /\ arriving # <<>> /\ Len(messages) < Buffer
  /\ messages' = Append(messages, Head(arriving))
  /\ arriving' = Tail(arriving)
  /\ UNCHANGED <<pc, check, exit, folder, closed, fetch, fetchErr, oldest, count>>

\* Mutant: the channel stays open.
FetchLeavesOpen ==
  /\ Fetching
  /\ fetchErr' = (arriving # <<>>)
  /\ fetch' = "ended"
  /\ UNCHANGED <<pc, check, exit, folder, arriving, messages, closed, oldest, count>>

\* All messages have arrived, or the connection fails or times out.
FetchEnds ==
  /\ Fetching
  /\ closed' = TRUE
  /\ fetchErr' \in {TRUE, arriving # <<>>}
  /\ fetch' = "ended"
  /\ UNCHANGED <<pc, check, exit, folder, arriving, messages, oldest, count>>

\* The channel done has room for its only value.
Deliver ==
  /\ pc # "exited" /\ fetch = "ended"
  /\ fetch' = "delivered"
  /\ UNCHANGED <<pc, check, exit, folder, arriving, messages, closed, fetchErr, oldest, count>>

-----------------------------------------------------------------------------
\* Mutant: the newest message is kept.
ReceiveNewest ==
  /\ pc = "receive" /\ messages # <<>>
  /\ messages' = Tail(messages)
  /\ count' = count + 1
  /\ oldest' = IF oldest = Undated \/ Head(messages) < oldest THEN Head(messages) ELSE oldest
  /\ UNCHANGED <<pc, check, exit, folder, arriving, closed, fetch, fetchErr>>

\* An item without a date takes the place of any, and any the place of it.
Receive ==
  /\ pc = "receive" /\ messages # <<>>
  /\ messages' = Tail(messages)
  /\ count' = count + 1
  /\ oldest' = IF oldest = Undated \/ Head(messages) > oldest THEN Head(messages) ELSE oldest
  /\ UNCHANGED <<pc, check, exit, folder, arriving, closed, fetch, fetchErr>>

\* for m := range messages
RangeEnds ==
  /\ pc = "receive" /\ messages = <<>> /\ closed
  /\ pc' = "done"
  /\ UNCHANGED <<check, exit, imapVars>>

Judgement(age) ==
  IF age > AgeCritical THEN check.CRITICAL
  ELSE IF age > AgeWarning THEN check.WARNING ELSE OK

Graded == IF count = 0 \/ oldest = Undated THEN OK ELSE Judgement(oldest)

\* Mutant: the error of the fetch is not looked at.
ExitWithout ==
  /\ pc = "done" /\ fetch = "delivered"
  /\ ExitWith(Graded)
  /\ UNCHANGED <<check, imapVars>>

\* <-done
Exit ==
  /\ pc = "done" /\ fetch = "delivered"
  /\ ExitWith(IF fetchErr THEN check.UNKNOWN ELSE Graded)
  /\ UNCHANGED <<check, imapVars>>

Next == NoFolder \/ Select \/ Arrives \/ FetchEnds \/ Deliver \/ Receive \/ RangeEnds \/ Exit

\* Both goroutines run; every command of the client ends within its timeout.
Fairness == WF_vars(FetchEnds) /\ WF_vars(Deliver) /\ WF_vars(Receive \/ RangeEnds \/ Exit)

Spec == Init /\ [][Next]_vars /\ Fairness

-----------------------------------------------------------------------------
\* The messages after the last one without a date, in the order of the fetch.
LastUndated == Max({0} \cup {i \in DOMAIN folder : folder[i] = Undated})
Dated == {folder[i] : i \in LastUndated + 1 .. Len(folder)}

(***************************************************************************)
(* A fetch that breaks off is never judged by the messages that came       *)
(* before: the check either exits as UNKNOWN, or with what the oldest of   *)
(* all the messages of the folder calls for.  Of the messages before one   *)
(* that comes without a date it takes no notice, and says OK if that was   *)
(* the last.                                                               *)
(***************************************************************************)
WholeFolderJudged == pc = "exited" /\ exit # check.UNKNOWN =>
  exit = IF Dated = {} THEN OK ELSE Judgement(Max(Dated))

\* The check ends: neither goroutine waits for the other for ever.
FetchTerminates == pc = "receive" ~> pc = "exited"
=============================================================================
