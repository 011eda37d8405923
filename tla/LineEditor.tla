------------------------------ MODULE LineEditor ------------------------------
(***************************************************************************)
(* The line editor of the telnet console, lineEditor, one input byte at a  *)
(* time, together with the screen of its client: the local console, which  *)
(* removes telnet commands from what it prints, on a terminal of which the *)
(* current row is modelled.  The editor never sees the screen and must     *)
(* keep in step with it by what it writes; commands and log records write  *)
(* to it too.                                                              *)
(*                                                                         *)
(* Bytes that the code treats alike are one key here; the ones it ignores  *)
(* (control characters, Ctrl-D in a line) are no step.  A character is one *)
(* byte and one column, and a row is wide enough.                          *)
(***************************************************************************)
EXTENDS Completion

CONSTANTS
  MaxLine,     \* bound: length of a line that is typed
  MaxSubmit,   \* bound: length of a line that is submitted
  MaxHistory   \* bound: number of lines submitted, unlimited in the code

IAC == "iac"   \* the byte 255

ASSUME BoundAssumption == {MaxLine, MaxSubmit, MaxHistory} \subseteq Nat

VARIABLES
  pc,        \* what the next byte is read as, or what the session does instead
  buf,
  history,
  histPos,   \* index into history, from 0; Len(history) when not browsing
  screen,    \* the client: the current row, the column of the cursor, and
             \* how far it is in a telnet command, or "lost"
  drawn      \* history variable: no log record since the line was drawn

vars == <<pc, buf, history, histPos, screen, drawn>>

Chars == Printable \cup {IAC}
Prompt == <<">", Space>>

\* Other bytes than characters in what is written.
BS == "bs"
CR == "cr"
LF == "lf"
BEL == "bel"
SB == "sb"
SE == "se"
Negotiation == {"will", "wont", "do", "dont"}
Echo == "echo"
SGA == "sga"
Option == {Echo, SGA, "other"}

\* What a line holds is printed as it is.
ASSUME PrintableAssumption == Printable \cap {IAC, BS, CR, LF, BEL} = {}

\* The terminal gets one byte.
Put(scr, b) ==
  CASE b = BS  -> [scr EXCEPT !.col = IF @ > 0 THEN @ - 1 ELSE 0]
    [] b = CR  -> [scr EXCEPT !.col = 0]
    [] b = LF  -> [scr EXCEPT !.row = <<>>]
    [] b = BEL -> scr
    [] OTHER   ->
         [scr EXCEPT !.row = [i \in 1 .. Max({Len(scr.row), scr.col + 1}) |->
                                CASE i = scr.col + 1 -> b
                                  [] i # scr.col + 1 /\ i <= Len(scr.row) -> scr.row[i]
                                  [] OTHER -> Space],
                     !.col = @ + 1]

\* No longer followed: a data byte 255 has been in a line.
Lost == [row |-> <<>>, col |-> 0, iac |-> "lost"]

\* relayConnToStdout prints what is no telnet command.
Relay(scr, b) ==
  CASE scr.iac = "lost" -> scr
    [] scr.iac = "no" -> IF b = IAC THEN [scr EXCEPT !.iac = "command"] ELSE Put(scr, b)
    [] scr.iac = "command" ->
         CASE b \in Negotiation -> [scr EXCEPT !.iac = "option"]
           [] b = SB -> [scr EXCEPT !.iac = "sub"]
           [] b = IAC -> Put([scr EXCEPT !.iac = "no"], b)
           [] OTHER -> [scr EXCEPT !.iac = "no"]
    [] scr.iac = "option" -> [scr EXCEPT !.iac = "no"]
    [] scr.iac = "sub" -> [scr EXCEPT !.iac = IF b = IAC THEN "subiac" ELSE "sub"]
    [] scr.iac = "subiac" -> [scr EXCEPT !.iac = IF b = SE THEN "no" ELSE "sub"]

\* Mutant: lines end as the daemon writes them.
NoneBare(bytes, i) == FALSE

\* crlfConn.Write puts a CR before a bare LF.
Bare(bytes, i) == bytes[i] = LF /\ (i = 1 \/ bytes[i - 1] # CR)

\* The client gets byte i.
Receive(scr, bytes, i) ==
  Relay(IF Bare(bytes, i) THEN Relay(scr, CR) ELSE scr, bytes[i])

Written(scr, bytes) ==
  LET upTo[i \in 0 .. Len(bytes)] ==
        IF i = 0 THEN scr ELSE Receive(upTo[i - 1], bytes, i)
  IN  upTo[Len(bytes)]

Write(bytes) == screen' = Written(screen, bytes)

Spaces(n) == [i \in 1 .. n |-> Space]

\* A line that a command or the log writes.
OutputLine == <<"x", LF>>

\* negotiateTelnet, the welcome and the first prompt.
Greeting ==
  <<IAC, "will", Echo>> \o <<IAC, "will", SGA>> \o <<IAC, "do", SGA>> \o OutputLine \o Prompt

Init ==
  /\ pc = "char"
  /\ buf = <<>> /\ history = <<>> /\ histPos = 0
  /\ screen = Written([row |-> <<>>, col |-> 0, iac |-> "no"], Greeting)
  /\ drawn = TRUE

Reading == pc = "char"

-----------------------------------------------------------------------------
(* ReadLine.                                                                *)

\* Mutant: the rest of a longer line stays on the screen.
SetLineUnpadded(line) ==
  /\ buf' = line /\ drawn' = TRUE
  /\ Write(<<CR>> \o Prompt \o line)

\* Replaces the line in the buffer and on the screen.
SetLine(line) ==
  /\ buf' = line /\ drawn' = TRUE
  /\ LET pad == IF Len(buf) > Len(line) THEN Len(buf) - Len(line) ELSE 0
     IN  Write(<<CR>> \o Prompt \o line \o Spaces(pad) \o <<CR>> \o Prompt \o line)

Type(c) ==
  /\ Reading /\ Len(buf) < MaxLine
  /\ buf' = Append(buf, c)
  /\ Write(<<c>>)
  /\ UNCHANGED <<pc, history, histPos, drawn>>

Backspace ==
  /\ Reading /\ buf # <<>>
  /\ buf' = Front(buf)
  /\ Write(<<BS, Space, BS>>)
  /\ UNCHANGED <<pc, history, histPos, drawn>>

Blank(line) == \A i \in DOMAIN line : line[i] = Space

\* Mutant: every line goes into the history.
RememberAll(line) == Append(history, line)

\* Blank lines and repetitions of the last line are not remembered.
Remember(line) ==
  IF Blank(line) \/ (history # <<>> /\ Last(history) = line)
    THEN history ELSE Append(history, line)

\* CR, LF, or both; the session then waits for its command.
Enter ==
  /\ Reading
  /\ Len(history) < MaxHistory /\ Len(buf) <= MaxSubmit
  /\ pc' = "waiting"
  /\ history' = Remember(buf)
  /\ Write(<<CR, LF>>)
  /\ UNCHANGED <<buf, histPos, drawn>>

CommandOutput ==
  /\ pc = "waiting"
  /\ Write(OutputLine)
  /\ UNCHANGED <<pc, buf, history, histPos, drawn>>

\* The next ReadLine begins.
NextPrompt ==
  /\ pc = "waiting"
  /\ pc' = "char"
  /\ buf' = <<>> /\ histPos' = Len(history)
  /\ Write(Prompt) /\ drawn' = TRUE
  /\ UNCHANGED history

\* Any goroutine logs.
LogRecord ==
  /\ pc # "closed"
  /\ Write(OutputLine) /\ drawn' = FALSE
  /\ UNCHANGED <<pc, buf, history, histPos>>

\* Ctrl-D on an empty line, "quit", or a connection that broke.
Quit ==
  /\ pc # "closed"
  /\ pc' = "closed"
  /\ UNCHANGED <<buf, history, histPos, screen, drawn>>

\* Tab or "?".
Complete ==
  /\ Reading
  /\ LET answer == CliComplete(buf)
     IN  CASE answer.candidates = {} -> Write(<<BEL>>) /\ UNCHANGED <<buf, drawn>>
           [] Cardinality(answer.candidates) = 1 /\ answer.line = buf ->
                UNCHANGED <<buf, screen, drawn>>
           [] Cardinality(answer.candidates) = 1 /\ answer.line # buf -> SetLine(answer.line)
           [] OTHER -> /\ buf' = answer.line /\ drawn' = TRUE
                       /\ Write(<<CR, LF, "x", CR, LF>> \o Prompt \o answer.line)
  /\ UNCHANGED <<pc, history, histPos>>

-----------------------------------------------------------------------------
(* handleEscape: ESC [ A and ESC [ B browse the history.                    *)

Swallow(from, to) ==
  /\ pc \in from
  /\ pc' \in to
  /\ UNCHANGED <<buf, history, histPos, screen, drawn>>

Escape == Swallow({"char"}, {"esc"})
AfterEscape == Swallow({"esc"}, {"csi", "char"})   \* "[", or any other byte
OtherArrow == Swallow({"csi"}, {"char"})

\* Mutant: no upper limit.
BrowsedUnlimited(delta) ==
  CASE delta = "up"   -> IF histPos > 0 THEN histPos - 1 ELSE 0
    [] delta = "down" -> histPos + 1

Browsed(delta) ==
  CASE delta = "up"   -> IF histPos > 0 THEN histPos - 1 ELSE 0
    [] delta = "down" -> IF histPos < Len(history) THEN histPos + 1 ELSE Len(history)

HistoryMove(delta) ==
  /\ pc = "csi"
  /\ pc' = "char"
  /\ IF history = <<>>
       THEN UNCHANGED <<buf, histPos, screen, drawn>>
       ELSE /\ histPos' = Browsed(delta)
            /\ SetLine(IF histPos' < Len(history) THEN history[histPos' + 1] ELSE <<>>)
  /\ UNCHANGED history

-----------------------------------------------------------------------------
(* handleTelnetCommand: what follows an IAC byte.                           *)

\* IAC and the command: WILL, DO, another negotiation, SB, or none of these.
TelnetCommand ==
  \/ Swallow({"char"}, {"iac"})
  \/ Swallow({"iac"}, {"will", "do", "wont", "sub", "char"})

\* The option of a negotiation; what the editor supports is agreed to.
TelnetOption(option) ==
  /\ pc \in {"will", "do", "wont"}
  /\ pc' = "char"
  /\ CASE pc = "do" -> Write(<<IAC, IF option \in {Echo, SGA} THEN "will" ELSE "wont", option>>)
       [] pc = "will" -> Write(<<IAC, "dont", option>>)
       [] pc = "wont" -> UNCHANGED screen
  /\ UNCHANGED <<buf, history, histPos, drawn>>

\* A subnegotiation is discarded up to IAC SE.
Subnegotiation ==
  \/ Swallow({"sub"}, {"subiac"})
  \/ Swallow({"subiac"}, {"sub", "char"})

\* IAC IAC: the data byte 255 goes into the line.  It is not shown, and whenever
\* the line is drawn the client takes it for the beginning of a telnet command.
LiteralFF ==
  /\ pc = "iac" /\ Len(buf) < MaxLine
  /\ pc' = "char"
  /\ buf' = Append(buf, IAC) /\ screen' = Lost
  /\ UNCHANGED <<history, histPos, drawn>>

Next ==
  \/ \E c \in Printable : Type(c)
  \/ Backspace \/ Enter \/ CommandOutput \/ NextPrompt \/ LogRecord \/ Quit \/ Complete
  \/ Escape \/ AfterEscape \/ OtherArrow
  \/ \E delta \in {"up", "down"} : HistoryMove(delta)
  \/ TelnetCommand \/ Subnegotiation \/ LiteralFF
  \/ \E option \in Option : TelnetOption(option)

Spec == Init /\ [][Next]_vars

-----------------------------------------------------------------------------
\* What can be seen.
Glyph == Printable \cup {">", "x"}

TypeOK ==
  /\ pc \in {"char", "waiting", "esc", "csi", "iac", "will", "do", "wont", "sub", "subiac", "closed"}
  /\ buf \in Seq(Chars)
  /\ history \in Seq(Seq(Chars)) /\ Len(history) <= MaxHistory
  /\ histPos \in 0 .. Len(history)
  /\ screen \in [row : Seq(Glyph), col : Nat, iac : {"no", "lost"}]
  /\ drawn \in BOOLEAN

Shown == Prompt \o buf

(***************************************************************************)
(* The terminal shows the prompt and the line that Enter would submit,     *)
(* with nothing but spaces behind it, and the cursor is at its end:        *)
(* "the cursor is always kept at the end of the line".  Commands, and what *)
(* is negotiated, leave no trace; a log record does until the line is      *)
(* drawn again, and an escaped data byte 255 from then on.                 *)
(***************************************************************************)
ScreenShowsLine == pc \notin {"waiting", "closed"} /\ drawn /\ screen # Lost =>
  /\ screen.col = Len(Shown) /\ screen.iac = "no"
  /\ IsPrefix(Shown, screen.row)
  /\ Blank(SubSeq(screen.row, Len(Shown) + 1, Len(screen.row)))

(***************************************************************************)
(* Tab keeps the words that were typed and completes the last one as far   *)
(* as all candidates agree: pressed again it finds the same candidates and *)
(* changes nothing, unless there was one only.                             *)
(***************************************************************************)
TabCompletes ==
  LET typed == Split(buf)
      answer == CliComplete(buf)
  IN  /\ \A word \in answer.candidates :
           IsPrefix(answer.line, Join(typed.fields, word) \o <<Space>>)
      /\ Cardinality(answer.candidates) > 1 => CliComplete(answer.line) = answer
      /\ answer.candidates # {} =>
           IsPrefix(Join(typed.fields, typed.prefix), answer.line)

\* Up always brings another line: no blank ones and no two equal neighbours.
HistoryClean ==
  /\ \A i \in DOMAIN history : ~Blank(history[i])
  /\ \A i \in 1 .. Len(history) - 1 : history[i] # history[i + 1]
=============================================================================
