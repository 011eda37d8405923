------------------------------ MODULE Completion ------------------------------
(***************************************************************************)
(* cliComplete: what Tab makes of a line of the telnet console.  A line is *)
(* a sequence of characters, a word one without spaces; the tables of the  *)
(* commands, and the names of the zones, are constants.                    *)
(***************************************************************************)
EXTENDS Naturals, Sequences, FiniteSets, SequencesExt

CONSTANTS
  Printable,              \* ordinary characters, a space among them
  TopCommands,            \* cliTopCommands
  SubCommands,            \* cliSubCommands: a function from words to sets of words
  ZoneNames,              \* zoneNames()
  Check, Show, Zone, All  \* the words that the code looks at

Space == " "

Word == Seq(Printable \ {Space})
Table == TopCommands \cup {All} \cup ZoneNames \cup (UNION {SubCommands[c] : c \in DOMAIN SubCommands})

\* What can be completed are words, and no end of them comes up.
ASSUME TablesAssumption == Space \in Printable /\ Table \subseteq Word /\ IsFiniteSet(Table)

(***************************************************************************)
(* The words before the last one, and the last one, which is empty when    *)
(* the line ends with a space: of a line that goes on with c.              *)
(***************************************************************************)
SplitNext(words, c) ==
  CASE c # Space -> [words EXCEPT !.prefix = Append(@, c)]
    [] c = Space /\ words.prefix = <<>> -> words
    [] OTHER -> [fields |-> Append(words.fields, words.prefix), prefix |-> <<>>]

Split(line) ==
  LET upTo[i \in 0 .. Len(line)] ==
        IF i = 0 THEN [fields |-> <<>>, prefix |-> <<>>] ELSE SplitNext(upTo[i - 1], line[i])
  IN  upTo[Len(line)]

MatchPrefix(options, prefix) == {o \in options : IsPrefix(prefix, o)}

\* Mutant: one of the candidates, for all of them.
CommonPrefixFirst(items) == CHOOSE item \in items : TRUE

CommonPrefix(items) == LongestCommonPrefix(items)

Options(fields) ==
  CASE Len(fields) = 0 -> TopCommands
    [] Len(fields) = 1 /\ fields[1] = Check -> {All} \cup ZoneNames
    [] Len(fields) = 1 /\ fields[1] # Check /\ fields[1] \in DOMAIN SubCommands ->
         SubCommands[fields[1]]
    [] fields = <<Show, Zone>> -> ZoneNames
    [] OTHER -> {}

\* The fields with a space behind each.
WithField(line, field) == line \o Append(field, Space)

Spaced(fields) ==
  LET upTo[i \in 0 .. Len(fields)] ==
        IF i = 0 THEN <<>> ELSE WithField(upTo[i - 1], fields[i])
  IN  upTo[Len(fields)]

Join(fields, word) == Spaced(fields) \o word

CliComplete(line) ==
  LET words == Split(line)
      candidates == MatchPrefix(Options(words.fields), words.prefix)
      token == CommonPrefix(candidates)
  IN  [candidates |-> candidates,
       line |-> CASE candidates = {} -> line
                  [] Cardinality(candidates) = 1 -> Join(words.fields, token) \o <<Space>>
                  [] OTHER -> Join(words.fields, token)]
=============================================================================
