---------------------------- MODULE BootstrapLoader ----------------------------
(***************************************************************************)
(* mp_logger_bootstrap_load: one line of the file after the other, a       *)
(* current section, and a configuration that reaches the caller only when  *)
(* the whole file has been read (src/src/mp_logger_bootstrap.c:25-104,     *)
(* 153-381, 518-569).                                                      *)
(*                                                                         *)
(* A line is what fgets returns: a longer line of the file comes as two.   *)
(* Names and values are trimmed, unquoted and cut; no known name is long   *)
(* enough to be cut, so that an unknown one stays unknown.                 *)
(***************************************************************************)
EXTENDS Integers, Sequences, FiniteSetsExt

CONSTANTS
  TextKeys,    \* keys by section; a text is kept as it comes
  ChoiceKeys,  \* levels, booleans, the format and the build version
  SizeKeys,    \* decimal sizes
  PortKeys,    \* a decimal below 65536
  MaxLines     \* bound on the lines of the file

Root == ""
Sections == DOMAIN TextKeys

\* The chain of strcmps of a section gives each key to one parser.
ASSUME LoaderAssumption ==
  /\ Root \in Sections
  /\ \A s \in Sections :
       /\ TextKeys[s] \cap (ChoiceKeys[s] \cup SizeKeys[s] \cup PortKeys[s]) = {}
       /\ ChoiceKeys[s] \cap (SizeKeys[s] \cup PortKeys[s]) = {}
       /\ SizeKeys[s] \cap PortKeys[s] = {}

KeysOf(s) == TextKeys[s] \cup ChoiceKeys[s] \cup SizeKeys[s] \cup PortKeys[s]

ASSUME KeyAssumption == \A s \in Sections : "" \notin KeysOf(s)

\* A value after the loader has trimmed and unquoted it.  "nested" is a pair of
\* quotes inside quotes, which mp_logger_config_apply_override unquotes again.
Values == {"empty", "nested", "word", "number", "negative", "large", "other"}

\* What a value becomes: strtoull takes a sign and wraps.
Stored == Values \cup {"default", "wrapped"}

VARIABLES
  lpc,         \* "open", "reading", "OK" or "error"
  section,     \* current_section
  config,      \* the loader's own copy
  out_config,  \* the caller's
  read,        \* history: the lines so far
  cut          \* history: did a read error end them

loadVars == <<lpc, section, config, out_config, read, cut>>

Keys == UNION {KeysOf(s) : s \in Sections}
Setting == {<<s, k>> : s \in Sections, k \in Keys}
LineKeys == Keys \cup Sections \cup {"unknown"}

Line == [form : {"blank", "noColon"}, key : {""}, value : {"empty"}]
          \cup [form : {"pair"}, key : LineKeys, value : Values]

Defaults == [x \in Setting |-> "default"]

LoadInit ==
  /\ lpc = "open"
  /\ section = Root
  /\ config = Defaults
  /\ out_config = << >>
  /\ read = << >>
  /\ cut = FALSE

-------------------------------------------------------------------------------
\* mp_logger_apply_value, and the parser of the key: what is stored, if any.
Results(s, k, value) ==
  IF s \notin Sections THEN {}
  ELSE {v \in Stored :
         \/ k \in TextKeys[s] /\ v = IF value = "nested" THEN "empty" ELSE value
         \/ k \in ChoiceKeys[s] /\ value = "word" /\ v = "word"
         \/ k \in SizeKeys[s] /\ value \in {"number", "large"} /\ v = value
         \/ k \in SizeKeys[s] /\ value = "negative" /\ v = "wrapped"
         \/ k \in PortKeys[s] /\ value = "number" /\ v = "number"}

Reads(line) ==
  /\ lpc = "reading"
  /\ Len(read) < MaxLines
  /\ read' = Append(read, line)
  /\ UNCHANGED <<out_config, cut>>

Open ==
  /\ lpc = "open"
  /\ lpc' = "reading"
  /\ UNCHANGED <<section, config, out_config, read, cut>>

\* Not a YAML name, or no such file.
OpenFails ==
  /\ lpc = "open"
  /\ lpc' = "error"
  /\ UNCHANGED <<section, config, out_config, read, cut>>

\* A blank line or a comment.
SkipLine(line) ==
  /\ Reads(line)
  /\ line.form = "blank"
  /\ UNCHANGED <<lpc, section, config>>

\* Wrong: a section can only be entered from the root.
EnterSectionOnce(line) ==
  /\ Reads(line)
  /\ line.form = "pair" /\ line.value = "empty"
  /\ section' = IF section = Root THEN line.key ELSE section
  /\ UNCHANGED <<lpc, config>>

\* No value: the key, known or not, is the new section.
EnterSection(line) ==
  /\ Reads(line)
  /\ line.form = "pair" /\ line.value = "empty"
  /\ section' = line.key
  /\ UNCHANGED <<lpc, config>>

ApplyValue(line) ==
  /\ Reads(line)
  /\ line.form = "pair" /\ line.value # "empty" /\ line.key # ""
  /\ \E v \in Results(section, line.key, line.value) :
       config' = [config EXCEPT ![<<section, line.key>>] = v]
  /\ UNCHANGED <<lpc, section>>

Refused(line) ==
  \/ line.form = "noColon"
  \/ line.form = "pair" /\ line.value # "empty"
       /\ (line.key = "" \/ Results(section, line.key, line.value) = {})

\* Wrong: a line that is no good is passed over.
RefuseLineSkips(line) ==
  /\ Reads(line)
  /\ Refused(line)
  /\ UNCHANGED <<lpc, section, config>>

\* No colon, no key, an unknown section or key, or a value its parser refuses.
RefuseLine(line) ==
  /\ Reads(line)
  /\ Refused(line)
  /\ lpc' = "error"
  /\ UNCHANGED <<section, config>>

\* fgets returns NULL, at the end of the file ...
EndOfFile ==
  /\ lpc = "reading"
  /\ out_config' = config
  /\ lpc' = "OK"
  /\ UNCHANGED <<section, config, read, cut>>

\* ... or because it could not read on, which nobody asks ferror about: a disk
\* that fails, a directory with a YAML name.
ReadError ==
  /\ lpc = "reading"
  /\ out_config' = config
  /\ lpc' = "OK"
  /\ cut' = TRUE
  /\ UNCHANGED <<section, config, read>>

LoadNext ==
  \/ Open \/ OpenFails
  \/ \E line \in Line :
       SkipLine(line) \/ EnterSection(line) \/ ApplyValue(line) \/ RefuseLine(line)
  \/ EndOfFile \/ ReadError

LoadSpec == LoadInit /\ [][LoadNext]_loadVars

-------------------------------------------------------------------------------
(* What the documents say of a file, line by line of the whole: the        *)
(* sections and the types of keys of README.md:53-107.  The loader is      *)
(* checked against it; nothing here is taken from the loader.              *)

\* A known section opens with its name and nothing behind it.
IsHeader(i) ==
  read[i].form = "pair" /\ read[i].value = "empty"
    /\ read[i].key \in Sections \ {Root}

IsSetting(i) == read[i].form = "pair" /\ ~IsHeader(i)

\* The section a line stands in: that of the nearest header above it.
SectionAt(i) ==
  LET headers == {j \in 1 .. i - 1 : IsHeader(j)}
  IN  IF headers = {} THEN Root ELSE read[Max(headers)].key

\* What a value of a key says, if it is one the key can have.  A text may be
\* empty (README.md:77); a size is a decimal without a sign
\* (mp_logger_bootstrap.c:73); quotes are taken off once.
Means(s, k, value) ==
  {v \in Values :
     /\ v = value
     /\ \/ k \in TextKeys[s]
        \/ k \in ChoiceKeys[s] /\ v = "word"
        \/ k \in SizeKeys[s] /\ v \in {"number", "large"}
        \/ k \in PortKeys[s] /\ v = "number"}

MeansAt(i) == Means(SectionAt(i), read[i].key, read[i].value)

Good(i) ==
  \/ read[i].form = "blank"
  \/ IsHeader(i)
  \/ IsSetting(i) /\ MeansAt(i) # {}

\* The last line for a key in its section decides; without one, the default.
Says(s, k) ==
  LET lines == {i \in 1 .. Len(read) :
                  IsSetting(i) /\ SectionAt(i) = s /\ read[i].key = k}
  IN  IF lines = {} THEN {"default"} ELSE Means(s, k, read[Max(lines)].value)

\* The lines with which the loader does something else: any key without a value
\* is a header to it, known or not, so that an empty text is not set and an
\* unknown section not refused (mp_logger_bootstrap.c:552-554); a negative size
\* wraps (82-86); quotes are taken off twice (371, 551).
Misread(i) ==
  /\ IsSetting(i)
  /\ \/ read[i].value = "empty"
     \/ read[i].value = "negative" /\ read[i].key \in SizeKeys[SectionAt(i)]
     \/ read[i].value = "nested" /\ read[i].key \in TextKeys[SectionAt(i)]

\* From the first such line on the loader and the documents go different ways.
Parted(i) == \E j \in 1 .. i : Misread(j)

(* Properties.                                                             *)

\* A configuration that is handed out is what the lines say that were read,
\* sections entered twice and keys repeated included
\* (mp_logger_bootstrap.c:513-517), unless one of them is Misread.
LoadedIsWhatFileSays ==
  lpc = "OK" /\ ~Parted(Len(read)) =>
    /\ DOMAIN out_config = Setting
    /\ \A x \in Setting : Says(x[1], x[2]) = {out_config[x]}

\* Malformed lines reject the file, at the first of them, and nothing of it
\* reaches the caller (mp_logger_bootstrap.c:515-516); a file with no such line
\* is accepted.  Only a Misread line breaks either.
AllOrNothing ==
  /\ lpc = "OK" => \A i \in 1 .. Len(read) : Good(i) \/ Parted(i)
  /\ lpc = "error" =>
       /\ out_config = << >>
       /\ \A i \in 1 .. Len(read) : (Good(i) <=> i < Len(read)) \/ Parted(i)

\* What the documents promise of every file: "Unknown sections, unknown keys,
\* malformed values, and unreadable files are rejected" (include/mp_logger.h:184)
\* and what is loaded is what the file says.  It does not hold: after a read
\* error, and for every kind of Misread line.
LoadedAsDocumented ==
  lpc = "OK" =>
    /\ ~cut
    /\ \A i \in 1 .. Len(read) : Good(i)
    /\ \A x \in Setting : Says(x[1], x[2]) = {out_config[x]}
===============================================================================
