----------------------------- MODULE LineEditor -----------------------------
(***************************************************************************)
(* The line a user types at stormd's SSH shell: what ssh.rs makes of each  *)
(* chunk of bytes it is sent, what it echoes, and what Tab completes       *)
(* (shell/mod.rs, complete).  A line and a name are sequences of           *)
(* characters, a name's of one byte each; `shown' is what stands after the *)
(* prompt.  A character of several bytes is echoed byte by byte, so that   *)
(* it shows as itself, while each byte becomes a character of the line.    *)
(* The shell keeps a history of lines, and never looks at it.              *)
(***************************************************************************)
EXTENDS Integers, Sequences, FiniteSets

CONSTANTS
  Typed,         \* the printable characters of ASCII that are typed, "/" and " " among them
  Wide,          \* others
  LatinOf,       \* the characters of Latin-1 that the bytes of each of these are
  Builtins,      \* ALL_COMMANDS
  Leaving,       \* those that end the session: exit, logout, quit
  ProcessCmds,   \* those that take the name of a process
  Systemctl,     \* the one that takes a subcommand first
  Subcommands,   \* these
  FileCmds,      \* those that take paths
  ProcessNames,  \* the processes
  HereDir,       \* the entries of the current directory
  RootDir,       \* those of "/"
  SubDirs,       \* the directories in either
  SubEntries,    \* what each of those holds
  MaxTyped       \* bound on the length of the line that is typed on or completed

BLANK == " "
SLASH == "/"

ASSUME LineEditorAssumption ==
  /\ {SLASH, BLANK} \subseteq Typed /\ Typed \cup Wide \subseteq STRING
  /\ LatinOf \in [Wide -> Seq(STRING)]
  /\ Leaving \cup ProcessCmds \cup FileCmds \cup {Systemctl} \subseteq Builtins
  /\ Builtins \cup Subcommands \cup ProcessNames \cup HereDir \cup RootDir \subseteq Seq(STRING)
  /\ \A d \in SubDirs : SubEntries[d] \subseteq Seq(STRING)
  /\ MaxTyped \in Nat

Special == {"enter", "backspace", "ctrl-c", "ctrl-d", "tab", "other"}
Keys == Typed \cup Wide \cup Special

VARIABLE terminal   \* the channel's line_buffer, what is shown, whether the line has had a
                    \* wide character since it was last shown whole, and what the last key
                    \* was: a Tab that completed a word, and of which line, or none
terminalVars == <<terminal>>

NoTab == [of |-> <<>>, to |-> {}]
NewTerminal == [open |-> TRUE, line |-> <<>>, shown |-> <<>>, wide |-> FALSE, returned |-> FALSE, tab |-> NoTab]

-----------------------------------------------------------------------------
(* complete.                                                                 *)

\* split_whitespace: where its words begin, the first and the last of them.
WordStarts(line) == {i \in 1..Len(line) : line[i] # BLANK /\ (i = 1 \/ line[i - 1] = BLANK)}
WordAt(line, i) ==
  SubSeq(line, i, CHOOSE j \in i..Len(line) : /\ \A k \in i..j : line[k] # BLANK
                                              /\ j = Len(line) \/ line[j + 1] = BLANK)
FirstTyped(line) == WordAt(line, CHOOSE i \in WordStarts(line) : \A j \in WordStarts(line) : i <= j)
LastTyped(line) ==
  IF WordStarts(line) = {} THEN <<>>
  ELSE WordAt(line, CHOOSE i \in WordStarts(line) : \A j \in WordStarts(line) : i >= j)

Prefixes(prefix, name) == Len(prefix) <= Len(name) /\ SubSeq(name, 1, Len(prefix)) = prefix
StartingWith(names, prefix) == {n \in names : Prefixes(prefix, n)}

\* Path::parent and file_name, but for "." and "..": slashes at the end count for
\* nothing, and "" is no directory.
Bare(path) ==
  LET kept == {i \in 1..Len(path) : path[i] # SLASH}
  IN IF kept = {} THEN <<>> ELSE SubSeq(path, 1, CHOOSE i \in kept : \A j \in kept : i >= j)
Cuts(path) == {i \in 1..Len(Bare(path)) : path[i] = SLASH}
LastCut(path) == IF Cuts(path) = {} THEN 0 ELSE CHOOSE i \in Cuts(path) : \A j \in Cuts(path) : i >= j
FileName(path) == SubSeq(Bare(path), LastCut(path) + 1, Len(Bare(path)))
ParentDir(path) == LET dir == SubSeq(path, 1, LastCut(path))
                  IN IF Bare(dir) = <<>> /\ Head(path) = SLASH THEN <<SLASH>> ELSE Bare(dir)

EntriesOf(dir) ==
  IF dir = <<SLASH>> THEN RootDir
  ELSE LET name == IF dir # <<>> /\ Head(dir) = SLASH THEN Tail(dir) ELSE dir
       IN IF name \in SubDirs THEN SubEntries[name] ELSE {}

\* A directory's name ends in a slash; that of "/" is one already.
WithSlash(name) == IF name \in SubDirs THEN Append(name, SLASH) ELSE name
PathsFor(prefix) ==
  IF \E i \in 1..Len(prefix) : prefix[i] = SLASH
  THEN {ParentDir(prefix) \o <<SLASH>> \o WithSlash(n) :
          n \in StartingWith(EntriesOf(ParentDir(prefix)), FileName(prefix))}
  ELSE {WithSlash(n) : n \in StartingWith(HereDir, prefix)}

Completions(line) ==
  IF Cardinality(WordStarts(line)) <= 1 THEN StartingWith(Builtins, LastTyped(line))
  ELSE IF FirstTyped(line) = Systemctl /\ Cardinality(WordStarts(line)) = 2
  THEN StartingWith(Subcommands, LastTyped(line))
  ELSE IF FirstTyped(line) \in ProcessCmds \cup {Systemctl}
  THEN StartingWith(ProcessNames, LastTyped(line))
  ELSE IF FirstTyped(line) \in FileCmds THEN PathsFor(LastTyped(line))
  ELSE {}

-----------------------------------------------------------------------------
(* data: one byte after the other.                                           *)

\* Enter runs the line, and the rest of the chunk is lost.
Entered(t) ==
  [NewTerminal EXCEPT !.open = WordStarts(t.line) = {} \/ FirstTyped(t.line) \notin Leaving,
                      !.returned = TRUE]

\* A character of the line and a column of the screen, the same or not.
AllButLast(s) == IF s = <<>> THEN s ELSE SubSeq(s, 1, Len(s) - 1)
Erased(t) ==
  IF t.line = <<>> THEN t ELSE [t EXCEPT !.line = AllButLast(@), !.shown = AllButLast(@)]

EndOfInput(t) == IF t.line = <<>> THEN [t EXCEPT !.open = FALSE, !.returned = TRUE] ELSE t

\* The word's rest is added to the line, whatever stands between; a name shorter than
\* the word, which had a slash too many, ends the connection's task.
CompletedWith(t, name) ==
  LET typed == Len(LastTyped(t.line))
      rest == Append(SubSeq(name, typed + 1, Len(name)), BLANK)
  IN IF typed > Len(name) THEN [t EXCEPT !.open = FALSE, !.returned = TRUE]
     ELSE [t EXCEPT !.line = @ \o rest, !.shown = @ \o rest, !.tab = [of |-> t.line, to |-> {name}]]

\* The line is not shown again.
BugListedAgain(t) == [t EXCEPT !.shown = <<>>, !.returned = TRUE]

\* The names are listed, and after the prompt comes the line again.
ListedAgain(t) == [t EXCEPT !.shown = t.line, !.wide = FALSE, !.returned = TRUE]

TabPressed(t) ==
  LET names == Completions(t.line)
  IN IF names = {} THEN t
     ELSE IF Cardinality(names) = 1 THEN CompletedWith(t, CHOOSE n \in names : TRUE)
     ELSE ListedAgain(t)

\* Each byte of it is pushed as a character and echoed as a byte.
WideTyped(t, key) == [t EXCEPT !.line = @ \o LatinOf[key], !.shown = Append(@, key), !.wide = TRUE]

Key(t, key) ==
  LET u == [t EXCEPT !.tab = NoTab]
  IN IF t.returned THEN t
     ELSE IF key \in Typed THEN [u EXCEPT !.line = Append(@, key), !.shown = Append(@, key)]
     ELSE IF key \in Wide THEN WideTyped(u, key)
     ELSE CASE key = "enter" -> Entered(u)
       [] key = "backspace" -> Erased(u)
       [] key = "ctrl-c" -> [NewTerminal EXCEPT !.returned = TRUE]
       [] key = "ctrl-d" -> EndOfInput(u)
       [] key = "tab" -> TabPressed(u)
       [] OTHER -> u

Longer(key) ==
  IF key \in Wide THEN Len(LatinOf[key]) ELSE IF key \in Typed THEN 1 ELSE 0

\* A chunk of one key, or of two.
Data ==
  /\ terminal.open
  /\ \E key \in Keys :
       \/ /\ Len(terminal.line) + Longer(key) <= MaxTyped
          /\ terminal' = [Key(terminal, key) EXCEPT !.returned = FALSE]
       \/ \E next \in Keys :
            /\ Len(terminal.line) + Longer(key) + Longer(next) <= MaxTyped
            /\ terminal' = [Key(Key(terminal, key), next) EXCEPT !.returned = FALSE]

LineEditorInit == terminal = NewTerminal
LineEditorNext == Data

LineEditorSpec == LineEditorInit /\ [][LineEditorNext]_terminalVars

-----------------------------------------------------------------------------
(* Properties.                                                               *)

\* The type invariant.
LineEditorTypeOK ==
  /\ terminal.line \in Seq(STRING) /\ terminal.shown \in Seq(STRING)
  /\ terminal.open \in BOOLEAN /\ terminal.wide \in BOOLEAN /\ terminal.returned = FALSE

\* README.md:972, "Tab completion (commands, process names, paths)".  What is shown
\* after the prompt is the line that Enter will run, whatever was erased, completed or
\* listed on the way, but for a line with a character outside ASCII that was typed since
\* the line was begun or listed (`byte as char` makes two or more of it); and a word that
\* Tab has completed is the name that it stood for, but for a word that a blank follows,
\* a path in "/", one with two slashes together or at the end, and a name with a blank
\* in it.
PlainWord(of) ==
  LET word == LastTyped(of)
  IN /\ of # <<>> /\ of[Len(of)] \notin {BLANK, SLASH} /\ (word[1] = SLASH => ParentDir(word) # <<SLASH>>)
     /\ \A i \in 2..Len(word) : word[i] = SLASH => word[i - 1] # SLASH
OneWord(name) == \A i \in 1..Len(name) : name[i] # BLANK

LineIsSeen ==
  /\ terminal.wide \/ terminal.shown = terminal.line
  /\ \A name \in terminal.tab.to :
       PlainWord(terminal.tab.of) /\ OneWord(name) => LastTyped(terminal.line) = name
=============================================================================
