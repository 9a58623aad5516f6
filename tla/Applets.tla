------------------------------ MODULE Applets ------------------------------
(***************************************************************************)
(* The text applets of stormd's shell (shell/text.rs, and cat, head, tail  *)
(* and wc of shell/file.rs) as a pipe hands text from one to the next      *)
(* (shell/mod.rs, execute_command).                                        *)
(*                                                                         *)
(* A text is a sequence of lines, each ended by "\r\n"; a line is a        *)
(* sequence of bytes.  `text' is what the pipe holds, `before' what it     *)
(* held before the last applet, `ran' that applet and `status' its status. *)
(* The lines have no byte of two and no tab; a message for the user is the *)
(* line Message.                                                           *)
(***************************************************************************)
EXTENDS Integers, Sequences, FiniteSets
LOCAL INSTANCE SequencesExt

CONSTANTS
  Lines,      \* the lines a first text is made of
  Patterns,   \* what grep looks for and sed replaces
  MaxLines,   \* bound: lines of the first text
  MaxPipes    \* bound: applets of one pipe

NewLine == 10
Return  == 13
Blank   == 32
Pad     == 61
Colon   == 58
Digits  == 48..57
Message == <<33>>

VARIABLES text, before, ran, status, pipes
appletVars == <<text, before, ran, status, pipes>>

-----------------------------------------------------------------------------
(* What an applet sees of the pipe.  "\r\n" becomes "\n" and lines() takes *)
(* one more "\r" off the end of a line, which cat puts there.              *)

Content(t) ==
  [i \in DOMAIN t |-> IF t[i] # <<>> /\ Last(t[i]) = Return THEN Front(t[i]) ELSE t[i]]

(* lines.join("\r\n") + "\r\n": of no lines, it is one empty line. *)
Ended(t) == IF t = <<>> THEN << <<>> >> ELSE t

Cat(t) == [i \in DOMAIN t |-> Append(t[i], Return)]

(* The value sort -n gives a line: what is left of it without the blanks   *)
(* around it, if that is a number, and 0 otherwise.                        *)
Trim(line) ==
  LET inner == {i \in DOMAIN line : line[i] # Blank}
  IN IF inner = {} THEN <<>>
     ELSE SubSeq(line, CHOOSE i \in inner : \A j \in inner : i <= j,
                       CHOOSE i \in inner : \A j \in inner : i >= j)

Number(line) ==
  LET word == Trim(line)
  IN IF word # <<>> /\ ToSet(word) \subseteq Digits
     THEN FoldLeft(LAMBDA value, byte : 10 * value + byte - 48, 0, word) ELSE 0

(* The order of two lines byte by byte. *)
Smaller(a, b) ==
  \E n \in 0..Len(a) :
    /\ n < Len(b)
    /\ SubSeq(a, 1, n) = SubSeq(b, 1, n)
    /\ \/ n = Len(a)
       \/ n < Len(a) /\ a[n + 1] < b[n + 1]

Before(a, b, numeric) == IF numeric THEN Number(a) < Number(b) ELSE Smaller(a, b)

(* sort_by and sort keep the order of lines that compare equal. *)
StableSort(t, numeric) ==
  LET Place(i) == Cardinality({j \in DOMAIN t :
                      \/ Before(t[j], t[i], numeric)
                      \/ ~Before(t[i], t[j], numeric) /\ j <= i})
  IN [k \in DOMAIN t |-> t[CHOOSE i \in DOMAIN t : Place(i) = k]]

Dedup(t) ==
  FoldLeft(LAMBDA kept, line : IF kept # <<>> /\ Last(kept) = line THEN kept
                               ELSE Append(kept, line), <<>>, t)

(* BUG: the repeats are dropped before the lines are in order. *)
BugSort(t, o) ==
  LET lines  == IF o.unique THEN Dedup(Content(t)) ELSE Content(t)
      sorted == StableSort(lines, o.numeric)
  IN Ended(IF o.reverse THEN Reverse(sorted) ELSE sorted)

Sort(t, o) ==
  LET sorted  == StableSort(Content(t), o.numeric)
      ordered == IF o.reverse THEN Reverse(sorted) ELSE sorted
  IN Ended(IF o.unique THEN Dedup(ordered) ELSE ordered)

(* uniq -c: the first line of each run of equal lines and the run's length. *)
Starts(t) == {i \in DOMAIN t : i = 1 \/ t[i - 1] # t[i]}
RunLength(t, i) == Cardinality({j \in i..Len(t) : \A k \in i..j : t[k] = t[i]})
Uniq(t, counted) ==
  IF counted
  THEN LET lines == Content(t)
           order == SetToSortSeq(Starts(lines), <)
       IN [k \in DOMAIN order |->
             <<Blank, 48 + RunLength(lines, order[k]), Blank>> \o lines[order[k]]]
  ELSE Dedup(Content(t))

-----------------------------------------------------------------------------
Lowered(line) == [i \in DOMAIN line |-> IF line[i] \in 65..90 THEN line[i] + 32 ELSE line[i]]

Found(line, o) ==
  IF o.ignore THEN Lowered(o.pattern) \in SubSeqs(Lowered(line))
  ELSE o.pattern \in SubSeqs(line)

(* grep: the lines that match, or with -v those that do not; no line is    *)
(* status 1, with -c too.                                                  *)
Grep(t, o) ==
  LET lines == Content(t)
      taken == SetToSortSeq({i \in DOMAIN lines : Found(lines[i], o) # o.invert}, <)
      shown == CASE o.shows = "count"   -> << <<48 + Len(taken)>> >>
                 [] o.shows = "numbers" ->
                      [k \in DOMAIN taken |-> <<48 + taken[k], Colon>> \o lines[taken[k]]]
                 [] OTHER -> [k \in DOMAIN taken |-> lines[taken[k]]]
  IN [text |-> shown, status |-> IF taken = <<>> THEN 1 ELSE 0]

HeadOf(t, n) == LET lines == Content(t)
                IN Ended(SubSeq(lines, 1, IF n < Len(lines) THEN n ELSE Len(lines)))
TailOf(t, n) == LET lines == Content(t)
                IN Ended(SubSeq(lines, IF n < Len(lines) THEN Len(lines) - n + 1 ELSE 1, Len(lines)))

(* cut -f: "2" is field 2, "1-2" both, "2-" is field 2 alone, "-2" is both *)
(* and a range that runs backwards is no field.  Field 0 is field 1.       *)
FieldsOf(part) ==
  IF ~part.dash THEN <<part.from>>
  ELSE LET from == IF part.from = -1 THEN 1 ELSE part.from
           to   == IF part.to = -1 THEN from ELSE part.to
       IN [k \in 1..(IF to < from THEN 0 ELSE to - from + 1) |-> from + k - 1]

Split(line) ==
  LET ends == SetToSortSeq({0, Len(line) + 1} \cup {i \in DOMAIN line : line[i] = Colon}, <)
  IN [k \in 1..(Len(ends) - 1) |-> SubSeq(line, ends[k] + 1, ends[k + 1] - 1)]

JoinBy(parts) ==
  IF parts = <<>> THEN <<>>
  ELSE FoldLeft(LAMBDA line, part : Append(line, Colon) \o part, Head(parts), Tail(parts))

Picked(parts, fields) ==
  LET there == SelectSeq(fields, LAMBDA f : f <= Len(parts))
  IN [k \in DOMAIN there |-> parts[IF there[k] = 0 THEN 1 ELSE there[k]]]

Cut(t, o) ==
  LET fields == FlattenSeq([k \in DOMAIN o.spec |-> FieldsOf(o.spec[k])])
      lines  == Content(t)
  IN IF fields = <<>> THEN [text |-> <<Message>>, status |-> 2]
     ELSE [text   |-> [i \in DOMAIN lines |-> JoinBy(Picked(Split(lines[i]), fields))],
           status |-> 0]

(* tr: a byte past the end of `to' becomes its last one, and none if `to'  *)
(* is empty.                                                               *)
Translated(byte, o) ==
  IF ~Contains(o.from, byte) THEN <<byte>>
  ELSE LET at == SelectInSeq(o.from, LAMBDA b : b = byte)
       IN IF at <= Len(o.to) THEN <<o.to[at]>>
          ELSE IF o.to = <<>> THEN <<>> ELSE <<Last(o.to)>>

Tr(t, o) == [i \in DOMAIN t |-> FlattenSeq([k \in DOMAIN t[i] |-> Translated(t[i][k], o)])]

(* sed s: from the left, what was replaced is not looked at again; the     *)
(* pattern is the bytes themselves.                                        *)
ReplacedAt(line, i, pattern) ==
  /\ i + Len(pattern) - 1 <= Len(line)
  /\ SubSeq(line, i, i + Len(pattern) - 1) = pattern
Replaced(line, o) ==
  LET Step(s, byte) ==
        CASE s.skip > 0 -> [s EXCEPT !.at = @ + 1, !.skip = @ - 1]
          [] s.skip = 0 /\ s.more /\ ReplacedAt(line, s.at, o.pattern) ->
               [at |-> s.at + 1, skip |-> Len(o.pattern) - 1, more |-> o.global,
                out |-> s.out \o o.by]
          [] OTHER -> [s EXCEPT !.at = @ + 1, !.out = Append(@, byte)]
  IN FoldLeft(Step, [at |-> 1, skip |-> 0, more |-> TRUE, out |-> <<>>], line).out

Sed(t, o) == LET lines == Content(t) IN [i \in DOMAIN lines |-> Replaced(lines[i], o)]

Rev(t) == LET lines == Content(t) IN [i \in DOMAIN lines |-> Reverse(lines[i])]

-----------------------------------------------------------------------------
(* base64: three bytes are four letters; the end is padded. *)
Letter(n) == CASE n < 26 -> 65 + n [] n \in 26..51 -> 71 + n [] n \in 52..61 -> n - 4
               [] n = 62 -> 43 [] OTHER -> 47
Letters == {Letter(n) : n \in 0..63}
LetterValue(c) == CHOOSE n \in 0..63 : Letter(n) = c

Encode(data) ==
  LET Chunk(k) == SubSeq(data, 3 * k - 2, IF 3 * k < Len(data) THEN 3 * k ELSE Len(data))
      Quad(c) ==
        LET triple == 65536 * c[1] + (IF Len(c) > 1 THEN 256 * c[2] ELSE 0)
                                   + (IF Len(c) > 2 THEN c[3] ELSE 0)
        IN << Letter(triple \div 262144), Letter((triple \div 4096) % 64),
              IF Len(c) > 1 THEN Letter((triple \div 64) % 64) ELSE Pad,
              IF Len(c) > 2 THEN Letter(triple % 64) ELSE Pad >>
  IN FlattenSeq([k \in 1..((Len(data) + 2) \div 3) |-> Quad(Chunk(k))])

(* Six bits at a time into `buf'; a byte leaves as soon as there are eight. *)
Decode(code) ==
  LET padded == {i \in DOMAIN code : code[i] = Pad}
      used   == IF padded = {} THEN code
                ELSE SubSeq(code, 1, (CHOOSE i \in padded : \A j \in padded : i <= j) - 1)
      Six(s, c) ==
        LET buf == s.buf * 64 + LetterValue(c)
            rest == 2 ^ (s.bits - 2)
        IN IF s.bits + 6 < 8 THEN [s EXCEPT !.buf = buf, !.bits = s.bits + 6]
           ELSE [buf |-> buf % rest, bits |-> s.bits - 2,
                 data |-> Append(s.data, buf \div rest)]
  IN FoldLeft(Six, [buf |-> 0, bits |-> 0, data |-> <<>>], used).data

Bytes(t) == FlattenSeq([i \in DOMAIN t |-> Append(t[i], NewLine)])
TrimEnd(data) ==
  LET kept == {i \in DOMAIN data : data[i] \notin {NewLine, Return, Blank}}
  IN IF kept = {} THEN <<>> ELSE SubSeq(data, 1, CHOOSE i \in kept : \A j \in kept : i >= j)

(* The lines of a text that need not end in "\n". *)
LinesOf(data) ==
  LET ends == SetToSortSeq({0} \cup {i \in DOMAIN data : data[i] = NewLine}
                           \cup (IF data # <<>> /\ Last(data) # NewLine
                                 THEN {Len(data) + 1} ELSE {}), <)
  IN [k \in 1..(Len(ends) - 1) |-> SubSeq(data, ends[k] + 1, ends[k + 1] - 1)]

Base64(t, decode) ==
  LET code == SelectSeq(Bytes(t), LAMBDA b : b \notin {NewLine, Return, Blank})
      upto == {i \in DOMAIN code : \A j \in 1..i : code[j] # Pad}
  IN CASE ~decode -> [text |-> <<Encode(TrimEnd(Bytes(t)))>>, status |-> 0]
       [] decode /\ {code[i] : i \in upto} \subseteq Letters ->
            [text |-> LinesOf(Decode(code)), status |-> 0]
       [] OTHER -> [text |-> <<Message>>, status |-> 1]

(* xargs echo: once for each line that is not blank, its words as arguments *)
Words(line) ==
  LET kept == {i \in DOMAIN line : line[i] # Blank \/ (i > 1 /\ line[i - 1] # Blank)}
      order == SetToSortSeq(kept, <)
  IN [k \in DOMAIN order |-> line[order[k]]]
Xargs(t) ==
  LET lines == Content(t)
      whole == SelectSeq([i \in DOMAIN lines |-> Trim(lines[i])], LAMBDA line : line # <<>>)
  IN [i \in DOMAIN whole |-> Words(whole[i])]

Wc(t) == << <<48 + Len(t)>> >>

-----------------------------------------------------------------------------
(* The applets and the options of each that change what it does. *)
Parts == [dash : {FALSE}, from : 0..2, to : {-1}] \cup [dash : {TRUE}, from : {-1, 1, 2}, to : {-1, 1, 2}]
PlainText(cmd) == [cmd |-> cmd]

Commands ==
       {PlainText(c) : c \in {"cat", "rev", "wc -l", "xargs echo"}}
  \cup [cmd : {"sort"}, numeric : BOOLEAN, reverse : BOOLEAN, unique : BOOLEAN]
  \cup [cmd : {"uniq"}, counted : BOOLEAN]
  \cup [cmd : {"grep"}, pattern : Patterns, ignore : BOOLEAN, invert : BOOLEAN,
        shows : {"lines", "count", "numbers"}]
  \cup [cmd : {"head", "tail"}, n : 0..2]
  \cup [cmd : {"cut"}, spec : {<<p>> : p \in Parts} \cup {<<[dash |-> FALSE, from |-> 2, to |-> -1],
                                                         [dash |-> FALSE, from |-> 1, to |-> -1]>>}]
  \cup [cmd : {"tr"}, from : {<<49, 50>>}, to : {<<>>, <<50>>, <<50, 49>>}]
  \cup [cmd : {"sed"}, pattern : Patterns, by : {<<>>, <<49>>}, global : BOOLEAN]
  \cup [cmd : {"base64"}, decode : BOOLEAN]

(* What an applet makes of the text in the pipe, and the status it returns. *)
Done(t, o) ==
  CASE o.cmd = "grep"   -> Grep(t, o)
    [] o.cmd = "cut"    -> Cut(t, o)
    [] o.cmd = "base64" -> Base64(t, o.decode)
    [] OTHER ->
      [status |-> 0,
       text |-> CASE o.cmd = "sort" -> Sort(t, o)     [] o.cmd = "uniq" -> Uniq(t, o.counted)
                  [] o.cmd = "head" -> HeadOf(t, o.n) [] o.cmd = "tail" -> TailOf(t, o.n)
                  [] o.cmd = "tr"   -> Tr(t, o)       [] o.cmd = "sed"  -> Sed(t, o)
                  [] o.cmd = "rev"  -> Rev(t)         [] o.cmd = "cat"  -> Cat(t)
                  [] o.cmd = "wc -l" -> Wc(t)         [] OTHER -> Xargs(t)]

(* A longer pipe begins with cat: what the other applets hand on is a text *)
(* a pipe can begin with.                                                  *)
Pipe ==
  /\ pipes < MaxPipes
  /\ pipes = 0 \/ ran.cmd = "cat"
  /\ \E o \in Commands :
       LET done == Done(text, o)
       IN /\ text' = done.text
          /\ status' = done.status
          /\ ran' = o
  /\ before' = text
  /\ pipes' = pipes + 1

-----------------------------------------------------------------------------
AppletsInit ==
  /\ text \in BoundedSeq(Lines, MaxLines)
  /\ before = text
  /\ ran = PlainText("none")
  /\ status = 0
  /\ pipes = 0

AppletsNext == Pipe
AppletsSpec == AppletsInit /\ [][AppletsNext]_appletVars

-----------------------------------------------------------------------------
AppletsTypeOK ==
  /\ \A i \in DOMAIN text : ToSet(text[i]) \subseteq 0..255
  /\ status \in 0..2
  /\ pipes \in 0..MaxPipes

(* Each applet does what its name promises, said without the loops of the  *)
(* code: sort gives every line it was given and no other, in order, with   *)
(* equal ones once; uniq's counts add up to the input; cut's field is the  *)
(* bytes between two delimiters; head and tail are the ends of the text;   *)
(* rev and base64 -d undo themselves and base64.                           *)
Times(line, t) == Cardinality({i \in DOMAIN t : t[i] = line})
FieldAt(line, f) ==
  SelectSeq([i \in DOMAIN line |->
               IF /\ line[i] # Colon
                  /\ Cardinality({j \in 1..i : line[j] = Colon}) = f - 1
               THEN line[i] ELSE 0], LAMBDA b : b # 0)

SortRight(t, o, u) ==
  /\ \A i \in 1..(Len(u) - 1) :
       IF o.reverse THEN ~Before(u[i], u[i + 1], o.numeric)
       ELSE ~Before(u[i + 1], u[i], o.numeric)
  /\ t # <<>> => ToSet(u) = ToSet(t)
  /\ \A line \in ToSet(t) :
       IF o.unique THEN o.numeric \/ Times(line, u) = 1 ELSE Times(line, u) = Times(line, t)

UniqRight(t, o, u) ==
  /\ \A i \in 1..(Len(u) - 1) : u[i] # u[i + 1] 
  /\ ToSet(IF o.counted THEN [i \in DOMAIN u |-> SubSeq(u[i], 4, Len(u[i]))] ELSE u) = ToSet(t)
  /\ o.counted => FoldLeft(LAMBDA n, line : n + line[2] - 48, 0, u) = Len(t)

GrepRight(t, o, u) ==
  LET Hit(line) == \E i, j \in 0..Len(line) :
                      IF o.ignore THEN Lowered(SubSeq(line, i + 1, j)) = Lowered(o.pattern)
                      ELSE SubSeq(line, i + 1, j) = o.pattern
      wanted == SelectSeq(t, LAMBDA line : Hit(line) # o.invert)
  IN /\ status = (IF wanted = <<>> THEN 1 ELSE 0)
     /\ o.shows = "lines" => u = wanted
     /\ o.shows = "numbers" => \A i \in DOMAIN u : t[u[i][1] - 48] = wanted[i]
     /\ o.shows = "count" => u = << <<48 + Len(wanted)>> >>

CutRight(t, o, u) ==
  /\ \A part \in Parts : o.spec = <<part>> /\ ~part.dash /\ part.from > 0 =>
       /\ Len(u) = Len(t)
       /\ \A i \in DOMAIN t : u[i] = FieldAt(t[i], part.from)
  /\ status = 2 <=> \E part \in Parts : o.spec = <<part>> /\ part.dash /\ part.from > part.to
                                         /\ part.to # -1

SedRight(line, o, out) ==
  CASE o.pattern \notin SubSeqs(line) -> out = line
    [] o.pattern \in SubSeqs(line) /\ ~o.global ->
         out = ReplaceFirstSubSeq(o.by, o.pattern, line)
    [] OTHER -> Len(o.pattern) = 1 => Head(o.pattern) \notin ToSet(out) \ ToSet(o.by)

AppletsRight ==
  LET t == Content(before)
      u == text
  IN CASE ran.cmd = "sort" -> SortRight(t, ran, u)
       [] ran.cmd = "uniq" -> UniqRight(t, ran, u)
       [] ran.cmd = "grep" -> GrepRight(t, ran, u)
       [] ran.cmd = "cut"  -> CutRight(t, ran, u)
       [] ran.cmd = "head" -> t # <<>> => u \o SubSeq(t, ran.n + 1, Len(t)) = t \/ ran.n = 0
       [] ran.cmd = "tail" -> IsSuffix(u, t) \/ u = << <<>> >>
       [] ran.cmd = "cat"  -> Content(u) = before
       [] ran.cmd = "rev"  -> Rev(u) = t \/ \E i \in DOMAIN t : Return \in ToSet(t[i])
       [] ran.cmd = "tr"   -> ran.to # <<>> => \A i \in DOMAIN u : Len(u[i]) = Len(before[i])
       [] ran.cmd = "sed"  -> \A i \in DOMAIN u : SedRight(t[i], ran, u[i])
       [] ran.cmd = "base64" -> ~ran.decode =>
                                  /\ Len(text[1]) % 4 = 0
                                  /\ Bytes(Base64(text, TRUE).text) \in
                                       {<<>>, Append(TrimEnd(Bytes(before)), NewLine)}
       [] OTHER -> TRUE
=============================================================================
