------------------------------ MODULE ShellProofs ------------------------------
(***************************************************************************)
(* Proofs about two parts of the shell: an applet called by its own name   *)
(* waits for its stdin when it reads it (Standalone), and the line of an   *)
(* interactive session is the line the viewer sees (LineEditor).           *)
(***************************************************************************)
EXTENDS Standalone, LineEditor, FiniteSetTheorems, SequenceTheorems, WellFoundedInduction, TLAPS

NatBelow == {ss \in Nat \X Nat : ss[1] < ss[2]}
LEMMA LeastOf ==
  ASSUME NEW T, T \subseteq Nat, T # {}
  PROVE  \E n \in T : \A m \in T : n <= m
<1>1. IsWellFoundedOn(NatBelow, Nat)
  BY NatLessThanWellFounded DEF OpToRel, NatBelow
<1>2. PICK n \in T : \A m \in T : <<m, n>> \notin NatBelow
  BY <1>1, WFMin
<1>3. ASSUME NEW m \in T
      PROVE  n <= m
  <2>1. m \in Nat /\ n \in Nat
    OBVIOUS
  <2>2. ~(m < n)
    BY <1>2, <2>1 DEF NatBelow
  <2>. QED
    BY <2>1, <2>2
<1>. QED
  BY <1>3
-----------------------------------------------------------------------------
(* Standalone: an applet waits for what it reads.                          *)

SkipAt(args, valued, f, i) == i > 1 /\ ~f[i - 1] /\ args[i - 1] \in valued
VisitAt(args, flags, f, i) ==
  \/ i = 1
  \/ i > 1 /\ f[i - 1] /\ ~(args[i - 1] \in flags /\ i - 1 < Len(args))
  \/ i > 2 /\ f[i - 2] /\ (args[i - 2] \in flags /\ i - 2 < Len(args))

\* The recursion of wants_stdin's loop has a solution.
LEMMA SkipExists ==
  ASSUME NEW args \in Seq(Args), NEW valued
  PROVE  \E f : f = [i \in 1..Len(args) |-> SkipAt(args, valued, f, i)]
<1> DEFINE Solves(f, n) == f = [i \in 1..n |-> SkipAt(args, valued, f, i)]
           bad == {n \in Nat : ~\E f : Solves(f, n)}
<1>1. bad = {}
  <2> SUFFICES ASSUME bad # {}
               PROVE  FALSE
    OBVIOUS
  <2>1. PICK n \in bad : \A m \in bad : n <= m
    BY LeastOf
  <2>2. n # 0
    <3> DEFINE none == [i \in 1..0 |-> FALSE]
    <3>1. Solves(none, 0)
      OBVIOUS
    <3>. QED
      BY <2>1, <3>1
  <2>3. n - 1 \in Nat /\ n - 1 \notin bad
    BY <2>1, <2>2
  <2>4. PICK g : Solves(g, n - 1)
    BY <2>3
  <2> DEFINE h == [i \in 1..n |-> SkipAt(args, valued, g, i)]
  <2>5. ASSUME NEW i \in 1..(n - 1)
        PROVE  h[i] = g[i]
    <3>1. i \in 1..n
      BY <2>1
    <3>2. h[i] = SkipAt(args, valued, g, i)
      BY <3>1
    <3>3. g[i] = SkipAt(args, valued, g, i)
      BY <2>4
    <3>. QED
      BY <3>2, <3>3
  <2>6. ASSUME NEW i \in 1..n
        PROVE  h[i] = SkipAt(args, valued, h, i)
    <3>1. CASE i = 1
      BY <3>1 DEF SkipAt
    <3>2. CASE i # 1
      <4>1. i - 1 \in 1..(n - 1)
        BY <2>1, <3>2
      <4>2. h[i - 1] = g[i - 1]
        BY <2>5, <4>1
      <4>. QED
        BY <4>2 DEF SkipAt
    <3>. QED
      BY <3>1, <3>2
  <2>7. h = [i \in 1..n |-> h[i]]
    OBVIOUS
  <2> HIDE DEF h
  <2>8. Solves(h, n)
    BY <2>6, <2>7
  <2>. QED
    BY <2>1, <2>8
<1>2. Len(args) \in Nat
  OBVIOUS
<1>. QED
  BY <1>1, <1>2

\* An argument is skipped for the flag before it, if that is none's value.
LEMMA SkippedIs ==
  ASSUME NEW args \in Seq(Args), NEW valued
  PROVE  /\ Skipped(args, valued) \subseteq 1..Len(args)
         /\ \A i \in 1..Len(args) :
              i \in Skipped(args, valued) <=>
                i > 1 /\ i - 1 \notin Skipped(args, valued) /\ args[i - 1] \in valued
<1> DEFINE skip == CHOOSE f : f = [i \in 1..Len(args) |-> SkipAt(args, valued, f, i)]
<1>1. Len(args) \in Nat /\ DOMAIN args = 1..Len(args)
  OBVIOUS
<1>2. skip = [i \in 1..Len(args) |-> SkipAt(args, valued, skip, i)]
  BY SkipExists
<1>3. Skipped(args, valued) = {i \in 1..Len(args) : skip[i]}
  BY <1>1 DEF Skipped, SkipAt
<1> HIDE DEF skip
<1>4. ASSUME NEW i \in 1..Len(args)
      PROVE  skip[i] = SkipAt(args, valued, skip, i)
  BY <1>2
<1>5. ASSUME NEW i \in 1..Len(args)
      PROVE  i \in Skipped(args, valued) <=>
               i > 1 /\ i - 1 \notin Skipped(args, valued) /\ args[i - 1] \in valued
  <2>1. i \in Skipped(args, valued) <=> SkipAt(args, valued, skip, i)
    BY <1>3, <1>4
  <2>2. i > 1 => i - 1 \in 1..Len(args)
    BY <1>1
  <2>. QED
    BY <1>3, <2>1, <2>2 DEF SkipAt
<1>. QED
  BY <1>3, <1>5

\* So has the one of the applets' own loop.
LEMMA VisitExists ==
  ASSUME NEW args \in Seq(Args), NEW flags
  PROVE  \E f : f = [i \in 1..Len(args) |-> VisitAt(args, flags, f, i)]
<1> DEFINE Solves(f, n) == f = [i \in 1..n |-> VisitAt(args, flags, f, i)]
           bad == {n \in Nat : ~\E f : Solves(f, n)}
<1>1. bad = {}
  <2> SUFFICES ASSUME bad # {}
               PROVE  FALSE
    OBVIOUS
  <2>1. PICK n \in bad : \A m \in bad : n <= m
    BY LeastOf
  <2>2. n # 0
    <3> DEFINE none == [i \in 1..0 |-> FALSE]
    <3>1. Solves(none, 0)
      OBVIOUS
    <3>. QED
      BY <2>1, <3>1
  <2>3. n - 1 \in Nat /\ n - 1 \notin bad
    BY <2>1, <2>2
  <2>4. PICK g : Solves(g, n - 1)
    BY <2>3
  <2> DEFINE h == [i \in 1..n |-> VisitAt(args, flags, g, i)]
  <2>5. ASSUME NEW i \in 1..(n - 1)
        PROVE  h[i] = g[i]
    <3>1. i \in 1..n
      BY <2>1
    <3>2. h[i] = VisitAt(args, flags, g, i)
      BY <3>1
    <3>3. g[i] = VisitAt(args, flags, g, i)
      BY <2>4
    <3>. QED
      BY <3>2, <3>3
  <2>6. ASSUME NEW i \in 1..n
        PROVE  h[i] = VisitAt(args, flags, h, i)
    <3>1. i > 1 => h[i - 1] = g[i - 1]
      <4>1. i > 1 => i - 1 \in 1..(n - 1)
        BY <2>1
      <4>. QED
        BY <2>5, <4>1
    <3>2. i > 2 => h[i - 2] = g[i - 2]
      <4>1. i > 2 => i - 2 \in 1..(n - 1)
        BY <2>1
      <4>. QED
        BY <2>5, <4>1
    <3>. QED
      BY <3>1, <3>2 DEF VisitAt
  <2>7. h = [i \in 1..n |-> h[i]]
    OBVIOUS
  <2> HIDE DEF h
  <2>8. Solves(h, n)
    BY <2>6, <2>7
  <2>. QED
    BY <2>1, <2>8
<1>2. Len(args) \in Nat
  OBVIOUS
<1>. QED
  BY <1>1, <1>2

\* The loop of an applet comes to the first argument, to one behind an argument that
\* takes none along, and to one behind a flag and its value.
LEMMA VisitedIs ==
  ASSUME NEW args \in Seq(Args), NEW flags
  PROVE  /\ Visited(args, flags) \subseteq 1..Len(args)
         /\ \A i \in 1..Len(args) :
              i \in Visited(args, flags) <=>
                \/ i = 1
                \/ i - 1 \in Visited(args, flags) /\ args[i - 1] \notin flags
                \/ i - 2 \in Visited(args, flags) /\ args[i - 2] \in flags
<1> DEFINE visit == CHOOSE f : f = [i \in 1..Len(args) |-> VisitAt(args, flags, f, i)]
<1>1. Len(args) \in Nat /\ DOMAIN args = 1..Len(args)
  OBVIOUS
<1>2. visit = [i \in 1..Len(args) |-> VisitAt(args, flags, visit, i)]
  BY VisitExists
<1>3. Visited(args, flags) = {i \in 1..Len(args) : visit[i]}
  BY <1>1 DEF Visited, VisitAt
<1> HIDE DEF visit
<1>4. ASSUME NEW i \in 1..Len(args)
      PROVE  visit[i] = VisitAt(args, flags, visit, i)
  BY <1>2
<1>5. ASSUME NEW i \in 1..Len(args)
      PROVE  i \in Visited(args, flags) <=>
                \/ i = 1
                \/ i - 1 \in Visited(args, flags) /\ args[i - 1] \notin flags
                \/ i - 2 \in Visited(args, flags) /\ args[i - 2] \in flags
  <2>1. i \in Visited(args, flags) <=> VisitAt(args, flags, visit, i)
    BY <1>3, <1>4
  <2>2. i - 1 \in Visited(args, flags) <=> i > 1 /\ visit[i - 1]
    BY <1>1, <1>3
  <2>3. i - 2 \in Visited(args, flags) <=> i > 2 /\ visit[i - 2]
    BY <1>1, <1>3
  <2>4. i - 1 < Len(args) /\ i - 2 < Len(args)
    BY <1>1
  <2>. QED
    BY <2>1, <2>2, <2>3, <2>4 DEF VisitAt
<1>. QED
  BY <1>3, <1>5

\* The two loops agree where they know the same flags.
LEMMA LoopsAgree ==
  ASSUME NEW args \in Seq(Args), NEW valued, NEW flags,
         \A i \in 1..Len(args) : args[i] \in valued <=> args[i] \in flags
  PROVE  \A i \in 1..Len(args) : i \in Visited(args, flags) <=> i \notin Skipped(args, valued)
<1> DEFINE Agree(i) == i \in Visited(args, flags) <=> i \notin Skipped(args, valued)
           bad == {i \in 1..Len(args) : ~Agree(i)}
<1>1. bad = {}
  <2> SUFFICES ASSUME bad # {}
               PROVE  FALSE
    OBVIOUS
  <2>1. bad \subseteq Nat /\ Len(args) \in Nat
    OBVIOUS
  <2>2. PICK n \in bad : \A m \in bad : n <= m
    BY <2>1, LeastOf
  <2>3. n \in 1..Len(args) /\ ~Agree(n)
    BY <2>2
  <2>4. \A m \in 1..Len(args) : m < n => Agree(m)
    BY <2>1, <2>2
  <2>5. n # 1
    BY <2>3, SkippedIs, VisitedIs
  <2>6. n - 1 \in 1..Len(args) /\ n - 1 < n
    BY <2>1, <2>3, <2>5
  <2>7. Agree(n - 1)
    BY <2>4, <2>6
  <2>8. n \in Skipped(args, valued) <=> n - 1 \notin Skipped(args, valued) /\ args[n - 1] \in valued
    BY <2>3, <2>5, <2>6, SkippedIs
  <2>9. n - 1 \in Skipped(args, valued) <=>
          n - 2 \in 1..Len(args) /\ n - 2 \notin Skipped(args, valued) /\ args[n - 2] \in valued
    <3>1. n - 1 \in Skipped(args, valued) <=>
            n - 1 > 1 /\ (n - 1) - 1 \notin Skipped(args, valued) /\ args[(n - 1) - 1] \in valued
      BY <2>6, SkippedIs
    <3>2. (n - 1) - 1 = n - 2 /\ (n - 1 > 1 <=> n - 2 \in 1..Len(args))
      BY <2>1, <2>3
    <3>. QED
      BY <3>1, <3>2
  <2>10. n - 2 \in 1..Len(args) => Agree(n - 2)
    BY <2>1, <2>3, <2>4
  <2>11. n \in Visited(args, flags) <=>
           \/ n - 1 \in Visited(args, flags) /\ args[n - 1] \notin flags
           \/ n - 2 \in Visited(args, flags) /\ args[n - 2] \in flags
    BY <2>3, <2>5, VisitedIs
  <2>12. n - 2 \in Visited(args, flags) => n - 2 \in 1..Len(args)
    BY VisitedIs
  <2>. QED
    BY <2>3, <2>6, <2>7, <2>8, <2>9, <2>10, <2>11, <2>12
<1>. QED
  BY <1>1

-----------------------------------------------------------------------------
LEMMA WordsFinite ==
  ASSUME NEW args \in Seq(Args)
  PROVE  /\ IsFiniteSet(WordsOf(args))
         /\ Cardinality(WordsOf(args)) \in Nat
         /\ Cardinality(WordsOf(args)) > 0 <=> WordsOf(args) # {}
         /\ args = <<>> => WordsOf(args) = {}
<1>1. IsFiniteSet(1..Len(args)) /\ DOMAIN args = 1..Len(args)
  BY FS_Interval
<1>2. WordsOf(args) \subseteq 1..Len(args)
  BY <1>1 DEF WordsOf
<1>3. IsFiniteSet(WordsOf(args))
  BY <1>1, <1>2, FS_Subset
<1>4. Cardinality(WordsOf(args)) \in Nat /\ (Cardinality(WordsOf(args)) = 0 <=> WordsOf(args) = {})
  BY <1>3, FS_CardinalityType, FS_EmptySet
<1>5. args = <<>> => WordsOf(args) = {}
  BY DEF WordsOf
<1>. QED
  BY <1>3, <1>4, <1>5

\* One call: what wants_stdin says of the arguments and what the applet does with them.
LEMMA CallIsServed ==
  ASSUME NEW cmd \in InputCommands, NEW args \in Seq(Args), ~Misread(cmd, args)
  PROVE  /\ Source(cmd, args) = "file" => ~WantsStdin(cmd, args)
         /\ /\ Source(cmd, args) = "stdin"
            /\ cmd \in {"rev", "xxd", "base64"} => WordsOf(args) = {}
            /\ Operands(cmd, args) \subseteq WordsOf(args)
            => WantsStdin(cmd, args)
<1> DEFINE words == Cardinality(WordsOf(args))
<1>1. /\ words \in Nat
      /\ words > 0 <=> WordsOf(args) # {}
      /\ args = <<>> => WordsOf(args) = {}
  BY WordsFinite
<1>2. Skipped(args, {}) = {}
  BY SkippedIs
<1> HIDE DEF words
<1>3. CASE cmd \in {"tee", "tr"}
  BY <1>3 DEF Source, WantsStdin
<1>4. CASE cmd \in {"cat", "sha256sum", "wc", "sort", "uniq", "rev", "xxd", "base64"}
  <2>1. WordsOf(args) \subseteq Operands(cmd, args)
    BY <1>2, <1>4 DEF Operands, Valued
  <2>2. WantsStdin(cmd, args) <=> Operands(cmd, args) = {}
    BY <1>4 DEF WantsStdin
  <2>. QED
    BY <1>1, <1>4, <2>1, <2>2 DEF Source, words
<1>5. CASE cmd \in {"head", "tail"}
  <2>1. Valued(cmd) = {"-n", "-c"}
    BY <1>5 DEF Valued
  <2>2. \A i \in 1..Len(args) : args[i] \in {"-n", "-c"} <=> args[i] \in {"-n"}
    BY <1>5 DEF Misread
  <2>3. \A i \in 1..Len(args) : i \in Visited(args, {"-n"}) <=> i \notin Skipped(args, {"-n", "-c"})
    BY <2>2, LoopsAgree
  <2>4. WordsOf(args) \subseteq 1..Len(args)
    BY DEF WordsOf
  <2>5. HeadFile(args) <=> WordsOf(args) \cap Operands(cmd, args) # {}
    BY <2>1, <2>3, <2>4 DEF HeadFile, Operands
  <2>6. WantsStdin(cmd, args) <=> Operands(cmd, args) = {}
    BY <1>5 DEF WantsStdin
  <2>7. Source(cmd, args) = IF HeadFile(args) THEN "file" ELSE "stdin"
    BY <1>5 DEF Source
  <2>. QED
    BY <1>5, <2>5, <2>6, <2>7
<1>6. CASE cmd = "cut"
  <2>1. WordsOf(args) \subseteq Operands(cmd, args)
    BY <1>6 DEF Misread, Operands
  <2>2. WantsStdin(cmd, args) <=> Operands(cmd, args) = {}
    BY <1>6 DEF WantsStdin
  <2>3. Source(cmd, args) = IF HasFields(args) THEN (IF words > 0 THEN "file" ELSE "stdin") ELSE "none"
    BY <1>6 DEF Source, words
  <2>. QED
    BY <1>1, <1>6, <2>1, <2>2, <2>3
<1>7. CASE cmd \in {"grep", "sed"}
  <2> DEFINE operands == Cardinality(Operands(cmd, args))
  <2>1. WordsOf(args) \subseteq Operands(cmd, args)
    BY <1>7 DEF Misread, Operands
  <2>2. WantsStdin(cmd, args) <=> operands <= 1
    BY <1>7 DEF WantsStdin
  <2>4. operands \in Nat /\ words <= operands
    <3>1. IsFiniteSet(1..Len(args)) /\ DOMAIN args = 1..Len(args)
      BY FS_Interval
    <3>2. Operands(cmd, args) \subseteq 1..Len(args)
      BY <3>1 DEF Operands, WordsOf, Dashes
    <3>3. IsFiniteSet(Operands(cmd, args))
      BY <3>1, <3>2, FS_Subset
    <3>. QED
      BY <2>1, <3>3, FS_CardinalityType, FS_Subset DEF words
  <2>5. Operands(cmd, args) \subseteq WordsOf(args) => operands = words
    <3>1. Operands(cmd, args) \subseteq WordsOf(args) => Operands(cmd, args) = WordsOf(args)
      BY <2>1
    <3>. QED
      BY <3>1 DEF words
  <2> HIDE DEF operands
  <2>3. \/ Source(cmd, args) = "none"
        \/ Source(cmd, args) = IF words > 1 THEN "file" ELSE "stdin"
    BY <1>7 DEF Source, words
  <2>. QED
    BY <1>1, <1>7, <2>2, <2>3, <2>4, <2>5
<1>. QED
  BY <1>3, <1>4, <1>5, <1>6, <1>7 DEF InputCommands

\* However many arguments, an applet that was given a file to read does not wait for a
\* stdin that may never end, and one that reads its stdin waits for it: but for the calls
\* that the two loops read differently (head and tail with -c, a word behind grep's or
\* sed's -e or a flag of cut), and in the second part for a "-" and for rev, xxd and
\* base64 with a word.
THEOREM NoNeedlessWaitCorrect == StandaloneSpec => []NoNeedlessWait
<1>1. StandaloneInit => NoNeedlessWait
  BY DEF StandaloneInit, NoNeedlessWait
<1>2. ASSUME NoNeedlessWait, Invoke
      PROVE  NoNeedlessWait'
  <2>1. PICK cmd \in InputCommands, n \in 0..MaxArgs : \E args \in [1..n -> Args] :
          call' = [cmd |-> cmd, args |-> args,
                   waits |-> WantsStdin(cmd, args), reads |-> Source(cmd, args)]
    BY <1>2 DEF Invoke
  <2>2. PICK args \in [1..n -> Args] :
          call' = [cmd |-> cmd, args |-> args,
                   waits |-> WantsStdin(cmd, args), reads |-> Source(cmd, args)]
    BY <2>1
  <2>3. args \in Seq(Args)
    OBVIOUS
  <2>4. /\ call'.cmd = cmd /\ call'.args = args
        /\ call'.waits = WantsStdin(cmd, args) /\ call'.reads = Source(cmd, args)
    BY <2>2
  <2>. QED
    BY <2>3, <2>4, CallIsServed DEF NoNeedlessWait
<1>3. NoNeedlessWait /\ UNCHANGED call => NoNeedlessWait'
  BY DEF NoNeedlessWait
<1>. QED
  BY <1>1, <1>2, <1>3, PTL DEF StandaloneSpec

-----------------------------------------------------------------------------
(* LineEditor: what is shown is the line, and Tab completes a word.        *)

Text == Seq(STRING)

LEMMA Marks == BLANK \in STRING /\ SLASH \in STRING
  BY LineEditorAssumption

LEMMA GreatestOf ==
  ASSUME NEW n \in Nat, NEW T, T \subseteq 1..n, T # {}
  PROVE  \E i \in T : \A j \in T : j <= i
<1> DEFINE left == {n - i : i \in T}
<1>1. left \subseteq Nat /\ left # {}
  <2>1. \A i \in T : n - i \in Nat
    <3>1. \A i \in 1..n : n - i \in Nat
      BY SMT
    <3>. QED
      BY <3>1
  <2>2. PICK i \in T : TRUE
    OBVIOUS
  <2>3. n - i \in left
    OBVIOUS
  <2>. QED
    BY <2>1, <2>3
<1>2. PICK m \in left : \A k \in left : m <= k
  BY <1>1, LeastOf
<1>3. PICK i \in T : m = n - i
  BY <1>2
<1>4. ASSUME NEW j \in T
      PROVE  j <= i
  <2>1. n - i <= n - j
    BY <1>2, <1>3
  <2>2. i \in Nat /\ j \in Nat
    OBVIOUS
  <2>. QED
    BY <2>1, <2>2
<1>. QED
  BY <1>4

LEMMA BlankOrNone ==
  ASSUME NEW rest \in {<<>>, <<BLANK>>}
  PROVE  rest \in Text /\ Len(rest) \in {0, 1} /\ (Len(rest) = 1 => rest[1] = BLANK)
<1>1. CASE rest = <<>>
  BY <1>1 DEF Text
<1>2. CASE rest = <<BLANK>>
  <2>1. BLANK \in STRING
    BY Marks
  <2> DEFINE b == BLANK
  <2>2. rest = <<b>> /\ b \in STRING
    BY <1>2, <2>1
  <2> HIDE DEF b
  <2>3. rest \in Seq(STRING) /\ Len(rest) = 1 /\ rest[1] = b
    BY <2>2
  <2>. QED
    BY <2>3 DEF Text, b
<1>. QED
  BY <1>1, <1>2

LEMMA SlashOrNone ==
  ASSUME NEW rest \in {<<>>, <<SLASH>>}
  PROVE  rest \in Text
<1>1. CASE rest = <<>>
  BY <1>1 DEF Text
<1>2. CASE rest = <<SLASH>>
  <2> DEFINE b == SLASH
  <2>1. b \in STRING /\ rest = <<b>>
    BY <1>2, Marks
  <2> HIDE DEF b
  <2>. QED
    BY <2>1 DEF Text
<1>. QED
  BY <1>1, <1>2

LEMMA PrefixOfLonger ==
  ASSUME NEW s \in Seq(STRING), NEW t \in Seq(STRING)
  PROVE  Prefixes(s, s \o t)
<1>1. s \o t \in Seq(STRING) /\ Len(s \o t) = Len(s) + Len(t) /\ Len(s) \in Nat /\ Len(t) \in Nat
  OBVIOUS
<1>2. SubSeq(s \o t, 1, Len(s)) = s
  <2>1. CASE Len(s) = 0
    BY <1>1, <2>1
  <2>2. CASE Len(s) # 0
    <3>1. 1 \in 1..Len(s) /\ Len(s) \in 1..Len(s)
      BY <1>1, <2>2
    <3>2. SubSeq(s \o t, 1, Len(s)) = SubSeq(s, 1, Len(s))
      BY <3>1, SubSeqOfConcat1
    <3>. QED
      BY <3>2, SubSeqFull
  <2>. QED
    BY <2>1, <2>2
<1>. QED
  BY <1>1, <1>2 DEF Prefixes

LEMMA OneAfterOther ==
  ASSUME NEW a \in Seq(STRING), NEW b \in Seq(STRING), NEW c \in Seq(STRING)
  PROVE  (a \o b) \o c = a \o (b \o c)
  BY Z3

\* A word that stands alone or behind a blank, and last, is the last word.
LEMMA LastWord ==
  ASSUME NEW pre \in Text, NEW word \in Text, NEW rest \in {<<>>, <<BLANK>>},
         word # <<>>, OneWord(word), pre = <<>> \/ pre[Len(pre)] = BLANK
  PROVE  LastTyped((pre \o word) \o rest) = word
<1> DEFINE line == (pre \o word) \o rest
           p == Len(pre)
           m == Len(word)
<1>1. /\ p \in Nat /\ m \in Nat /\ m >= 1 /\ line \in Text
      /\ Len(line) = p + m + Len(rest) /\ Len(rest) \in {0, 1}
  <2>1. rest \in Text /\ Len(rest) \in {0, 1} /\ (Len(rest) = 1 => rest[1] = BLANK)
    BY BlankOrNone
  <2>. QED
    BY <2>1 DEF Text
<1>2. /\ \A i \in 1..p : line[i] = pre[i]
      /\ \A i \in 1..m : line[p + i] = word[i]
      /\ Len(rest) = 1 => line[p + m + 1] = BLANK
  <2>1. rest \in Text /\ (Len(rest) = 1 => rest[1] = BLANK)
    BY BlankOrNone
  <2> DEFINE both == pre \o word
  <2>2. both \in Text /\ Len(both) = p + m
    BY DEF Text
  <2>3. /\ \A i \in 1..p : both[i] = pre[i]
        /\ \A i \in 1..m : both[p + i] = word[i]
    BY DEF Text
  <2>4. line = both \o rest
    OBVIOUS
  <2> HIDE DEF both, line
  <2>5. \A i \in 1..(p + m) : line[i] = both[i]
    BY <1>1, <2>1, <2>2, <2>4 DEF Text
  <2>6. Len(rest) = 1 => line[p + m + 1] = rest[1]
    BY <1>1, <2>1, <2>2, <2>4 DEF Text
  <2>7. \A i \in 1..m : p + i \in 1..(p + m)
    BY <1>1
  <2>8. \A i \in 1..p : i \in 1..(p + m)
    BY <1>1
  <2> HIDE DEF p, m
  <2>. QED
    BY <2>1, <2>3, <2>5, <2>6, <2>7, <2>8
<1>3. \A i \in (p + 1)..(p + m) : line[i] # BLANK
  <2>1. ASSUME NEW i \in (p + 1)..(p + m)
        PROVE  line[i] # BLANK
    <3>1. i - p \in 1..m /\ p + (i - p) = i
      BY <1>1
    <3>2. line[i] = word[i - p]
      BY <1>2, <3>1
    <3>. QED
      BY <3>1, <3>2 DEF OneWord
  <2>. QED
    BY <2>1
<1>4. p # 0 => line[p] = BLANK
  BY <1>1, <1>2 DEF Text
<1>5. p + m + 1 <= Len(line) => line[p + m + 1] = BLANK
  BY <1>1, <1>2
<1>6. SubSeq(line, p + 1, p + m) = word
  BY <1>1, <1>2 DEF Text
<1> HIDE DEF line
<1> DEFINE starts == WordStarts(line)
<1>7. p + 1 \in starts
  BY <1>1, <1>3, <1>4 DEF WordStarts
<1>8. ASSUME NEW i \in starts
      PROVE  i <= p + 1
  <2> SUFFICES ASSUME i > p + 1
               PROVE  FALSE
    BY <1>1 DEF WordStarts
  <2>0. i \in WordStarts(line) /\ i # 1
    BY <1>1
  <2>1. i \in 1..Len(line) /\ line[i] # BLANK /\ line[i - 1] = BLANK
    BY <2>0 DEF WordStarts
  <2>2. i <= p + m
    <3>1. CASE Len(rest) = 0
      BY <1>1, <2>1, <3>1
    <3>2. CASE Len(rest) = 1
      <4>1. Len(line) = p + m + 1 /\ line[p + m + 1] = BLANK /\ i # p + m + 1
        BY <1>1, <1>5, <2>1, <3>2
      <4>. QED
        BY <1>1, <2>1, <4>1
    <3>. QED
      BY <1>1, <3>1, <3>2
  <2>3. i - 1 \in (p + 1)..(p + m)
    BY <1>1, <2>1, <2>2
  <2>. QED
    BY <1>3, <2>1, <2>3
<1>9. (CHOOSE i \in starts : \A j \in starts : i >= j) = p + 1
  <2>1. \A i \in starts : i \in Nat
    BY DEF WordStarts
  <2>2. \A j \in starts : p + 1 >= j
    BY <1>1, <1>8, <2>1
  <2>3. ASSUME NEW i \in starts, \A j \in starts : i >= j
        PROVE  i = p + 1
    BY <1>1, <1>7, <1>8, <2>1, <2>3
  <2> HIDE DEF starts
  <2>. QED
    BY <1>7, <2>2, <2>3
<1>10. ASSUME NEW j \in (p + 1)..Len(line)
       PROVE  (/\ \A k \in (p + 1)..j : line[k] # BLANK
               /\ j = Len(line) \/ line[j + 1] = BLANK) <=> j = p + m
  <2>1. CASE j < p + m
    <3>1. j + 1 \in (p + 1)..(p + m)
      BY <1>1, <2>1
    <3>2. line[j + 1] # BLANK /\ j # Len(line)
      BY <1>1, <1>3, <2>1, <3>1
    <3>. QED
      BY <1>1, <2>1, <3>2
  <2>2. CASE j = p + m
    <3>1. j = Len(line) \/ line[j + 1] = BLANK
      BY <1>1, <1>5, <2>2
    <3>. QED
      BY <1>3, <2>2, <3>1
  <2>3. CASE j > p + m
    <3>1. p + m + 1 \in (p + 1)..j /\ line[p + m + 1] = BLANK
      BY <1>1, <1>5, <2>3
    <3>. QED
      BY <1>1, <2>3, <3>1
  <2>. QED
    BY <1>1, <2>1, <2>2, <2>3
<1>11. WordAt(line, p + 1) = word
  <2>1. p + m \in (p + 1)..Len(line)
    BY <1>1
  <2>2. (CHOOSE j \in (p + 1)..Len(line) : /\ \A k \in (p + 1)..j : line[k] # BLANK
                                           /\ j = Len(line) \/ line[j + 1] = BLANK) = p + m
    BY <1>10, <2>1
  <2>. QED
    BY <1>6, <2>2 DEF WordAt
<1>12. LastTyped(line) = WordAt(line, p + 1)
  BY <1>7, <1>9 DEF LastTyped
<1>13. line = (pre \o word) \o rest
  BY DEF line
<1>. QED
  BY <1>11, <1>12, <1>13

\* A line that does not end in a blank ends in its last word.
LEMMA EndsInWord ==
  ASSUME NEW of \in Text, of # <<>>, of[Len(of)] # BLANK
  PROVE  \E pre \in Text, word \in Text :
           /\ of = pre \o word /\ word # <<>> /\ OneWord(word)
           /\ pre = <<>> \/ pre[Len(pre)] = BLANK
           /\ LastTyped(of) = word
<1> DEFINE blanks == {i \in 1..Len(of) : of[i] = BLANK}
           n == Len(of)
<1>1. n \in Nat /\ n >= 1
  BY DEF Text
<1>2. PICK p \in 0..(n - 1) : /\ \A i \in (p + 1)..n : of[i] # BLANK
                              /\ p = 0 \/ of[p] = BLANK
  <2>1. CASE blanks = {}
    <3>1. \A i \in (0 + 1)..n : of[i] # BLANK
      BY <1>1, <2>1
    <3>. QED
      BY <1>1, <3>1
  <2>2. CASE blanks # {}
    <3>1. PICK i \in blanks : \A j \in blanks : j <= i
      BY <1>1, <2>2, GreatestOf
    <3>2. i \in 1..n /\ of[i] = BLANK /\ i # n
      BY <3>1
    <3>3. \A j \in (i + 1)..n : of[j] # BLANK
      BY <1>1, <3>1, <3>2
    <3>. QED
      BY <1>1, <3>2, <3>3
  <2>. QED
    BY <2>1, <2>2
<1> DEFINE pre == SubSeq(of, 1, p)
           word == SubSeq(of, p + 1, n)
<1>3. pre \in Text /\ word \in Text /\ Len(pre) = p /\ Len(word) = n - p /\ n - p >= 1
  BY <1>1 DEF Text
<1>4. of = pre \o word
  <2>1. of \in Seq(STRING) /\ 1 \in 1..(n + 1) /\ p \in (1 - 1)..n /\ n \in p..n
    BY <1>1 DEF Text
  <2>2. SubSeq(of, 1, p) \o SubSeq(of, p + 1, n) = SubSeq(of, 1, n)
    BY <2>1, ConcatAdjacentSubSeq
  <2>. QED
    BY <2>1, <2>2, SubSeqFull
<1>5. word # <<>>
  <2> HIDE DEF word
  <2>. QED
    BY <1>3
<1>6. OneWord(word)
  <2>1. ASSUME NEW j \in 1..Len(word)
        PROVE  word[j] # BLANK
    <3>1. p + j \in (p + 1)..n
      BY <1>1, <1>3
    <3>2. word[j] = of[p + j]
      <4>1. j \in 1..(n - p)
        BY <1>3
      <4>. QED
        BY <1>1, <4>1 DEF Text
    <3>. QED
      BY <1>2, <3>1, <3>2
  <2>. QED
    BY <2>1 DEF OneWord
<1>7. pre = <<>> \/ pre[Len(pre)] = BLANK
  <2>1. CASE p = 0
    BY <1>3, <2>1 DEF Text
  <2>2. CASE p # 0
    <3>1. pre[p] = of[p]
      BY <1>1, <2>2 DEF Text
    <3>. QED
      BY <1>2, <1>3, <2>2, <3>1
  <2>. QED
    BY <2>1, <2>2
<1> HIDE DEF pre, word
<1>8. (pre \o word) \o <<>> = pre \o word
  BY <1>3 DEF Text
<1>9. LastTyped((pre \o word) \o <<>>) = word
  BY <1>3, <1>5, <1>6, <1>7, LastWord
<1>. QED
  BY <1>3, <1>4, <1>5, <1>6, <1>7, <1>8, <1>9

\* Where no two slashes meet, a path goes on behind its last slash.
LEMMA PathIsPrefix ==
  ASSUME NEW path \in Text, path # <<>>, path[Len(path)] # SLASH,
         path[1] = SLASH => ParentDir(path) # <<SLASH>>,
         \A i \in 2..Len(path) : path[i] = SLASH => path[i - 1] # SLASH,
         \E i \in 1..Len(path) : path[i] = SLASH,
         NEW n \in Text, Prefixes(FileName(path), n)
  PROVE  /\ ParentDir(path) \in Text
         /\ \A rest \in {<<>>, <<SLASH>>} :
              Prefixes(path, (ParentDir(path) \o <<SLASH>>) \o (n \o rest))
<1> DEFINE m == Len(path)
<1>1. m \in Nat /\ m >= 1 /\ path \in Seq(STRING)
  BY DEF Text
<1>2. Bare(path) = path
  <2> DEFINE kept == {i \in 1..m : path[i] # SLASH}
  <2>1. m \in kept /\ \A j \in kept : m >= j
    BY <1>1
  <2>2. ASSUME NEW i \in kept, \A j \in kept : i >= j
        PROVE  i = m
    BY <1>1, <2>1, <2>2
  <2>3. (CHOOSE i \in kept : \A j \in kept : i >= j) = m
    <3> HIDE DEF kept
    <3>. QED
      BY <2>1, <2>2
  <2>4. Bare(path) = SubSeq(path, 1, m)
    BY <2>1, <2>3 DEF Bare
  <2>. QED
    BY <1>1, <2>4, SubSeqFull
<1> DEFINE cuts == {i \in 1..m : path[i] = SLASH}
<1>3. Cuts(path) = cuts
  BY <1>2 DEF Cuts
<1>4. PICK c \in cuts : \A j \in cuts : j <= c
  BY <1>1, GreatestOf
<1>5. LastCut(path) = c
  <2>1. \A i \in cuts : i \in Nat
    BY <1>1
  <2> HIDE DEF cuts
  <2>2. ASSUME NEW i \in cuts, \A j \in cuts : i >= j
        PROVE  i = c
    BY <1>4, <2>1, <2>2
  <2>3. (CHOOSE i \in cuts : \A j \in cuts : i >= j) = c
    BY <1>4, <2>1, <2>2
  <2>. QED
    BY <1>3, <1>4, <2>3 DEF LastCut
<1>6. c \in 1..m /\ path[c] = SLASH /\ c # m
  BY <1>4
<1>7. FileName(path) = SubSeq(path, c + 1, m)
  BY <1>2, <1>5 DEF FileName
<1> DEFINE dir == SubSeq(path, 1, c)
<1>8. /\ dir \in Seq(STRING) /\ Len(dir) = c /\ \A i \in 1..c : dir[i] = path[i]
  BY <1>1, <1>6
<1>9. Head(path) = path[1]
  BY <1>1
<1> HIDE DEF dir, cuts
<1>10. c # 1
  <2> SUFFICES ASSUME c = 1
               PROVE  FALSE
    OBVIOUS
  <2>1. {i \in 1..Len(dir) : dir[i] # SLASH} = {}
    BY <1>6, <1>8
  <2>2. Bare(dir) = <<>>
    BY <2>1 DEF Bare
  <2>3. ParentDir(path) = <<SLASH>>
    BY <1>5, <1>6, <1>9, <2>2 DEF ParentDir, dir
  <2>. QED
    BY <1>6, <2>3
<1>11. path[c - 1] # SLASH
  <2>1. c \in 2..m
    BY <1>1, <1>6, <1>10
  <2>. QED
    BY <1>6, <2>1
<1>12. Bare(dir) = SubSeq(dir, 1, c - 1)
  <2> DEFINE kept == {i \in 1..Len(dir) : dir[i] # SLASH}
  <2>1. c - 1 \in kept /\ c \notin kept /\ \A j \in kept : j \in 1..c
    BY <1>1, <1>6, <1>8, <1>10, <1>11
  <2>2. \A j \in kept : c - 1 >= j
    <3> HIDE DEF kept
    <3>1. ASSUME NEW j \in kept
          PROVE  c - 1 >= j
      BY <1>1, <1>6, <2>1
    <3>. QED
      BY <3>1
  <2>3. (CHOOSE i \in kept : \A j \in kept : i >= j) = c - 1
    <3> HIDE DEF kept
    <3>1. ASSUME NEW i \in kept, \A j \in kept : i >= j
          PROVE  i = c - 1
      <4>1. i >= c - 1 /\ c - 1 >= i /\ i \in Nat /\ c \in Nat
        BY <1>6, <2>1, <2>2, <3>1
      <4>. QED
        BY <4>1
    <3>. QED
      BY <2>1, <2>2, <3>1
  <2>4. kept # {}
    BY <2>1
  <2>. QED
    BY <2>3, <2>4 DEF Bare
<1> DEFINE top == SubSeq(path, 1, c - 1)
<1>13. ParentDir(path) = top
  <2>1. SubSeq(dir, 1, c - 1) = top
    <3>1. path \in Seq(STRING) /\ 1 \in 1..Len(path) /\ c \in 1..Len(path)
          /\ 1 \in 1..(c - 1 + 1) /\ c - 1 \in 1..(c - 1 + 1)
      BY <1>1, <1>6, <1>10
    <3>2. SubSeq(SubSeq(path, 1, c), 1, c - 1) = SubSeq(path, 1 + 1 - 1, 1 + (c - 1) - 1)
      BY <3>1, SubSeqOfSubSeq
    <3>3. 1 + 1 - 1 = 1 /\ 1 + (c - 1) - 1 = c - 1
      BY <1>1, <1>6
    <3>. QED
      BY <3>2, <3>3 DEF dir
  <2>2. top # <<>>
    <3>1. Len(top) = c - 1 /\ c - 1 >= 1
      BY <1>1, <1>6, <1>10
    <3> HIDE DEF top
    <3>. QED
      BY <3>1
  <2>. QED
    BY <1>5, <1>12, <2>1, <2>2 DEF ParentDir, dir
<1>14. top \in Seq(STRING)
  BY <1>1, <1>6
<1>15. ASSUME NEW rest \in {<<>>, <<SLASH>>}
       PROVE  Prefixes(path, (top \o <<SLASH>>) \o (n \o rest))
  <2>1. rest \in Seq(STRING)
    BY SlashOrNone DEF Text
  <2> DEFINE file == SubSeq(path, c + 1, m)
  <2>2. file \in Seq(STRING) /\ Len(file) = m - c
    BY <1>1, <1>6
  <2>3. path = (top \o <<SLASH>>) \o file
    <3>1. top \o <<path[c]>> = dir
      BY <1>1, <1>6, SubSeqRecursiveSecond DEF dir
    <3>2. path \in Seq(STRING) /\ 1 \in 1..(Len(path) + 1) /\ c \in (1 - 1)..Len(path) /\ m \in c..Len(path)
      BY <1>1, <1>6
    <3>3. dir \o file = SubSeq(path, 1, m)
      BY <3>2, ConcatAdjacentSubSeq DEF dir
    <3>. QED
      BY <1>1, <1>6, <3>1, <3>3, SubSeqFull
  <2> HIDE DEF top, file
  <2>4. n \in Seq(STRING) /\ Len(file) <= Len(n) /\ SubSeq(n, 1, Len(file)) = file
    BY <1>7 DEF Prefixes, Text, file
  <2> DEFINE more == SubSeq(n, Len(file) + 1, Len(n))
  <2>5. n = file \o more /\ more \in Seq(STRING)
    <3>1. n \in Seq(STRING) /\ 1 \in 1..(Len(n) + 1) /\ Len(file) \in (1 - 1)..Len(n) /\ Len(n) \in Len(file)..Len(n)
      BY <1>1, <1>6, <2>2, <2>4
    <3>2. SubSeq(n, 1, Len(file)) \o more = SubSeq(n, 1, Len(n))
      BY <3>1, ConcatAdjacentSubSeq
    <3>3. more \in Seq(STRING)
      BY <3>1
    <3>. QED
      BY <2>4, <3>1, <3>2, <3>3, SubSeqFull
  <2> HIDE DEF more
  <2> DEFINE head == top \o <<SLASH>>
             tail == more \o rest
  <2>6. head \in Seq(STRING) /\ tail \in Seq(STRING)
    <3>1. <<SLASH>> \in Seq(STRING)
      BY SlashOrNone DEF Text
    <3>2. top \o <<SLASH>> \in Seq(STRING)
      <4> DEFINE slash == <<SLASH>>
      <4>1. top \in Seq(STRING) /\ slash \in Seq(STRING)
        BY <1>14, <3>1
      <4> HIDE DEF slash, top
      <4>2. top \o slash \in Seq(STRING)
        BY <4>1
      <4>. QED
        BY <4>2 DEF slash
    <3>3. more \o rest \in Seq(STRING)
      BY <2>1, <2>5, ConcatProperties
    <3>. QED
      BY <3>2, <3>3
  <2>7. head \o (n \o rest) = path \o tail
    <3> HIDE DEF head
    <3>1. n \o rest = file \o tail
      <4>0. file \in Seq(STRING) /\ more \in Seq(STRING) /\ rest \in Seq(STRING)
        BY <2>1, <2>2, <2>5
      <4>1. (file \o more) \o rest = file \o (more \o rest)
        BY <4>0, OneAfterOther
      <4>. QED
        BY <2>5, <4>1
    <3> HIDE DEF tail
    <3>2. head \in Seq(STRING) /\ file \in Seq(STRING) /\ tail \in Seq(STRING)
      BY <2>2, <2>6
    <3>3. head \o (file \o tail) = (head \o file) \o tail
      BY <3>2, OneAfterOther
    <3>4. path = head \o file
      BY <2>3 DEF head
    <3>. QED
      BY <3>1, <3>3, <3>4
  <2> HIDE DEF head, tail
  <2>8. Prefixes(path, path \o tail)
    BY <1>1, <2>6, PrefixOfLonger
  <2>. QED
    BY <2>7, <2>8 DEF head
<1>. QED
  BY <1>13, <1>14, <1>15 DEF Text

\* What a word is completed to are texts.
LEMMA BareIs ==
  ASSUME NEW path \in Text
  PROVE  Bare(path) \in Text /\ Len(Bare(path)) \in 0..Len(path)
<1> DEFINE kept == {i \in 1..Len(path) : path[i] # SLASH}
<1>1. Len(path) \in Nat
  BY DEF Text
<1>2. CASE kept = {}
  <2>1. Bare(path) = <<>>
    BY <1>2 DEF Bare
  <2>. QED
    BY <1>1, <2>1 DEF Text
<1>3. CASE kept # {}
  <2>1. PICK m \in kept : \A j \in kept : j <= m
    BY <1>1, <1>3, GreatestOf
  <2>2. \A i \in kept : i \in 1..Len(path)
    OBVIOUS
  <2> DEFINE n == CHOOSE i \in kept : \A j \in kept : i >= j
  <2>3. n \in kept
    <3>1. \A j \in kept : m >= j
      BY <1>1, <2>1, <2>2
    <3> HIDE DEF kept
    <3>. QED
      BY <2>1, <3>1
  <2>4. Bare(path) = SubSeq(path, 1, n)
    BY <1>3 DEF Bare
  <2>5. n \in 1..Len(path)
    BY <2>2, <2>3
  <2> HIDE DEF n
  <2>. QED
    BY <1>1, <2>4, <2>5 DEF Text
<1>. QED
  BY <1>2, <1>3

LEMMA ParentIs ==
  ASSUME NEW path \in Text
  PROVE  ParentDir(path) \in Text
<1>1. Bare(path) \in Text /\ Len(Bare(path)) \in 0..Len(path) /\ Len(path) \in Nat
  BY BareIs DEF Text
<1>2. LastCut(path) \in 0..Len(path)
  <2> DEFINE cuts == Cuts(path)
             c == CHOOSE i \in cuts : \A j \in cuts : i >= j
  <2>1. cuts \subseteq 1..Len(path)
    BY <1>1 DEF Cuts
  <2>2. CASE cuts = {}
    BY <1>1, <2>2 DEF LastCut
  <2>3. CASE cuts # {}
    <3> HIDE DEF cuts
    <3>1. PICK m \in cuts : \A j \in cuts : j <= m
      BY <1>1, <2>1, <2>3, GreatestOf
    <3>2. \A j \in cuts : m >= j
      BY <1>1, <2>1, <3>1
    <3>3. c \in cuts
      BY <3>1, <3>2
    <3>4. LastCut(path) = c
      BY <2>3 DEF LastCut, cuts
    <3> HIDE DEF c
    <3>. QED
      BY <1>1, <2>1, <3>3, <3>4
  <2>. QED
    BY <2>2, <2>3
<1> DEFINE dir == SubSeq(path, 1, LastCut(path))
<1>3. dir \in Text
  BY <1>1, <1>2 DEF Text
<1>4. Bare(dir) \in Text
  BY <1>3, BareIs
<1>5. <<SLASH>> \in Text
  BY SlashOrNone
<1>6. ParentDir(path) \in {<<SLASH>>, Bare(dir)}
  BY DEF ParentDir
<1>. QED
  BY <1>4, <1>5, <1>6

LEMMA WithSlashIs ==
  ASSUME NEW n \in Text
  PROVE  \E rest \in {<<>>, <<SLASH>>} : WithSlash(n) = n \o rest
<1>1. n \o <<>> = n
  BY DEF Text
<1>2. Append(n, SLASH) = n \o <<SLASH>>
  BY Marks, AppendIsConcat DEF Text
<1>. QED
  BY <1>1, <1>2 DEF WithSlash

LEMMA EntriesTyped == \A dir : EntriesOf(dir) \subseteq Text
<1>1. RootDir \subseteq Text /\ \A d \in SubDirs : SubEntries[d] \subseteq Text
  BY LineEditorAssumption DEF Text
<1>. QED
  BY <1>1 DEF EntriesOf

LEMMA PrefixGoesOn ==
  ASSUME NEW a \in Text, NEW n \in Text, Prefixes(a, n), NEW rest \in Text
  PROVE  Prefixes(a, n \o rest)
<1>1. a \in Seq(STRING) /\ n \in Seq(STRING) /\ rest \in Seq(STRING) /\ Len(a) \in Nat /\ Len(n) \in Nat
      /\ Len(a) <= Len(n)
  BY DEF Text, Prefixes
<1>2. Len(n \o rest) = Len(n) + Len(rest) /\ Len(rest) \in Nat
  BY <1>1
<1>3. SubSeq(n \o rest, 1, Len(a)) = SubSeq(n, 1, Len(a))
  <2>1. CASE Len(a) = 0
    BY <1>1, <1>2, <2>1
  <2>2. CASE Len(a) # 0
    <3>1. 1 \in 1..Len(n) /\ Len(a) \in 1..Len(n)
      BY <1>1, <2>2
    <3>. QED
      BY <1>1, <3>1, SubSeqOfConcat1
  <2>. QED
    BY <2>1, <2>2
<1>. QED
  BY <1>1, <1>2, <1>3 DEF Prefixes

LEMMA CompletionsTyped ==
  ASSUME NEW line \in Text
  PROVE  LastTyped(line) \in Text => Completions(line) \subseteq Text
<1> SUFFICES ASSUME LastTyped(line) \in Text
             PROVE  Completions(line) \subseteq Text
  OBVIOUS
<1> DEFINE word == LastTyped(line)
<1>1. /\ Builtins \subseteq Text /\ Subcommands \subseteq Text
      /\ ProcessNames \subseteq Text /\ HereDir \subseteq Text
  BY LineEditorAssumption DEF Text
<1>2. \A n \in Text : WithSlash(n) \in Text
  <2>1. ASSUME NEW n \in Text
        PROVE  WithSlash(n) \in Text
    <3>1. PICK rest \in {<<>>, <<SLASH>>} : WithSlash(n) = n \o rest
      BY WithSlashIs
    <3>2. rest \in Text
      BY SlashOrNone
    <3>. QED
      BY <3>1, <3>2 DEF Text
  <2>. QED
    BY <2>1
<1>3. ASSUME NEW n \in Text
      PROVE  (ParentDir(word) \o <<SLASH>>) \o WithSlash(n) \in Text
  <2> DEFINE slash == <<SLASH>>
  <2>1. slash \in Text /\ ParentDir(word) \in Text /\ WithSlash(n) \in Text
    BY <1>2, <1>3, ParentIs, SlashOrNone
  <2> HIDE DEF slash, word
  <2>2. (ParentDir(word) \o slash) \o WithSlash(n) \in Text
    BY <2>1 DEF Text
  <2>. QED
    BY <2>2 DEF slash
<1>4. PathsFor(word) \subseteq Text
  BY <1>1, <1>2, <1>3, EntriesTyped DEF PathsFor, StartingWith
<1>. QED
  BY <1>1, <1>4 DEF Completions, StartingWith

\* A plain word is completed by names that begin with it.
LEMMA GoesOn ==
  ASSUME NEW of \in Text, PlainWord(of), NEW name \in Completions(of)
  PROVE  Prefixes(LastTyped(of), name)
<1> DEFINE word == LastTyped(of)
<1>1. of # <<>> /\ of[Len(of)] # BLANK /\ of[Len(of)] # SLASH
  BY DEF PlainWord
<1>2. PICK pre \in Text, end \in Text : of = pre \o end /\ end # <<>> /\ word = end
  BY <1>1, EndsInWord
<1>3. word \in Text /\ word # <<>> /\ word[Len(word)] # SLASH
  <2>1. /\ pre \in Seq(STRING) /\ end \in Seq(STRING) /\ Len(pre) \in Nat /\ Len(end) \in Nat
        /\ Len(end) # 0
    BY <1>2 DEF Text
  <2>2. Len(pre \o end) = Len(pre) + Len(end) /\ (pre \o end)[Len(pre) + Len(end)] = end[Len(end)]
    BY <2>1
  <2>3. of[Len(of)] = end[Len(end)]
    BY <1>2, <2>2
  <2>. QED
    BY <1>1, <1>2, <2>3
<1>4. /\ word[1] = SLASH => ParentDir(word) # <<SLASH>>
      /\ \A i \in 2..Len(word) : word[i] = SLASH => word[i - 1] # SLASH
  BY DEF PlainWord
<1> HIDE DEF word
<1>5. ASSUME name \in PathsFor(word)
      PROVE  Prefixes(word, name)
  <2>1. CASE \E i \in 1..Len(word) : word[i] = SLASH
    <3>1. PICK n \in StartingWith(EntriesOf(ParentDir(word)), FileName(word)) :
            name = (ParentDir(word) \o <<SLASH>>) \o WithSlash(n)
      BY <1>5, <2>1 DEF PathsFor
    <3>2. n \in Text /\ Prefixes(FileName(word), n)
      BY <3>1, EntriesTyped DEF StartingWith
    <3>3. PICK rest \in {<<>>, <<SLASH>>} : WithSlash(n) = n \o rest
      BY <3>2, WithSlashIs
    <3>4. Prefixes(word, (ParentDir(word) \o <<SLASH>>) \o (n \o rest))
      BY <1>3, <1>4, <2>1, <3>2, PathIsPrefix
    <3>. QED
      BY <3>1, <3>3, <3>4
  <2>2. CASE ~\E i \in 1..Len(word) : word[i] = SLASH
    <3>1. PICK n \in HereDir : name = WithSlash(n) /\ Prefixes(word, n)
      BY <1>5, <2>2 DEF PathsFor, StartingWith
    <3>2. n \in Text
      BY LineEditorAssumption DEF Text
    <3>3. PICK rest \in {<<>>, <<SLASH>>} : WithSlash(n) = n \o rest
      BY <3>2, WithSlashIs
    <3>4. rest \in Text
      BY SlashOrNone
    <3>. QED
      BY <1>3, <3>1, <3>2, <3>3, <3>4, PrefixGoesOn
  <2>. QED
    BY <2>1, <2>2
<1>. QED
  BY <1>5 DEF Completions, StartingWith, word

\* The line then ends in that name.
LEMMA LineEndsInName ==
  ASSUME NEW of \in Text, PlainWord(of), NEW name \in Text, OneWord(name),
         Prefixes(LastTyped(of), name)
  PROVE  LastTyped(of \o Append(SubSeq(name, Len(LastTyped(of)) + 1, Len(name)), BLANK)) = name
<1> DEFINE typed == Len(LastTyped(of))
           more == SubSeq(name, typed + 1, Len(name))
           blank == <<BLANK>>
<1>1. of # <<>> /\ of[Len(of)] # BLANK
  BY DEF PlainWord
<1>2. PICK pre \in Text, word \in Text :
        /\ of = pre \o word /\ word # <<>> /\ OneWord(word)
        /\ pre = <<>> \/ pre[Len(pre)] = BLANK
        /\ LastTyped(of) = word
  BY <1>1, EndsInWord
<1>3. /\ word \in Seq(STRING) /\ name \in Seq(STRING) /\ pre \in Seq(STRING)
      /\ Len(word) \in Nat /\ Len(name) \in Nat /\ Len(word) <= Len(name) /\ Len(word) # 0
      /\ SubSeq(name, 1, Len(word)) = word
  BY <1>2 DEF Text, Prefixes
<1>4. more \in Seq(STRING) /\ name = word \o more
  <2>1. 1 \in 1..(Len(name) + 1) /\ Len(word) \in (1 - 1)..Len(name) /\ Len(name) \in Len(word)..Len(name)
    BY <1>3
  <2>2. SubSeq(name, 1, Len(word)) \o SubSeq(name, Len(word) + 1, Len(name)) = SubSeq(name, 1, Len(name))
    BY <1>3, <2>1, ConcatAdjacentSubSeq
  <2>3. SubSeq(name, Len(word) + 1, Len(name)) \in Seq(STRING)
    BY <1>3
  <2>. QED
    BY <1>2, <1>3, <2>2, <2>3, SubSeqFull
<1>5. blank \in Seq(STRING) /\ Append(more, BLANK) = more \o blank
  <2>1. blank \in Seq(STRING)
    BY BlankOrNone DEF Text
  <2>. QED
    BY <1>4, <2>1, Marks, AppendIsConcat
<1> HIDE DEF more, blank
<1>6. of \o (more \o blank) = (pre \o name) \o blank
  <2>1. (pre \o word) \o (more \o blank) = pre \o (word \o (more \o blank))
    <3>1. more \o blank \in Seq(STRING)
      BY <1>4, <1>5
    <3>. QED
      BY <1>3, <3>1, OneAfterOther
  <2>2. word \o (more \o blank) = name \o blank
    BY <1>3, <1>4, <1>5, OneAfterOther
  <2>3. pre \o (name \o blank) = (pre \o name) \o blank
    BY <1>3, <1>5, OneAfterOther
  <2>. QED
    BY <1>2, <2>1, <2>2, <2>3
<1>7. name # <<>>
  BY <1>3
<1>8. LastTyped((pre \o name) \o <<BLANK>>) = name
  BY <1>2, <1>7, LastWord
<1>. QED
  BY <1>5, <1>6, <1>8 DEF more, blank

\* The last word of any line is a text.
LEMMA LastTypedIs ==
  ASSUME NEW line \in Text
  PROVE  LastTyped(line) \in Text
<1> DEFINE starts == WordStarts(line)
           n == Len(line)
<1>1. n \in Nat /\ starts \subseteq 1..n
  BY DEF Text, WordStarts
<1>2. CASE starts = {}
  BY <1>2 DEF LastTyped, Text
<1>3. CASE starts # {}
  <2> DEFINE s == CHOOSE i \in starts : \A j \in starts : i >= j
  <2>1. s \in starts
    <3> HIDE DEF starts
    <3>1. PICK m \in starts : \A j \in starts : j <= m
      BY <1>1, <1>3, GreatestOf
    <3>2. \A j \in starts : m >= j
      BY <1>1, <3>1
    <3>. QED
      BY <3>1, <3>2
  <2>2. LastTyped(line) = WordAt(line, s)
    BY <1>3 DEF LastTyped
  <2> HIDE DEF s
  <2>3. s \in 1..n /\ line[s] # BLANK
    BY <1>1, <2>1 DEF WordStarts
  <2> DEFINE Ends(j) == /\ \A k \in s..j : line[k] # BLANK
                        /\ j = Len(line) \/ line[j + 1] = BLANK
             blanks == {k \in 1..n : k > s /\ line[k] = BLANK}
  <2>4. \E j \in s..n : Ends(j)
    <3>1. CASE blanks = {}
      <4>1. n \in s..n /\ Ends(n)
        BY <1>1, <2>3, <3>1
      <4>. QED
        BY <4>1
    <3>2. CASE blanks # {}
      <4>1. PICK b \in blanks : \A k \in blanks : b <= k
        <5>1. blanks \subseteq Nat
          OBVIOUS
        <5>. QED
          BY <3>2, <5>1, LeastOf
      <4>2. b \in 1..n /\ b > s /\ line[b] = BLANK
        BY <4>1
      <4>3. \A k \in s..(b - 1) : line[k] # BLANK
        <5>1. ASSUME NEW k \in s..(b - 1)
              PROVE  line[k] # BLANK
          <6>1. CASE k = s
            BY <2>3, <6>1
          <6>2. CASE k # s
            <7>1. k \in 1..n /\ k > s /\ ~(b <= k)
              BY <1>1, <2>3, <4>2, <6>2
            <7>. QED
              BY <4>1, <7>1
          <6>. QED
            BY <6>1, <6>2
        <5>. QED
          BY <5>1
      <4>4. b - 1 \in s..n /\ (b - 1) + 1 = b
        BY <1>1, <2>3, <4>2
      <4>. QED
        BY <4>2, <4>3, <4>4
    <3>. QED
      BY <3>1, <3>2
  <2> DEFINE e == CHOOSE j \in s..n : Ends(j)
  <2>5. e \in s..n
    BY <2>4
  <2>6. WordAt(line, s) = SubSeq(line, s, e)
    BY DEF WordAt
  <2> HIDE DEF e
  <2>7. SubSeq(line, s, e) \in Text
    BY <1>1, <2>3, <2>5 DEF Text
  <2>. QED
    BY <2>2, <2>6, <2>7
<1>. QED
  BY <1>2, <1>3

-----------------------------------------------------------------------------
Terminals == [open : BOOLEAN, line : Text, shown : Text, wide : BOOLEAN, returned : BOOLEAN,
              tab : [of : Text, to : SUBSET Text]]

\* What LineIsSeen says, of any terminal.
Seen(t) ==
  /\ t.wide \/ t.shown = t.line
  /\ \A name \in t.tab.to :
       PlainWord(t.tab.of) /\ OneWord(name) => LastTyped(t.line) = name

LEMMA NewIsSeen ==
  NewTerminal \in Terminals /\ Seen(NewTerminal) /\ NewTerminal.tab = NoTab /\ NoTab \in [of : Text, to : SUBSET Text]
  BY DEF NewTerminal, NoTab, Terminals, Seen, Text

LEMMA WrittenIsSeen ==
  ASSUME NEW t \in Terminals, t.tab = NoTab, NEW line \in Text, NEW shown \in Text,
         t.wide \/ shown = line
  PROVE  /\ [t EXCEPT !.line = line, !.shown = shown] \in Terminals
         /\ Seen([t EXCEPT !.line = line, !.shown = shown])
<1> DEFINE v == [t EXCEPT !.line = line, !.shown = shown]
<1>1. v \in Terminals /\ v.shown = shown /\ v.line = line /\ v.wide = t.wide /\ v.tab = NoTab
  BY DEF Terminals
<1> HIDE DEF v
<1>2. v \in Terminals /\ Seen(v)
  BY <1>1 DEF Seen, NoTab
<1>. QED
  BY <1>2 DEF v

\* A wide character is two or more in the line, and one on the screen.
LEMMA WideIsSeen ==
  ASSUME NEW t \in Terminals, t.tab = NoTab, NEW key \in Wide
  PROVE  WideTyped(t, key) \in Terminals /\ Seen(WideTyped(t, key))
<1> DEFINE line == t.line \o LatinOf[key]
           shown == Append(t.shown, key)
           v == [t EXCEPT !.line = line, !.shown = shown, !.wide = TRUE]
<1>1. line \in Text /\ shown \in Text
  <2>1. t.line \in Seq(STRING) /\ t.shown \in Seq(STRING) /\ LatinOf[key] \in Seq(STRING) /\ key \in STRING
    BY LineEditorAssumption DEF Terminals, Text
  <2>. QED
    BY <2>1, AppendProperties DEF Text
<1>2. WideTyped(t, key) = v
  BY DEF WideTyped, Terminals
<1> HIDE DEF line, shown
<1>3. v \in Terminals /\ v.wide /\ v.tab = NoTab
  BY <1>1 DEF Terminals
<1> HIDE DEF v
<1>. QED
  BY <1>2, <1>3 DEF Seen, NoTab

LEMMA TabSeen ==
  ASSUME NEW t \in Terminals, t.wide \/ t.shown = t.line, t.tab = NoTab
  PROVE  TabPressed(t) \in Terminals /\ Seen(TabPressed(t))
<1>1. t.line \in Text /\ t.shown \in Text
  BY DEF Terminals
<1>2. Seen(t)
  BY DEF Seen, NoTab
<1>3. ListedAgain(t) \in Terminals /\ Seen(ListedAgain(t))
  <2> DEFINE v == [t EXCEPT !.shown = t.line, !.wide = FALSE, !.returned = TRUE]
  <2>1. v \in Terminals /\ v.shown = t.line /\ v.line = t.line /\ v.tab = NoTab
    BY <1>1 DEF Terminals
  <2>2. ListedAgain(t) = v
    BY DEF ListedAgain
  <2> HIDE DEF v
  <2>. QED
    BY <2>1, <2>2 DEF Seen, NoTab
<1>4. ASSUME NEW name \in Completions(t.line)
      PROVE  CompletedWith(t, name) \in Terminals /\ Seen(CompletedWith(t, name))
  <2> DEFINE typed == Len(LastTyped(t.line))
             rest == Append(SubSeq(name, typed + 1, Len(name)), BLANK)
             left == [t EXCEPT !.open = FALSE, !.returned = TRUE]
             done == [t EXCEPT !.line = @ \o rest, !.shown = @ \o rest, !.tab = [of |-> t.line, to |-> {name}]]
  <2>1. LastTyped(t.line) \in Text /\ name \in Text
    BY <1>1, LastTypedIs, CompletionsTyped
  <2>2. typed \in Nat /\ Len(name) \in Nat
    BY <2>1 DEF Text
  <2>3. CompletedWith(t, name) = IF typed > Len(name) THEN left ELSE done
    BY DEF CompletedWith
  <2>4. left \in Terminals /\ Seen(left)
    BY <1>2 DEF Terminals, Seen
  <2>5. CASE ~(typed > Len(name))
    <3>1. SubSeq(name, typed + 1, Len(name)) \in Seq(STRING)
      BY <2>1, <2>2, <2>5 DEF Text
    <3>2. rest \in Seq(STRING)
      BY <3>1, Marks, AppendProperties
    <3> HIDE DEF rest
    <3>3. t.line \o rest \in Text /\ t.shown \o rest \in Text
      BY <1>1, <3>2 DEF Text
    <3>4. done = [t EXCEPT !.line = t.line \o rest, !.shown = t.shown \o rest, !.tab = [of |-> t.line, to |-> {name}]]
      BY DEF Terminals
    <3>5. /\ done \in Terminals /\ done.line = t.line \o rest /\ done.shown = t.shown \o rest
          /\ done.wide = t.wide /\ done.tab.of = t.line /\ done.tab.to = {name}
      BY <1>1, <2>1, <3>3, <3>4 DEF Terminals
    <3>6. ASSUME PlainWord(t.line), OneWord(name)
          PROVE  LastTyped(t.line \o rest) = name
      <4>1. Prefixes(LastTyped(t.line), name)
        BY <1>1, <1>4, <3>6, GoesOn
      <4>. QED
        BY <1>1, <2>1, <3>6, <4>1, LineEndsInName DEF rest
    <3> HIDE DEF done
    <3>7. Seen(done)
      <4>1. done.wide \/ done.shown = done.line
        BY <3>5
      <4>. QED
        BY <3>5, <3>6, <4>1 DEF Seen
    <3>. QED
      BY <2>3, <2>5, <3>5, <3>7
  <2>. QED
    BY <2>3, <2>4, <2>5
<1>5. CASE Completions(t.line) = {}
  BY <1>2, <1>5 DEF TabPressed
<1>6. CASE Completions(t.line) # {}
  <2> DEFINE one == CHOOSE n \in Completions(t.line) : TRUE
  <2>1. one \in Completions(t.line)
    BY <1>6
  <2>2. TabPressed(t) \in {CompletedWith(t, one), ListedAgain(t)}
    BY <1>6 DEF TabPressed
  <2>. QED
    BY <1>3, <1>4, <2>1, <2>2
<1>. QED
  BY <1>5, <1>6

\* Whatever a key does, what is shown is the line, or the line is wide.
LEMMA KeySeen ==
  ASSUME NEW t \in Terminals, Seen(t), NEW key \in Keys
  PROVE  Key(t, key) \in Terminals /\ Seen(Key(t, key))
<1> DEFINE u == [t EXCEPT !.tab = NoTab]
<1>1. /\ u \in Terminals /\ u.tab = NoTab /\ (u.wide \/ u.shown = u.line)
      /\ u.line \in Text /\ u.shown \in Text
      /\ Seen(u)
  BY NewIsSeen DEF Terminals, Seen, NoTab
<1> HIDE DEF u
<1>2. CASE t.returned
  BY <1>2 DEF Key
<1>3. CASE ~t.returned /\ key \in Typed
  <2>1. Key(t, key) = [u EXCEPT !.line = Append(u.line, key), !.shown = Append(u.shown, key)]
    BY <1>1, <1>3 DEF Key, u
  <2>2. Append(u.line, key) \in Text /\ Append(u.shown, key) \in Text
    BY <1>1, <1>3, LineEditorAssumption, AppendProperties DEF Text
  <2>. QED
    BY <1>1, <2>1, <2>2, WrittenIsSeen
<1>10. CASE ~t.returned /\ key \notin Typed /\ key \in Wide
  <2>1. Key(t, key) = WideTyped(u, key)
    BY <1>10 DEF Key, u
  <2>. QED
    BY <1>1, <1>10, <2>1, WideIsSeen
<1>4. CASE ~t.returned /\ key \notin Typed \cup Wide /\ key = "enter"
  <2>1. Key(t, key) = Entered(u)
    BY <1>4 DEF Key, u
  <2>. QED
    BY <2>1, NewIsSeen DEF Entered, Terminals, Seen
<1>5. CASE ~t.returned /\ key \notin Typed \cup Wide /\ key = "backspace"
  <2>1. Key(t, key) = Erased(u)
    BY <1>5 DEF Key, u
  <2>2. CASE u.line = <<>>
    BY <1>1, <2>1, <2>2 DEF Erased
  <2>3. CASE u.line # <<>>
    <3>1. \A s \in Text : AllButLast(s) \in Text
      <4>1. ASSUME NEW s \in Text, s # <<>>
            PROVE  SubSeq(s, 1, Len(s) - 1) \in Text
        BY <4>1 DEF Text
      <4>. QED
        BY <4>1 DEF AllButLast
    <3>2. Key(t, key) = [u EXCEPT !.line = AllButLast(u.line), !.shown = AllButLast(u.shown)]
      BY <1>1, <2>1, <2>3 DEF Erased
    <3>. QED
      BY <1>1, <3>1, <3>2, WrittenIsSeen
  <2>. QED
    BY <2>2, <2>3
<1>6. CASE ~t.returned /\ key \notin Typed \cup Wide /\ key = "ctrl-c"
  <2>1. Key(t, key) = [NewTerminal EXCEPT !.returned = TRUE]
    BY <1>6 DEF Key
  <2>. QED
    BY <2>1, NewIsSeen DEF Terminals, Seen
<1>7. CASE ~t.returned /\ key \notin Typed \cup Wide /\ key = "ctrl-d"
  <2>1. Key(t, key) = EndOfInput(u)
    BY <1>7 DEF Key, u
  <2>. QED
    BY <1>1, <2>1 DEF EndOfInput, Terminals, Seen, NoTab
<1>8. CASE ~t.returned /\ key \notin Typed \cup Wide /\ key = "tab"
  <2>1. Key(t, key) = TabPressed(u)
    BY <1>8 DEF Key, u
  <2>. QED
    BY <1>1, <2>1, TabSeen
<1>9. CASE ~t.returned /\ key \notin Typed \cup Wide /\ key = "other"
  <2>1. Key(t, key) = u
    BY <1>9 DEF Key, u
  <2>. QED
    BY <1>1, <2>1
<1>. QED
  BY <1>2, <1>3, <1>4, <1>5, <1>6, <1>7, <1>8, <1>9, <1>10 DEF Keys, Special

TerminalInv == terminal \in Terminals /\ Seen(terminal)

\* A terminal between two calls of data holds a line of characters, and what it shows is
\* that line, or the line has had a wide character since it was last shown whole: the
\* inductive invariant.
THEOREM TerminalInvCorrect == LineEditorSpec => []TerminalInv
<1>1. LineEditorInit => TerminalInv
  BY NewIsSeen DEF LineEditorInit, TerminalInv
<1>2. ASSUME TerminalInv, Data
      PROVE  TerminalInv'
  <2>1. ASSUME NEW t \in Terminals, Seen(t), terminal' = [t EXCEPT !.returned = FALSE]
        PROVE  TerminalInv'
    BY <2>1 DEF TerminalInv, Terminals, Seen
  <2>2. PICK key \in Keys :
          \/ terminal' = [Key(terminal, key) EXCEPT !.returned = FALSE]
          \/ \E next \in Keys : terminal' = [Key(Key(terminal, key), next) EXCEPT !.returned = FALSE]
    BY <1>2 DEF Data
  <2>3. Key(terminal, key) \in Terminals /\ Seen(Key(terminal, key))
    BY <1>2, KeySeen DEF TerminalInv
  <2>4. ASSUME NEW next \in Keys
        PROVE  Key(Key(terminal, key), next) \in Terminals /\ Seen(Key(Key(terminal, key), next))
    BY <2>3, KeySeen
  <2>. QED
    BY <2>1, <2>2, <2>3, <2>4
<1>3. TerminalInv /\ UNCHANGED terminalVars => TerminalInv'
  BY DEF TerminalInv, terminalVars
<1>. QED
  BY <1>1, <1>2, <1>3, PTL DEF LineEditorSpec, LineEditorNext

\* README.md:972, "Tab completion (commands, process names, paths)": whatever is typed,
\* erased, completed or listed, what stands after the prompt is the line that Enter will
\* run, unless a character outside ASCII was typed since it was begun or listed; and a word
\* that Tab completes becomes the name it stood for, but for a word that a blank follows, a
\* path in "/", one with two slashes together or at the end and a name with a blank in it.
THEOREM LineIsSeenCorrect == LineEditorSpec => []LineIsSeen
<1>1. TerminalInv => LineIsSeen
  BY DEF TerminalInv, Seen, LineIsSeen
<1>. QED
  BY <1>1, TerminalInvCorrect, PTL
===============================================================================
