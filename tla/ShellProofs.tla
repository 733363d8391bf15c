----------------------------- MODULE ShellProofs -----------------------------
(***************************************************************************)
(* The shell for lines and paths of every length, every argument limit,    *)
(* every size of the path buffers with whatever they held, and every set   *)
(* of volumes.                                                             *)
(***************************************************************************)
EXTENDS Shell, Recursion, SequenceTheorems

(* The characters there are in strings, and what buffers hold: what is     *)
(* typed and what is left over on the stack.                               *)
InLines == UNION {Range(input.line) : input \in Typed}
LeftOver == UNION {Range(junk) : junk \in Junk}
Letters == {"/", "space", "quote", "backslash", Nul} \cup InLines \cup LeftOver
Chars == Letters \ {Nul}
Strings == Seq(Chars)

-----------------------------------------------------------------------------
(* parse_args()                                                            *)

(* There is always room in argv[] for the null pointer.                    *)
Parses == [args : {args \in Seq(Strings) : Len(args) < MaxArgv}, cur : Seq(Strings),
           quoted : BOOLEAN, hide : BOOLEAN, stop : BOOLEAN]

LEMMA AppendFacts ==
    ASSUME NEW S, NEW s \in Seq(S), NEW e \in S
    PROVE  Append(s, e) \in Seq(S) /\ Len(Append(s, e)) = Len(s) + 1 /\ Len(s) \in Nat
BY AppendProperties

LEMMA TextFacts == ASSUME NEW cur \in Seq(Strings) PROVE Text(cur) \in Strings
<1>1. CASE cur = <<>>
  BY <1>1 DEF Text, Strings
<1>2. CASE cur # <<>>
  <2>1. 1 \in 1 .. Len(cur)
    BY <1>2, EmptySeq
  <2>2. cur[1] \in Strings
    BY <2>1, ElementOfSeq
  <2> QED
    BY <1>2, <2>2 DEF Text
<1> QED
  BY <1>1, <1>2

LEMMA TakeCharType ==
    ASSUME NEW s \in Parses, NEW ch \in Chars
    PROVE  TakeChar(s, ch) \in Parses
<1>1. /\ s.args \in Seq(Strings) /\ Len(s.args) \in Nat /\ Len(s.args) < MaxArgv
      /\ s.cur \in Seq(Strings) /\ s.hide \in BOOLEAN /\ s.stop \in BOOLEAN /\ s.quoted \in BOOLEAN
  BY DEF Parses
<1>2. Text(s.cur) \in Strings /\ Append(Text(s.cur), ch) \in Strings
  BY <1>1, TextFacts, AppendFacts DEF Strings
<1>3. <<Append(Text(s.cur), ch)>> \in Seq(Strings) /\ <<Text(s.cur)>> \in Seq(Strings) /\ <<>> \in Seq(Strings)
  BY <1>2
<1>4. CASE s.stop
  BY <1>4 DEF TakeChar
<1>5. CASE ~ s.stop /\ s.hide
  <2>1. TakeChar(s, ch) = [s EXCEPT !.hide = FALSE,
            !.cur = IF ch \in {"quote", "backslash"} THEN <<Append(Text(s.cur), ch)>> ELSE s.cur]
    BY <1>5 DEF TakeChar
  <2> QED
    BY <1>1, <1>3, <2>1 DEF Parses
<1>6. CASE ~ s.stop /\ ~ s.hide /\ ch = "space" /\ ~ s.quoted
  <2>1. TakeChar(s, ch) = IF s.cur = <<>> THEN s
                          ELSE IF Len(s.args) >= MaxArgv - 1 THEN [s EXCEPT !.stop = TRUE]
                          ELSE [s EXCEPT !.args = Append(@, Text(s.cur)), !.cur = <<>>]
    BY <1>6 DEF TakeChar
  <2>2. ASSUME ~ (Len(s.args) >= MaxArgv - 1)
        PROVE  Append(s.args, Text(s.cur)) \in {args \in Seq(Strings) : Len(args) < MaxArgv}
    BY <1>1, <1>2, <2>2, AppendFacts, ShellAssumption
  <2>3. [s EXCEPT !.stop = TRUE] \in Parses
    BY DEF Parses
  <2>4. ~ (Len(s.args) >= MaxArgv - 1) => [s EXCEPT !.args = Append(@, Text(s.cur)), !.cur = <<>>] \in Parses
    BY <1>1, <1>3, <2>2 DEF Parses
  <2> QED
    BY <2>1, <2>3, <2>4
<1>7. CASE ~ s.stop /\ ~ s.hide /\ ch = "quote"
  <2>1. TakeChar(s, ch) = [s EXCEPT !.quoted = ~ @]
    BY <1>7 DEF TakeChar
  <2> QED
    BY <1>1, <2>1 DEF Parses
<1>8. CASE ~ s.stop /\ ~ s.hide /\ ch = "backslash"
  <2>1. TakeChar(s, ch) = [s EXCEPT !.hide = TRUE, !.cur = <<Text(s.cur)>>]
    BY <1>8 DEF TakeChar
  <2> QED
    BY <1>1, <1>3, <2>1 DEF Parses
<1>9. CASE ~ s.stop /\ ~ s.hide /\ ~ (ch = "space" /\ ~ s.quoted) /\ ch # "quote" /\ ch # "backslash"
  <2>1. TakeChar(s, ch) = [s EXCEPT !.cur = <<Append(Text(s.cur), ch)>>]
    BY <1>9 DEF TakeChar
  <2> QED
    BY <1>1, <1>3, <2>1 DEF Parses
<1> QED
  BY <1>4, <1>5, <1>6, <1>7, <1>8, <1>9

(* parse_args() from a state on.                                           *)
Taking(start, line) ==
    LET f[i \in 0 .. Len(line)] == IF i = 0 THEN start ELSE TakeChar(f[i - 1], line[i]) IN f

LEMMA TakingFacts ==
    ASSUME NEW start \in Parses, NEW line \in Strings
    PROVE  /\ Taking(start, line)[0] = start
           /\ \A i \in 0 .. Len(line) : Taking(start, line)[i] \in Parses
           /\ \A i \in 1 .. Len(line) : Taking(start, line)[i] = TakeChar(Taking(start, line)[i - 1], line[i])
<1>1. PICK N \in Nat : N = Len(line)
  BY DEF Strings
<1>2. \A i \in 1 .. N : line[i] \in Chars
  BY <1>1, ElementOfSeq DEF Strings
<1>3. PICK step : step = [i \in 1 .. N |-> [s \in Parses |-> TakeChar(s, line[i])]]
  OBVIOUS
<1>4. step \in [1 .. N -> [Parses -> Parses]]
  BY <1>2, <1>3, TakeCharType
<1>5. PICK f \in [0 .. N -> Parses] : Follows(f, N, start, step)
  BY <1>4, RecursionExists
<1>6. f[0] = start /\ \A i \in 1 .. N : f[i] = TakeChar(f[i - 1], line[i])
  <2>1. ASSUME NEW i \in 1 .. N PROVE f[i] = TakeChar(f[i - 1], line[i])
    <3>1. f[i] = step[i][f[i - 1]] /\ f[i - 1] \in Parses
      BY <1>5 DEF Follows
    <3> QED
      BY <1>3, <3>1
  <2> QED
    BY <1>5, <2>1 DEF Follows
<1>7. f = [i \in 0 .. N |-> IF i = 0 THEN start ELSE TakeChar(f[i - 1], line[i])]
  BY <1>5, <1>6
<1>8. PICK g : /\ g = Taking(start, line)
               /\ g = [i \in 0 .. N |-> IF i = 0 THEN start ELSE TakeChar(g[i - 1], line[i])]
  <2>1. Taking(start, line) = CHOOSE h : h = [i \in 0 .. N |-> IF i = 0 THEN start ELSE TakeChar(h[i - 1], line[i])]
    BY <1>1 DEF Taking
  <2>2. \E h : h = [i \in 0 .. N |-> IF i = 0 THEN start ELSE TakeChar(h[i - 1], line[i])]
    BY <1>7
  <2> QED
    BY <2>1, <2>2
<1>9. g[0] = start /\ \A i \in 1 .. N : g[i] = TakeChar(g[i - 1], line[i])
  BY <1>8
<1> DEFINE S == {i \in 0 .. N : g[i] \in Parses}
<1>10. 0 \in S
  BY <1>9
<1>11. \A i \in 0 .. N - 1 : i \in S => i + 1 \in S
  <2> TAKE i \in 0 .. N - 1
  <2> HAVE i \in S
  <2>1. i + 1 \in 1 .. N /\ i + 1 \in 0 .. N /\ (i + 1) - 1 = i /\ g[i] \in Parses
    OBVIOUS
  <2>2. g[i + 1] = TakeChar(g[i], line[i + 1]) /\ line[i + 1] \in Chars
    BY <1>2, <1>9, <2>1
  <2>3. g[i + 1] \in Parses
    BY <2>1, <2>2, TakeCharType
  <2> QED
    BY <2>1, <2>3
<1> HIDE DEF S
<1>12. \A i \in 0 .. N : i \in S
  BY <1>10, <1>11, IntervalInduction
<1> QED
  BY <1>1, <1>8, <1>9, <1>12 DEF S

LEMMA NothingParsedType == NothingParsed \in Parses
<1>1. <<>> \in Seq(Strings) /\ Len(<<>>) = 0 /\ 0 < MaxArgv
  BY ShellAssumption
<1> QED
  BY <1>1 DEF NothingParsed, Parses

LEMMA ParsingFacts ==
    ASSUME NEW line \in Strings
    PROVE  /\ Parsing(line)[0] = NothingParsed
           /\ \A i \in 0 .. Len(line) : Parsing(line)[i] \in Parses
           /\ \A i \in 1 .. Len(line) : Parsing(line)[i] = TakeChar(Parsing(line)[i - 1], line[i])
<1>1. Parsing(line) = Taking(NothingParsed, line)
  BY DEF Parsing, Taking
<1> QED
  BY <1>1, NothingParsedType, TakingFacts

(* The arguments leave room for the null pointer behind them.              *)
LEMMA ParseArgsType ==
    ASSUME NEW line \in Strings
    PROVE  ParseArgs(line) \in Seq(Strings) /\ Len(ParseArgs(line)) + 1 <= MaxArgv
<1>1. PICK s \in Parses : s = Parsing(line)[Len(line)]
  <2>1. Len(line) \in 0 .. Len(line)
    BY DEF Strings
  <2> QED
    BY <2>1, ParsingFacts
<1>2. /\ s.args \in Seq(Strings) /\ Len(s.args) \in Nat /\ Len(s.args) < MaxArgv /\ Text(s.cur) \in Strings
  BY TextFacts DEF Parses
<1>3. /\ Append(s.args, Text(s.cur)) \in Seq(Strings)
      /\ Len(Append(s.args, Text(s.cur))) = Len(s.args) + 1
  BY <1>2, AppendFacts
<1>4. ParseArgs(line) = IF s.cur # <<>> /\ Len(s.args) < MaxArgv - 1 THEN Append(s.args, Text(s.cur)) ELSE s.args
  BY <1>1 DEF ParseArgs
<1>5. MaxArgv \in Nat
  BY ShellAssumption
<1> QED
  BY <1>2, <1>3, <1>4, <1>5

-----------------------------------------------------------------------------
(* The segments of a path.                                                 *)

SegmentSet == [slash : BOOLEAN, text : Strings]

LEMMA LongerFacts ==
    ASSUME NEW segment \in SegmentSet, NEW ch \in Chars
    PROVE  /\ Longer(segment, ch) \in SegmentSet
           /\ Longer(segment, ch).slash = segment.slash
           /\ Longer(segment, ch).text = Append(segment.text, ch)
<1>1. PICK slash \in BOOLEAN, text \in Strings : segment = [slash |-> slash, text |-> text]
  BY DEF SegmentSet
<1>2. Append(text, ch) \in Strings
  BY AppendFacts DEF Strings
<1>3. PICK longer : longer = Append(text, ch)
  OBVIOUS
<1>4. Append(segment.text, ch) = longer
  BY <1>1, <1>3
<1>5. Longer(segment, ch) = [segment EXCEPT !.text = longer]
  BY <1>4 DEF Longer
<1>6. Longer(segment, ch) = [slash |-> slash, text |-> longer]
  BY <1>1, <1>5
<1>7. Longer(segment, ch).slash = slash /\ Longer(segment, ch).text = longer /\ segment.slash = slash
  BY <1>1, <1>6
<1>8. Longer(segment, ch) \in SegmentSet
  BY <1>2, <1>3, <1>4, <1>6, <1>1 DEF SegmentSet
<1> QED
  BY <1>4, <1>7, <1>8

LEMMA WithCharFacts ==
    ASSUME NEW segs \in Seq(SegmentSet), NEW before, NEW ch \in Chars
    PROVE  /\ WithChar(segs, before, ch) \in Seq(SegmentSet)
           /\ Len(WithChar(segs, before, ch)) >= Len(segs)
           /\ segs = <<>> /\ ch # "/" => WithChar(segs, before, ch) = <<[slash |-> FALSE, text |-> <<ch>>]>>
           /\ segs = <<>> /\ ch = "/" /\ before # "/" =>
                  WithChar(segs, before, ch) = <<[slash |-> TRUE, text |-> <<>>]>>
           /\ segs # <<>> => WithChar(segs, before, ch)[1].slash = segs[1].slash
           /\ Len(segs) = 1 /\ ch # "/" => WithChar(segs, before, ch) = <<Longer(segs[1], ch)>>
           /\ Len(segs) = 1 /\ ch = "/" /\ before # "/" =>
                  Len(WithChar(segs, before, ch)) = 2 /\ WithChar(segs, before, ch)[1] = segs[1]
           /\ Len(segs) >= 2 => WithChar(segs, before, ch)[1] = segs[1]
<1> DEFINE r == WithChar(segs, before, ch)
<1>1. PICK n \in Nat : n = Len(segs) /\ (segs = <<>> <=> n = 0)
  BY EmptySeq
<1>2. CASE ch = "/" /\ before = "/"
  BY <1>1, <1>2 DEF WithChar
<1>3. CASE ch = "/" /\ before # "/"
  <2>1. [slash |-> TRUE, text |-> <<>>] \in SegmentSet
    BY DEF SegmentSet, Strings
  <2>2. r = Append(segs, [slash |-> TRUE, text |-> <<>>])
    BY <1>3 DEF WithChar
  <2>3. /\ r \in Seq(SegmentSet) /\ Len(r) = n + 1 /\ \A i \in 1 .. n : r[i] = segs[i]
        /\ r[n + 1] = [slash |-> TRUE, text |-> <<>>]
    BY <1>1, <2>1, <2>2, AppendProperties
  <2>4. segs = <<>> => r = <<[slash |-> TRUE, text |-> <<>>]>>
    BY <2>2
  <2> HIDE DEF r
  <2>5. n >= 1 => r[1] = segs[1]
    BY <2>3
  <2>6. Len(r) >= n /\ (n = 1 => Len(r) = 2)
    BY <2>3
  <2>7. segs # <<>> => n >= 1
    BY <1>1
  <2> QED
    BY <1>1, <1>3, <2>3, <2>4, <2>5, <2>6, <2>7 DEF r
<1>4. CASE ch # "/" /\ segs = <<>>
  <2>1. r = <<[slash |-> FALSE, text |-> <<ch>>]>>
    BY <1>4 DEF WithChar
  <2>2. <<ch>> \in Strings
    BY DEF Strings
  <2>3. [slash |-> FALSE, text |-> <<ch>>] \in SegmentSet
    BY <2>2 DEF SegmentSet
  <2> HIDE DEF r
  <2>4. r \in Seq(SegmentSet) /\ Len(r) = 1
    BY <2>1, <2>3
  <2> QED
    BY <1>1, <1>4, <2>1, <2>4 DEF r
<1>5. CASE ch # "/" /\ segs # <<>>
  <2>1. n >= 1 /\ n - 1 \in Nat /\ \A i \in 1 .. n : segs[i] \in SegmentSet
    BY <1>1, <1>5, ElementOfSeq
  <2>2. PICK front : front = SubSeq(segs, 1, n - 1)
    OBVIOUS
  <2>3. front \in Seq(SegmentSet) /\ Len(front) = n - 1 /\ \A i \in 1 .. n - 1 : front[i] = segs[i]
    <3>1. 1 \in Int /\ n - 1 \in Int /\ \A i \in 1 .. n - 1 : segs[i] \in SegmentSet
      BY <2>1
    <3>2. /\ SubSeq(segs, 1, n - 1) \in Seq(SegmentSet)
          /\ Len(SubSeq(segs, 1, n - 1)) = IF 1 <= n - 1 THEN n - 1 - 1 + 1 ELSE 0
          /\ \A i \in 1 .. n - 1 - 1 + 1 : SubSeq(segs, 1, n - 1)[i] = segs[1 + i - 1]
      BY <3>1, SubSeqProperties
    <3>3. /\ (IF 1 <= n - 1 THEN n - 1 - 1 + 1 ELSE 0) = n - 1 /\ n - 1 - 1 + 1 = n - 1
          /\ \A i \in 1 .. n - 1 : 1 + i - 1 = i
      BY <2>1
    <3> QED
      BY <2>2, <3>2, <3>3
  <2>4. PICK old \in SegmentSet : old = segs[n]
    BY <2>1
  <2>5. PICK more \in SegmentSet : more = Longer(old, ch) /\ more.slash = old.slash
    BY LongerFacts
  <2>6. r = Append(front, more)
    BY <1>1, <1>5, <2>2, <2>4, <2>5 DEF WithChar, Front, Last
  <2>7. /\ r \in Seq(SegmentSet) /\ Len(r) = n /\ \A i \in 1 .. n - 1 : r[i] = segs[i]
        /\ r[n] = more
    <3>1. /\ Append(front, more) \in Seq(SegmentSet) /\ Len(Append(front, more)) = n - 1 + 1
          /\ \A i \in 1 .. n - 1 : Append(front, more)[i] = front[i]
          /\ Append(front, more)[n - 1 + 1] = more
      BY <2>3, AppendProperties
    <3>2. n - 1 + 1 = n
      BY <2>1
    <3> QED
      BY <2>3, <2>6, <3>1, <3>2
  <2> HIDE DEF r
  <2>8. r[1].slash = segs[1].slash
    <3>1. CASE n = 1
      BY <2>4, <2>5, <2>7, <3>1
    <3>2. CASE n # 1
      <4>1. 1 \in 1 .. n - 1
        BY <2>1, <3>2
      <4> QED
        BY <2>7, <4>1
    <3> QED
      BY <3>1, <3>2
  <2>9. n >= 2 => r[1] = segs[1]
    <3>1. n >= 2 => 1 \in 1 .. n - 1
      BY <2>1
    <3> QED
      BY <2>7, <3>1
  <2>10. n = 1 => r = <<Longer(segs[1], ch)>>
    <3>1. n = 1 => Len(r) = 1 /\ r[1] = Longer(segs[1], ch)
      BY <2>4, <2>5, <2>7
    <3>2. r \in Seq(SegmentSet) /\ Longer(segs[1], ch) = Longer(segs[1], ch)
      BY <2>7
    <3>3. Len(r) = 1 => r = <<r[1]>>
      BY <3>2
    <3> QED
      BY <3>1, <3>3
  <2> QED
    BY <1>1, <1>5, <2>7, <2>8, <2>9, <2>10 DEF r
<1> QED
  BY <1>2, <1>3, <1>4, <1>5

LEMMA SegmentingFacts ==
    ASSUME NEW path \in Strings
    PROVE  /\ Segmenting(path)[0] = <<>>
           /\ \A i \in 0 .. Len(path) : Segmenting(path)[i] \in Seq(SegmentSet)
           /\ \A i \in 1 .. Len(path) : Segmenting(path)[i]
                  = WithChar(Segmenting(path)[i - 1], IF i = 1 THEN Nul ELSE path[i - 1], path[i])
<1> DEFINE Before(i) == IF i = 1 THEN Nul ELSE path[i - 1]
           V == Seq(SegmentSet)
<1>1. PICK N \in Nat : N = Len(path)
  BY DEF Strings
<1>2. \A i \in 1 .. N : path[i] \in Chars
  BY <1>1, ElementOfSeq DEF Strings
<1>3. <<>> \in V
  OBVIOUS
<1>4. PICK step : step = [i \in 1 .. N |-> [s \in V |-> WithChar(s, Before(i), path[i])]]
  OBVIOUS
<1> HIDE DEF Before
<1>5. step \in [1 .. N -> [V -> V]]
  BY <1>2, <1>4, WithCharFacts
<1> HIDE DEF V
<1>6. PICK f \in [0 .. N -> V] : Follows(f, N, <<>>, step)
  BY <1>3, <1>5, RecursionExists
<1>7. f[0] = <<>> /\ \A i \in 1 .. N : f[i] = WithChar(f[i - 1], Before(i), path[i])
  <2>1. ASSUME NEW i \in 1 .. N PROVE f[i] = WithChar(f[i - 1], Before(i), path[i])
    <3>1. f[i] = step[i][f[i - 1]] /\ f[i - 1] \in V
      BY <1>6 DEF Follows
    <3> QED
      BY <1>4, <3>1
  <2> QED
    BY <1>6, <2>1 DEF Follows
<1>8. f = [i \in 0 .. N |-> IF i = 0 THEN <<>> ELSE WithChar(f[i - 1], Before(i), path[i])]
  BY <1>6, <1>7
<1>9. PICK g : /\ g = Segmenting(path)
               /\ g = [i \in 0 .. N |-> IF i = 0 THEN <<>> ELSE WithChar(g[i - 1], Before(i), path[i])]
  <2>1. Segmenting(path) = CHOOSE h : h = [i \in 0 .. N |-> IF i = 0 THEN <<>> ELSE WithChar(h[i - 1], Before(i), path[i])]
    BY <1>1 DEF Segmenting, Before
  <2>2. \E h : h = [i \in 0 .. N |-> IF i = 0 THEN <<>> ELSE WithChar(h[i - 1], Before(i), path[i])]
    BY <1>8
  <2> QED
    BY <2>1, <2>2
<1>10. g[0] = <<>> /\ \A i \in 1 .. N : g[i] = WithChar(g[i - 1], Before(i), path[i])
  BY <1>9
<1> DEFINE S == {i \in 0 .. N : g[i] \in V}
<1>11. 0 \in S
  BY <1>3, <1>10
<1>12. \A i \in 0 .. N - 1 : i \in S => i + 1 \in S
  <2> TAKE i \in 0 .. N - 1
  <2> HAVE i \in S
  <2>1. i + 1 \in 1 .. N /\ i + 1 \in 0 .. N /\ (i + 1) - 1 = i /\ g[i] \in V
    OBVIOUS
  <2>2. g[i + 1] = WithChar(g[i], Before(i + 1), path[i + 1]) /\ path[i + 1] \in Chars
    BY <1>2, <1>10, <2>1
  <2>3. g[i + 1] \in V
    BY <2>1, <2>2, WithCharFacts DEF V
  <2> QED
    BY <2>1, <2>3
<1> HIDE DEF S
<1>13. \A i \in 0 .. N : i \in S
  BY <1>11, <1>12, IntervalInduction
<1> QED
  BY <1>1, <1>9, <1>10, <1>13 DEF S, V, Before


LEMMA PrefixFacts ==
    ASSUME NEW path \in Strings, NEW i \in Nat, i < Len(path)
    PROVE  /\ SubSeq(path, 1, i) \in Strings
           /\ SubSeq(path, 1, i + 1) = Append(SubSeq(path, 1, i), path[i + 1])
           /\ SubSeq(path, 1, 1) = <<path[1]>>
<1>1. PICK N \in Nat : N = Len(path)
  BY DEF Strings
<1>2. \A j \in 1 .. N : path[j] \in Chars
  BY <1>1, ElementOfSeq DEF Strings
<1>3. ASSUME NEW n \in 0 .. N
      PROVE  /\ SubSeq(path, 1, n) \in Seq(Chars) /\ Len(SubSeq(path, 1, n)) = n
             /\ \A j \in 1 .. n : SubSeq(path, 1, n)[j] = path[j]
  <2>1. 1 \in Int /\ n \in Int /\ \A j \in 1 .. n : path[j] \in Chars
    BY <1>1, <1>2
  <2>2. /\ SubSeq(path, 1, n) \in Seq(Chars)
        /\ Len(SubSeq(path, 1, n)) = IF 1 <= n THEN n - 1 + 1 ELSE 0
        /\ \A j \in 1 .. n - 1 + 1 : SubSeq(path, 1, n)[j] = path[1 + j - 1]
    BY <2>1, SubSeqProperties
  <2>3. (IF 1 <= n THEN n - 1 + 1 ELSE 0) = n /\ n - 1 + 1 = n /\ \A j \in 1 .. n : 1 + j - 1 = j
    BY <1>1
  <2> QED
    BY <2>2, <2>3
<1>4. i \in 0 .. N /\ i + 1 \in 0 .. N /\ 1 \in 0 .. N /\ i + 1 \in 1 .. N /\ 1 \in 1 .. N
  BY <1>1
<1>5. PICK s \in Seq(Chars) : /\ s = SubSeq(path, 1, i) /\ Len(s) = i
                              /\ \A j \in 1 .. i : s[j] = path[j]
  BY <1>3, <1>4
<1>6. PICK t \in Seq(Chars) : /\ t = SubSeq(path, 1, i + 1) /\ Len(t) = i + 1
                              /\ \A j \in 1 .. i + 1 : t[j] = path[j]
  BY <1>3, <1>4
<1>7. PICK u \in Seq(Chars) : u = Append(s, path[i + 1])
  BY <1>2, <1>4, <1>5, AppendFacts
<1>8. Len(u) = i + 1 /\ \A j \in 1 .. i + 1 : u[j] = path[j]
  <2>1. /\ Len(Append(s, path[i + 1])) = Len(s) + 1
        /\ \A j \in 1 .. Len(s) : Append(s, path[i + 1])[j] = s[j]
        /\ Append(s, path[i + 1])[Len(s) + 1] = path[i + 1]
    BY <1>2, <1>4, AppendProperties
  <2>2. Len(u) = i + 1 /\ (\A j \in 1 .. i : u[j] = s[j]) /\ u[i + 1] = path[i + 1]
    BY <1>5, <1>7, <2>1
  <2>3. ASSUME NEW j \in 1 .. i + 1 PROVE u[j] = path[j]
    <3>1. j \in 1 .. i \/ j = i + 1
      OBVIOUS
    <3> QED
      BY <1>5, <2>2, <3>1
  <2> QED
    BY <2>2, <2>3
<1>9. t = u
  <2>1. \A j \in 1 .. i + 1 : t[j] = u[j]
    BY <1>6, <1>8
  <2> QED
    BY <1>6, <1>8, <2>1, SeqEqual
<1>10. SubSeq(path, 1, 1) = <<path[1]>>
  <2>0. /\ SubSeq(path, 1, 1) \in Seq(Chars) /\ Len(SubSeq(path, 1, 1)) = 1
        /\ SubSeq(path, 1, 1)[1] = path[1]
    <3>1. /\ SubSeq(path, 1, 1) \in Seq(Chars) /\ Len(SubSeq(path, 1, 1)) = 1
          /\ \A j \in 1 .. 1 : SubSeq(path, 1, 1)[j] = path[j]
      BY <1>3, <1>4
    <3> QED
      BY <3>1
  <2>1. PICK w \in Seq(Chars) : w = SubSeq(path, 1, 1) /\ Len(w) = 1 /\ w[1] = path[1]
    BY <2>0
  <2>2. Len(w) = 1 => w = <<w[1]>>
    OBVIOUS
  <2> QED
    BY <2>1, <2>2
<1> QED
  BY <1>5, <1>6, <1>7, <1>9, <1>10 DEF Strings

(* The first segment: up to the first slash, or what follows it.           *)
LEMMA FirstSegment ==
    ASSUME NEW path \in Strings, NEW k \in 0 .. Len(path), Len(path) > 0,
           \A j \in 1 .. k : path[j] # "/", k < Len(path) => path[k + 1] = "/"
    PROVE  /\ Segments(path) \in Seq(SegmentSet) /\ Len(Segments(path)) >= 1
           /\ k = 0 => Segments(path)[1].slash
           /\ k > 0 => Segments(path)[1] = [slash |-> FALSE, text |-> SubSeq(path, 1, k)]
<1>1. PICK N \in Nat : N = Len(path) /\ N > 0
  BY DEF Strings
<1>2. \A i \in 1 .. N : path[i] \in Chars
  BY <1>1, ElementOfSeq DEF Strings
<1>3. PICK g : g = Segmenting(path)
  OBVIOUS
<1>4. /\ g[0] = <<>> /\ \A i \in 0 .. N : g[i] \in Seq(SegmentSet)
      /\ \A i \in 1 .. N : g[i] = WithChar(g[i - 1], IF i = 1 THEN Nul ELSE path[i - 1], path[i])
  BY <1>1, <1>3, SegmentingFacts
<1>5. Segments(path) = g[N]
  BY <1>1, <1>3 DEF Segments
<1>6. CASE k = 0
  <2> DEFINE S == {i \in 0 .. N : i > 0 => Len(g[i]) >= 1 /\ g[i][1].slash = TRUE}
  <2>1. 0 \in S
    OBVIOUS
  <2>2. \A i \in 0 .. N - 1 : i \in S => i + 1 \in S
    <3> TAKE i \in 0 .. N - 1
    <3> HAVE i \in S
    <3>1. i + 1 \in 1 .. N /\ (i + 1) - 1 = i /\ g[i] \in Seq(SegmentSet) /\ i + 1 \in 0 .. N
      BY <1>1, <1>4
    <3>2. g[i + 1] = WithChar(g[i], IF i + 1 = 1 THEN Nul ELSE path[i], path[i + 1]) /\ path[i + 1] \in Chars
      BY <1>2, <1>4, <3>1
    <3>3. CASE i = 0
      <4>1. path[i + 1] = "/" /\ g[i] = <<>> /\ Nul # "/"
        BY <1>1, <1>4, <1>6, <3>3 DEF Nul
      <4>0. g[i + 1] = WithChar(g[i], Nul, path[i + 1])
        BY <3>2, <3>3
      <4>2. g[i + 1] = <<[slash |-> TRUE, text |-> <<>>]>>
        BY <3>1, <3>2, <4>0, <4>1, WithCharFacts
      <4>3. Len(g[i + 1]) = 1 /\ g[i + 1][1].slash = TRUE
        BY <4>2
      <4> QED
        BY <3>1, <4>3
    <3>4. CASE i > 0
      <4>1. Len(g[i]) >= 1 /\ g[i][1].slash = TRUE /\ g[i] # <<>>
        BY <3>4
      <4>0. PICK before : g[i + 1] = WithChar(g[i], before, path[i + 1])
        BY <3>2
      <4>2. Len(g[i + 1]) >= Len(g[i]) /\ g[i + 1][1].slash = TRUE
        <5>1. Len(g[i + 1]) >= Len(g[i]) /\ g[i + 1][1].slash = g[i][1].slash
          BY <3>1, <3>2, <4>0, <4>1, WithCharFacts
        <5> QED
          BY <4>1, <5>1
      <4>3. Len(g[i + 1]) \in Nat /\ Len(g[i]) \in Nat
        BY <1>4, <3>1
      <4> QED
        BY <3>1, <4>1, <4>2, <4>3
    <3>5. i = 0 \/ i > 0
      BY <1>1
    <3> HIDE DEF S
    <3> QED
      BY <3>3, <3>4, <3>5
  <2> HIDE DEF S
  <2>3. \A i \in 0 .. N : i \in S
    BY <2>1, <2>2, IntervalInduction
  <2>4. N \in S /\ g[N] \in Seq(SegmentSet)
    BY <1>1, <1>4, <2>3
  <2> QED
    BY <1>1, <1>5, <1>6, <2>4 DEF S
<1>7. CASE k > 0
  <2> DEFINE First(i) == [slash |-> FALSE, text |-> SubSeq(path, 1, i)]
  <2> DEFINE S == {i \in 0 .. N : /\ i \in 1 .. k => g[i] = <<First(i)>>
                                  /\ i > k => Len(g[i]) >= 2 /\ g[i][1] = First(k)}
  <2>0. k \in 1 .. N
    BY <1>1, <1>7
  <2>1. 0 \in S
    BY <1>1, <2>0
  <2>2. \A i \in 0 .. N - 1 : i \in S => i + 1 \in S
    <3> TAKE i \in 0 .. N - 1
    <3> HAVE i \in S
    <3>1. /\ i + 1 \in 1 .. N /\ (i + 1) - 1 = i /\ g[i] \in Seq(SegmentSet) /\ i + 1 \in 0 .. N
          /\ i \in Nat /\ i < Len(path)
      BY <1>1, <1>4
    <3>2. g[i + 1] = WithChar(g[i], IF i + 1 = 1 THEN Nul ELSE path[i], path[i + 1]) /\ path[i + 1] \in Chars
      BY <1>2, <1>4, <3>1
    <3>3. CASE i = 0
      <4>1. path[i + 1] # "/" /\ g[i] = <<>>
        BY <1>4, <2>0, <3>3
      <4>2. g[i + 1] = <<[slash |-> FALSE, text |-> <<path[i + 1]>>]>>
        BY <3>1, <3>2, <4>1, WithCharFacts
      <4>3. SubSeq(path, 1, i + 1) = <<path[i + 1]>>
        BY <3>1, <3>3, PrefixFacts
      <4>4. g[i + 1] = <<First(i + 1)>>
        BY <4>2, <4>3
      <4>5. ~ (i + 1 > k)
        BY <2>0, <3>3
      <4> QED
        BY <3>1, <4>4, <4>5
    <3>4. CASE i > 0 /\ i < k
      <4>1. path[i + 1] # "/" /\ i \in 1 .. k
        BY <2>0, <3>1, <3>4
      <4>2. g[i] = <<First(i)>>
        BY <4>1
      <4> HIDE DEF S
      <4>3. Len(g[i]) = 1 /\ g[i][1] = First(i)
        BY <4>2
      <4>4. g[i + 1] = <<Longer(First(i), path[i + 1])>>
        BY <3>1, <3>2, <4>1, <4>3, WithCharFacts
      <4>5. Longer(First(i), path[i + 1]) = First(i + 1)
        <5>1. SubSeq(path, 1, i) \in Strings /\ SubSeq(path, 1, i + 1) = Append(SubSeq(path, 1, i), path[i + 1])
          BY <3>1, PrefixFacts
        <5>2. PICK a, b : a = SubSeq(path, 1, i) /\ b = SubSeq(path, 1, i + 1) /\ b = Append(a, path[i + 1])
          BY <5>1
        <5>3. Longer([slash |-> FALSE, text |-> a], path[i + 1]) = [slash |-> FALSE, text |-> b]
          <6>1. PICK segment \in SegmentSet : segment = [slash |-> FALSE, text |-> a]
            BY <5>1, <5>2 DEF SegmentSet
          <6>2. segment.slash = FALSE /\ segment.text = a
            BY <6>1
          <6>3. PICK longer \in SegmentSet : /\ longer = Longer(segment, path[i + 1])
                                             /\ longer.slash = segment.slash
                                             /\ longer.text = Append(segment.text, path[i + 1])
            BY <3>2, LongerFacts
          <6>4. longer.text = b
            BY <5>2, <6>2, <6>3
          <6>5. longer = [slash |-> longer.slash, text |-> longer.text]
            BY DEF SegmentSet
          <6>6. longer = [slash |-> FALSE, text |-> b]
            BY <6>2, <6>3, <6>4, <6>5
          <6> QED
            BY <6>1, <6>3, <6>6
        <5> QED
          BY <5>2, <5>3
      <4>6. ~ (i + 1 > k)
        BY <2>0, <3>1, <3>4
      <4>7. g[i + 1] = <<First(i + 1)>>
        BY <4>4, <4>5
      <4> QED
        BY <3>1, <4>6, <4>7 DEF S
    <3>5. CASE i = k
      <4>1. path[i + 1] = "/" /\ path[i] # "/" /\ i \in 1 .. k
        BY <1>1, <2>0, <3>1, <3>5
      <4>2. g[i] = <<First(i)>>
        BY <4>1
      <4> HIDE DEF S
      <4>3. Len(g[i]) = 1 /\ g[i][1] = First(k)
        BY <3>5, <4>2
      <4>4. Len(g[i + 1]) = 2 /\ g[i + 1][1] = First(k)
        <5>1. (IF i + 1 = 1 THEN Nul ELSE path[i]) # "/"
          BY <2>0, <3>5, <4>1
        <5> QED
          BY <3>1, <3>2, <4>1, <4>3, <5>1, WithCharFacts
      <4>5. i + 1 \notin 1 .. k /\ Len(g[i + 1]) >= 2
        BY <2>0, <3>5, <4>4
      <4> QED
        BY <3>1, <4>4, <4>5 DEF S
    <3>6. CASE i > k
      <4>1. Len(g[i]) >= 2 /\ g[i][1] = First(k)
        BY <3>6
      <4> HIDE DEF S
      <4>2. Len(g[i + 1]) >= Len(g[i]) /\ g[i + 1][1] = First(k)
        BY <3>1, <3>2, <4>1, WithCharFacts
      <4>3. Len(g[i + 1]) \in Nat /\ Len(g[i]) \in Nat
        BY <1>4, <3>1
      <4>4. i + 1 \notin 1 .. k /\ Len(g[i + 1]) >= 2
        BY <2>0, <3>1, <3>6, <4>1, <4>2, <4>3
      <4> QED
        BY <3>1, <4>2, <4>4 DEF S
    <3> QED
      BY <2>0, <3>1, <3>3, <3>4, <3>5, <3>6
  <2> HIDE DEF S
  <2>3. \A i \in 0 .. N : i \in S
    BY <2>1, <2>2, IntervalInduction
  <2>4. N \in S /\ g[N] \in Seq(SegmentSet)
    BY <1>1, <1>4, <2>3
  <2>5. CASE N \in 1 .. k
    <3>1. N = k /\ g[N] = <<First(N)>>
      BY <2>0, <2>4, <2>5 DEF S
    <3> QED
      BY <1>5, <1>7, <2>4, <3>1
  <2>6. CASE N > k
    <3>1. Len(g[N]) >= 2 /\ g[N][1] = First(k)
      BY <2>4, <2>6 DEF S
    <3>2. Len(g[N]) \in Nat
      BY <2>4
    <3> QED
      BY <1>5, <1>7, <2>4, <3>1, <3>2
  <2> QED
    BY <2>0, <2>5, <2>6
<1> QED
  BY <1>1, <1>6, <1>7


-----------------------------------------------------------------------------
(* Buffers.                                                                *)

PathStates == [out : [Offsets -> Letters], idx : Int, under : BOOLEAN]

(* The string in the buffer ends inside the buffer.                        *)
Ends(out) == \E o \in 0 .. MaxPath - 1 : out[o] = Nul

LEMMA MaxPathType ==
    /\ MaxPath \in Nat /\ MaxPath > 3 /\ 0 .. MaxPath - 1 \subseteq Offsets
    /\ Nul \in Letters /\ "/" \in Chars
BY PathAssumption DEF Offsets, Letters, Chars, Nul

LEMMA LesserFacts == ASSUME NEW a \in Int, NEW b \in Int
                     PROVE  /\ Lesser(a, b) \in {a, b} /\ Lesser(a, b) \in Int
                            /\ Lesser(a, b) <= a /\ Lesser(a, b) <= b
BY DEF Lesser

LEMMA CopiedFacts ==
    ASSUME NEW source \in Strings, NEW maxSize \in Int
    PROVE  /\ Copied(source, maxSize) \in Strings /\ Len(Copied(source, maxSize)) \in Nat
           /\ Len(Copied(source, maxSize)) <= Len(source)
           /\ maxSize >= 1 => Len(Copied(source, maxSize)) < maxSize
           /\ Len(source) < maxSize => Copied(source, maxSize) = source
           /\ \A j \in 1 .. Len(Copied(source, maxSize)) : Copied(source, maxSize)[j] = source[j]
<1>1. PICK N \in Nat : N = Len(source)
  BY DEF Strings
<1>2. \A j \in 1 .. N : source[j] \in Chars
  BY <1>1, ElementOfSeq DEF Strings
<1>3. CASE maxSize < 1
  <2>1. Copied(source, maxSize) = <<>> /\ <<>> \in Strings /\ Len(<<>>) = 0
    BY <1>3 DEF Copied, Strings
  <2> QED
    BY <1>1, <1>3, <2>1
<1>4. CASE ~ (maxSize < 1)
  <2>1. PICK n : n = Lesser(N, maxSize - 1)
    OBVIOUS
  <2>2. n \in 0 .. N /\ n < maxSize /\ (N < maxSize => n = N)
    BY <1>1, <1>4, <2>1 DEF Lesser
  <2>3. Copied(source, maxSize) = SubSeq(source, 1, n)
    BY <1>1, <1>4, <2>1 DEF Copied
  <2>4. 1 \in Int /\ n \in Int /\ \A j \in 1 .. n : source[j] \in Chars
    BY <1>1, <1>2, <2>2
  <2>5. /\ SubSeq(source, 1, n) \in Seq(Chars)
        /\ Len(SubSeq(source, 1, n)) = IF 1 <= n THEN n - 1 + 1 ELSE 0
        /\ \A j \in 1 .. n - 1 + 1 : SubSeq(source, 1, n)[j] = source[1 + j - 1]
    BY <2>4, SubSeqProperties
  <2>6. (IF 1 <= n THEN n - 1 + 1 ELSE 0) = n /\ n - 1 + 1 = n /\ \A j \in 1 .. n : 1 + j - 1 = j
    BY <1>1, <2>2
  <2>7. SubSeq(source, 1, N) = source
    BY <1>1, SubSeqFull DEF Strings
  <2> QED
    BY <1>1, <1>4, <2>2, <2>3, <2>5, <2>6, <2>7 DEF Strings
<1> QED
  BY <1>3, <1>4

(* Copying never takes the end of the string out of the buffer, and from a *)
(* place inside it puts one there.                                         *)
LEMMA PutFacts ==
    ASSUME NEW s \in PathStates, NEW source \in Strings, NEW maxSize \in Int
    PROVE  /\ Put(s, source, maxSize) \in PathStates
           /\ s.idx + maxSize <= MaxPath /\ (Ends(s.out) \/ (s.idx >= 0 /\ maxSize >= 1)) =>
                  Ends(Put(s, source, maxSize).out)
<1> DEFINE copied == Copied(source, maxSize)
           text == copied \o <<Nul>>
           out == [o \in Offsets |-> IF o - s.idx + 1 \in DOMAIN text THEN text[o - s.idx + 1] ELSE s.out[o]]
<1>1. s.idx \in Int /\ s.out \in [Offsets -> Letters] /\ s.under \in BOOLEAN
  BY DEF PathStates
<1>2. CASE maxSize < 1
  <2>1. Put(s, source, maxSize) = s
    BY <1>2 DEF Put
  <2>2. ~ (maxSize >= 1)
    BY <1>2
  <2> QED
    BY <2>1, <2>2
<1>3. CASE ~ (maxSize < 1)
  <2>1. PICK n \in Nat : n = Len(copied) /\ n < maxSize
    BY <1>3, CopiedFacts
  <2>2. text \in Seq(Letters) /\ Len(text) = n + 1 /\ text[n + 1] = Nul /\ DOMAIN text = 1 .. n + 1
    <3>0. copied \in Seq(Chars) /\ Chars \subseteq Letters
      BY CopiedFacts, MaxPathType DEF Strings, Chars
    <3>1. copied \in Seq(Letters) /\ <<Nul>> \in Seq(Letters) /\ Len(<<Nul>>) = 1 /\ <<Nul>>[1] = Nul
      BY <3>0, MaxPathType
    <3> HIDE DEF copied
    <3>2. /\ copied \o <<Nul>> \in Seq(Letters) /\ Len(copied \o <<Nul>>) = Len(copied) + Len(<<Nul>>)
          /\ \A i \in 1 .. Len(copied) + Len(<<Nul>>) :
                 (copied \o <<Nul>>)[i] = IF i <= Len(copied) THEN copied[i] ELSE <<Nul>>[i - Len(copied)]
      BY <3>1, ConcatProperties
    <3>3. n + 1 \in 1 .. n + 1 /\ ~ (n + 1 <= n) /\ n + 1 - n = 1
      BY <2>1
    <3> QED
      BY <2>1, <3>1, <3>2, <3>3
  <2> HIDE DEF text
  <2>3. out \in [Offsets -> Letters]
    <3>1. ASSUME NEW o \in Offsets PROVE out[o] \in Letters
      BY <1>1, <2>2, <3>1, ElementOfSeq
    <3> QED
      BY <3>1
  <2>4. Put(s, source, maxSize) = [s EXCEPT !.idx = @ + Len(text) - 1, !.out = out]
    BY <1>3 DEF Put, text
  <2> HIDE DEF out
  <2>5. Put(s, source, maxSize) \in PathStates /\ Put(s, source, maxSize).out = out
    <3>1. PICK idx \in Int : idx = s.idx + Len(text) - 1
      BY <1>1, <2>1, <2>2
    <3>2. Put(s, source, maxSize) = [s EXCEPT !.idx = idx, !.out = out]
      BY <2>4, <3>1
    <3> QED
      BY <2>3, <3>2 DEF PathStates
  <2>6. ASSUME s.idx + maxSize <= MaxPath, s.idx + n >= 0 PROVE Ends(out)
    <3>1. s.idx + n \in 0 .. MaxPath - 1
      BY <1>1, <2>1, <2>6, MaxPathType
    <3>2. (s.idx + n) - s.idx + 1 = n + 1 /\ n + 1 \in 1 .. n + 1 /\ s.idx + n \in Offsets
      BY <1>1, <3>1, MaxPathType
    <3>3. out[s.idx + n] = Nul
      BY <2>2, <3>2 DEF out
    <3> QED
      BY <3>1, <3>3 DEF Ends
  <2>7. ASSUME Ends(s.out), ~ (s.idx + n >= 0) PROVE Ends(out)
    <3>1. PICK o \in 0 .. MaxPath - 1 : s.out[o] = Nul
      BY <2>7 DEF Ends
    <3>2. o - s.idx + 1 \notin 1 .. n + 1 /\ o \in Offsets
      BY <1>1, <2>7, MaxPathType
    <3>3. out[o] = Nul
      BY <2>2, <3>1, <3>2 DEF out
    <3> QED
      BY <3>3 DEF Ends
  <2>8. s.idx >= 0 => s.idx + n >= 0
    BY <1>1
  <2> QED
    BY <2>5, <2>6, <2>7, <2>8
<1> QED
  BY <1>2, <1>3

LEMMA MaxFacts ==
    ASSUME NEW i \in Nat, NEW T, T \subseteq 0 .. i, 0 \in T
    PROVE  Max(T) \in T /\ \A t \in T : Max(T) >= t
<1> DEFINE Away == {i - t : t \in T}
<1>1. Away \subseteq Nat /\ Away # {}
  OBVIOUS
<1>2. PICK d \in Away : \A e \in Away : d <= e
  <2> HIDE DEF Away
  <2> QED
    BY <1>1, LeastNumber
<1>3. PICK m \in T : d = i - m
  OBVIOUS
<1>4. \A t \in T : m >= t
  <2> TAKE t \in T
  <2>1. i - t \in Away /\ t \in Int /\ m \in Int
    OBVIOUS
  <2>2. i - m <= i - t
    BY <1>2, <1>3, <2>1
  <2> QED
    BY <2>1, <2>2
<1> QED
  BY <1>4 DEF Max

LEMMA BackFromFacts ==
    ASSUME NEW out, NEW i \in Int
    PROVE  /\ BackFrom(out, i) \in Int /\ BackFrom(out, i) <= i
           /\ SkipSlash(out, i) \in Int /\ SkipSlash(out, i) <= i
<1>1. CASE i <= 0
  BY <1>1 DEF BackFrom, SkipSlash
<1>2. CASE ~ (i <= 0)
  <2> DEFINE T == {0} \cup {j \in 1 .. i : out[j] = "/"}
  <2>1. i \in Nat /\ T \subseteq 0 .. i /\ 0 \in T
    BY <1>2
  <2>2. BackFrom(out, i) = Max(T)
    BY <1>2 DEF BackFrom
  <2> HIDE DEF T
  <2>3. Max(T) \in 0 .. i
    BY <2>1, MaxFacts
  <2> QED
    BY <2>2, <2>3 DEF SkipSlash
<1> QED
  BY <1>1, <1>2

LEMMA UpFacts ==
    ASSUME NEW s \in PathStates
    PROVE  Up(s) \in PathStates /\ (Ends(s.out) => Ends(Up(s).out))
<1>1. s.idx \in Int /\ s.out \in [Offsets -> Letters] /\ s.under \in BOOLEAN
  BY DEF PathStates
<1>2. PICK i : i = BackFrom(s.out, SkipSlash(s.out, BackFrom(s.out, SkipSlash(s.out, s.idx))))
  OBVIOUS
<1>3. i \in Int
  BY <1>1, <1>2, BackFromFacts
<1>4. PICK out : out = [s.out EXCEPT ![i] = Nul]
  OBVIOUS
<1>5. PICK under \in BOOLEAN : under = (s.under \/ i < 0)
  OBVIOUS
<1>6. Up(s) = [s EXCEPT !.idx = i, !.out = out, !.under = under]
  BY <1>2, <1>4, <1>5 DEF Up
<1>7. out \in [Offsets -> Letters]
  BY <1>1, <1>4, MaxPathType
<1>8. Up(s) \in PathStates /\ Up(s).out = out
  BY <1>3, <1>6, <1>7 DEF PathStates
<1>9. ASSUME Ends(s.out) PROVE Ends(out)
  <2>1. PICK o \in 0 .. MaxPath - 1 : s.out[o] = Nul
    BY <1>9 DEF Ends
  <2>2. out[o] = Nul
    BY <1>1, <1>4, <2>1, MaxPathType
  <2> QED
    BY <2>2 DEF Ends
<1> QED
  BY <1>8, <1>9


(* A turn of normalize_path() keeps the end in the buffer; one that writes *)
(* at the start puts it there.                                             *)
Dots == {<<".">>, <<".", ".">>}

LEMMA TurnFacts ==
    ASSUME NEW s \in PathStates, NEW segment \in SegmentSet
    PROVE  /\ Turn(s, segment) \in PathStates
           /\ Ends(s.out) \/ (s.idx = 0 /\ (segment.slash \/ segment.text \notin Dots)) =>
                  Ends(Turn(s, segment).out)
<1>1. segment.text \in Strings /\ segment.slash \in BOOLEAN /\ s.idx \in Int
  BY DEF SegmentSet, PathStates
<1>2. PICK text \in Strings : text = segment.text
  BY <1>1
<1>3. /\ Slashed(s, segment) \in PathStates
      /\ Ends(s.out) \/ (s.idx = 0 /\ segment.slash) => Ends(Slashed(s, segment).out)
      /\ ~ segment.slash => Slashed(s, segment) = s
  <2>1. CASE segment.slash /\ (s.idx = 0 \/ s.out[s.idx - 1] # "/")
    <3>1. <<"/">> \in Strings /\ MaxPath - s.idx \in Int /\ s.idx + (MaxPath - s.idx) <= MaxPath
      BY <1>1, MaxPathType DEF Strings
    <3>2. s.idx = 0 => s.idx >= 0 /\ MaxPath - s.idx >= 1
      BY MaxPathType
    <3>3. Slashed(s, segment) = Put(s, <<"/">>, MaxPath - s.idx)
      BY <2>1 DEF Slashed
    <3> QED
      BY <2>1, <3>1, <3>2, <3>3, PutFacts
  <2>2. CASE ~ (segment.slash /\ (s.idx = 0 \/ s.out[s.idx - 1] # "/"))
    BY <2>2 DEF Slashed
  <2> QED
    BY <2>1, <2>2
<1>4. PICK u \in PathStates : u = Slashed(s, segment) /\ Turn(s, segment) = WithText(u, text)
  BY <1>2, <1>3 DEF Turn
<1>5. /\ WithText(u, text) \in PathStates
      /\ Ends(u.out) \/ (u.idx = 0 /\ text \notin Dots) => Ends(WithText(u, text).out)
  <2>1. CASE text = <<".">>
    <3>1. WithText(u, text) = u /\ text \in Dots
      BY <2>1 DEF WithText, Dots
    <3> QED
      BY <3>1
  <2>2. CASE text = <<".", ".">>
    <3>1. text # <<".">> /\ text \in Dots
      <4>1. Len(<<".">>) = 1 /\ Len(<<".", ".">>) = 2
        OBVIOUS
      <4> QED
        BY <2>2, <4>1 DEF Dots
    <3>2. WithText(u, text) = Up(u)
      BY <2>2, <3>1 DEF WithText
    <3> QED
      BY <3>1, <3>2, UpFacts
  <2>3. CASE text \notin Dots
    <3>1. WithText(u, text) = Put(u, text, Lesser(Len(text) + 1, MaxPath - u.idx))
      BY <2>3 DEF WithText, Dots
    <3>2. PICK size : size = Lesser(Len(text) + 1, MaxPath - u.idx)
      OBVIOUS
    <3>3. u.idx \in Int /\ Len(text) \in Nat
      BY DEF PathStates, Strings
    <3>4. Len(text) + 1 \in Int /\ MaxPath - u.idx \in Int
      BY <3>3, MaxPathType
    <3>5. size \in Int /\ size <= MaxPath - u.idx /\ size \in {Len(text) + 1, MaxPath - u.idx}
      BY <3>2, <3>4, LesserFacts
    <3>6. u.idx + size <= MaxPath /\ (u.idx = 0 => u.idx >= 0 /\ size >= 1)
      BY <3>3, <3>5, MaxPathType
    <3> QED
      BY <3>1, <3>2, <3>5, <3>6, PutFacts
  <2> QED
    BY <2>1, <2>2, <2>3 DEF Dots
<1>6. ASSUME ~ Ends(s.out), s.idx = 0, segment.slash \/ text \notin Dots
      PROVE  Ends(u.out) \/ (u.idx = 0 /\ text \notin Dots)
  <2>1. CASE segment.slash
    BY <1>3, <1>4, <1>6, <2>1
  <2>2. CASE ~ segment.slash
    BY <1>3, <1>4, <1>6, <2>2
  <2> QED
    BY <2>1, <2>2
<1> QED
  BY <1>2, <1>3, <1>4, <1>5, <1>6

(* The turns of normalize_path().                                          *)
LEMMA NormalizingFacts ==
    ASSUME NEW segs \in Seq(SegmentSet), NEW out \in [Offsets -> Letters]
    PROVE  /\ Normalizing(segs, out)[0] = AtStart(out) /\ AtStart(out).idx = 0
           /\ \A i \in 0 .. Len(segs) : Normalizing(segs, out)[i] \in PathStates
           /\ \A i \in 1 .. Len(segs) : Normalizing(segs, out)[i] = Turn(Normalizing(segs, out)[i - 1], segs[i])
<1>0. PICK fresh : fresh = AtStart(out)
  OBVIOUS
<1>1. PICK N \in Nat : N = Len(segs)
  OBVIOUS
<1>2. \A i \in 1 .. N : segs[i] \in SegmentSet
  BY <1>1, ElementOfSeq
<1>3. fresh \in PathStates /\ fresh.idx = 0
  BY <1>0 DEF PathStates, AtStart
<1>4. \A s \in PathStates, segment \in SegmentSet : Turn(s, segment) \in PathStates
  BY TurnFacts
<1>5. PICK step : step = [i \in 1 .. N |-> [s \in PathStates |-> Turn(s, segs[i])]]
  OBVIOUS
<1>6. step \in [1 .. N -> [PathStates -> PathStates]]
  BY <1>2, <1>4, <1>5
<1>7. PICK f \in [0 .. N -> PathStates] : Follows(f, N, fresh, step)
  BY <1>3, <1>6, RecursionExists
<1>8. f[0] = fresh /\ \A i \in 1 .. N : f[i] = Turn(f[i - 1], segs[i])
  <2>1. ASSUME NEW i \in 1 .. N PROVE f[i] = Turn(f[i - 1], segs[i])
    <3>1. f[i] = step[i][f[i - 1]] /\ f[i - 1] \in PathStates
      BY <1>7 DEF Follows
    <3> QED
      BY <1>5, <3>1
  <2> QED
    BY <1>7, <2>1 DEF Follows
<1>9. f = [i \in 0 .. N |-> IF i = 0 THEN fresh ELSE Turn(f[i - 1], segs[i])]
  BY <1>7, <1>8
<1>10. PICK g : /\ g = Normalizing(segs, out)
                /\ g = [i \in 0 .. N |-> IF i = 0 THEN fresh ELSE Turn(g[i - 1], segs[i])]
  <2>1. Normalizing(segs, out) = CHOOSE h : h = [i \in 0 .. N |-> IF i = 0 THEN fresh ELSE Turn(h[i - 1], segs[i])]
    BY <1>0, <1>1 DEF Normalizing
  <2> QED
    BY <1>9, <2>1
<1>11. g[0] = fresh /\ \A i \in 1 .. N : g[i] = Turn(g[i - 1], segs[i])
  BY <1>10
<1> DEFINE S == {i \in 0 .. N : g[i] \in PathStates}
<1>12. 0 \in S
  BY <1>3, <1>11
<1>13. \A i \in 0 .. N - 1 : i \in S => i + 1 \in S
  <2> TAKE i \in 0 .. N - 1
  <2> HAVE i \in S
  <2>1. i + 1 \in 1 .. N /\ i + 1 \in 0 .. N /\ (i + 1) - 1 = i /\ g[i] \in PathStates
    BY <1>1
  <2>2. g[i + 1] = Turn(g[i], segs[i + 1]) /\ segs[i + 1] \in SegmentSet
    BY <1>2, <1>11, <2>1
  <2>3. g[i + 1] \in PathStates
    BY <1>4, <2>1, <2>2
  <2> QED
    BY <2>1, <2>3
<1> HIDE DEF S
<1>14. \A i \in 0 .. N : i \in S
  BY <1>1, <1>12, <1>13, IntervalInduction
<1> QED
  BY <1>0, <1>1, <1>3, <1>10, <1>11, <1>14 DEF S

(* A buffer that held anything ends with the normalised path in it, when   *)
(* the path does not start with dots.                                      *)
LEMMA NormalizingEnds ==
    ASSUME NEW segs \in Seq(SegmentSet), Len(segs) >= 1, segs[1].slash \/ segs[1].text \notin Dots,
           NEW out \in [Offsets -> Letters]
    PROVE  Normalizing(segs, out)[Len(segs)] \in PathStates /\ Ends(Normalizing(segs, out)[Len(segs)].out)
<1>1. PICK N \in Nat : N = Len(segs) /\ N >= 1
  OBVIOUS
<1>2. \A i \in 1 .. N : segs[i] \in SegmentSet
  BY <1>1, ElementOfSeq
<1>3. PICK g : g = Normalizing(segs, out)
  OBVIOUS
<1>4. g[0].idx = 0
  BY <1>3, NormalizingFacts
<1>5. /\ \A i \in 0 .. N : g[i] \in PathStates
      /\ \A i \in 1 .. N : g[i] = Turn(g[i - 1], segs[i])
  BY <1>1, <1>3, NormalizingFacts
<1> DEFINE S == {i \in 0 .. N : g[i] \in PathStates /\ (i > 0 => Ends(g[i].out))}
<1>12. 0 \in S
  BY <1>1, <1>5
<1>13. \A i \in 0 .. N - 1 : i \in S => i + 1 \in S
  <2> TAKE i \in 0 .. N - 1
  <2> HAVE i \in S
  <2>1. /\ i + 1 \in 1 .. N /\ i + 1 \in 0 .. N /\ (i + 1) - 1 = i /\ g[i] \in PathStates
        /\ i > 0 => Ends(g[i].out)
    BY <1>1, <1>5
  <2>2. g[i + 1] = Turn(g[i], segs[i + 1]) /\ segs[i + 1] \in SegmentSet
    BY <1>2, <1>5, <2>1
  <2>3. i = 0 => g[i].idx = 0 /\ (segs[i + 1].slash \/ segs[i + 1].text \notin Dots)
    BY <1>4
  <2>4. Ends(g[i].out) \/ (g[i].idx = 0 /\ (segs[i + 1].slash \/ segs[i + 1].text \notin Dots))
    BY <1>1, <2>1, <2>3
  <2>5. g[i + 1] \in PathStates /\ Ends(g[i + 1].out)
    BY <2>1, <2>2, <2>4, TurnFacts
  <2> QED
    BY <2>1, <2>5
<1> HIDE DEF S
<1>14. \A i \in 0 .. N : i \in S
  BY <1>1, <1>12, <1>13, IntervalInduction
<1>15. N \in S
  BY <1>1, <1>14
<1> QED
  BY <1>1, <1>3, <1>15 DEF S

LEMMA StringInFacts ==
    ASSUME NEW out \in [Offsets -> Letters], Ends(out)
    PROVE  /\ StringIn(out) \in Strings /\ Len(StringIn(out)) < MaxPath
           /\ Len(StringIn(out)) \in 0 .. MaxPath - 1 /\ out[Len(StringIn(out))] = Nul
           /\ \A i \in 1 .. Len(StringIn(out)) : StringIn(out)[i] = out[i - 1]
<1> DEFINE T == {MaxPath} \cup {o \in 0 .. MaxPath - 1 : out[o] = Nul}
<1>1. PICK o \in 0 .. MaxPath - 1 : out[o] = Nul
  BY DEF Ends
<1>2. T \subseteq Nat /\ o \in T
  BY <1>1, MaxPathType
<1>3. PICK m \in T : \A t \in T : m <= t
  <2> HIDE DEF T
  <2> QED
    BY <1>2, LeastNumber
<1>4. Min(T) \in T /\ Min(T) <= o
  <2> HIDE DEF T
  <2> QED
    BY <1>2, <1>3 DEF Min
<1>5. PICK end : end = Min(T)
  OBVIOUS
<1>6. end \in 0 .. MaxPath - 1
  BY <1>1, <1>2, <1>4, <1>5, MaxPathType
<1>7. StringIn(out) = [i \in 1 .. end |-> out[i - 1]]
  BY <1>5 DEF StringIn
<1>8. \A i \in 1 .. end : out[i - 1] \in Chars
  <2> TAKE i \in 1 .. end
  <2>1. i - 1 \in 0 .. MaxPath - 1 /\ i - 1 < end
    BY <1>6, MaxPathType
  <2>2. i - 1 \notin T
    <3> HIDE DEF T
    <3>1. \A t \in T : end <= t
      BY <1>2, <1>3, <1>5 DEF Min
    <3> QED
      BY <1>6, <2>1, <3>1
  <2>3. out[i - 1] # Nul /\ out[i - 1] \in Letters
    BY <2>1, <2>2, MaxPathType
  <2> QED
    BY <2>3 DEF Chars
<1>9. /\ StringIn(out) \in Seq(Chars) /\ Len(StringIn(out)) = end
      /\ \A i \in 1 .. end : StringIn(out)[i] = out[i - 1]
  BY <1>6, <1>7, <1>8
<1>10. out[end] = Nul
  <2>1. end \in T /\ end # MaxPath
    BY <1>4, <1>5, <1>6, MaxPathType
  <2> QED
    BY <2>1
<1> HIDE DEF T
<1> QED
  BY <1>6, <1>9, <1>10, MaxPathType DEF Strings


-----------------------------------------------------------------------------
(* The path a command works on does not start with dots.                   *)

Opens(path) ==
    Len(Segments(path)) >= 1 /\ (Segments(path)[1].slash \/ Segments(path)[1].text \notin Dots)

LEMMA SlashFree ==
    ASSUME NEW path \in Strings
    PROVE  \E k \in 0 .. Len(path) : /\ \A j \in 1 .. k : path[j] # "/"
                                     /\ k < Len(path) => path[k + 1] = "/"
<1>1. PICK N \in Nat : N = Len(path)
  BY DEF Strings
<1> DEFINE T == {j \in Nat : j = N \/ (j \in 0 .. N - 1 /\ path[j + 1] = "/")}
<1>2. T \subseteq Nat /\ N \in T
  OBVIOUS
<1>3. PICK k \in T : \A t \in T : k <= t
  <2> HIDE DEF T
  <2> QED
    BY <1>2, LeastNumber
<1>4. k \in 0 .. N /\ (k < N => path[k + 1] = "/")
  BY <1>2, <1>3
<1>5. \A j \in 1 .. k : path[j] # "/"
  <2> SUFFICES ASSUME NEW j \in 1 .. k, path[j] = "/" PROVE FALSE
    OBVIOUS
  <2>1. j - 1 \in 0 .. N - 1 /\ (j - 1) + 1 = j /\ j - 1 \in Nat /\ j - 1 < k
    BY <1>4
  <2>2. j - 1 \in T
    BY <2>1
  <2> HIDE DEF T
  <2>3. k <= j - 1
    BY <1>3, <2>2
  <2> QED
    BY <1>4, <2>1, <2>3
<1> QED
  BY <1>1, <1>4, <1>5

LEMMA SlashOpens ==
    ASSUME NEW path \in Strings, Len(path) > 0, path[1] = "/"
    PROVE  Opens(path)
<1>1. PICK k \in 0 .. Len(path) : k = 0 /\ k + 1 = 1 /\ \A j \in 1 .. k : path[j] # "/"
  BY DEF Strings
<1>2. Segments(path)[1].slash /\ Len(Segments(path)) >= 1
  <2>1. k < Len(path) => path[k + 1] = "/"
    BY <1>1
  <2> QED
    BY <1>1, <2>1, FirstSegment
<1> QED
  BY <1>2 DEF Opens

LEMMA ConcatFacts ==
    ASSUME NEW s \in Strings, NEW t \in Strings
    PROVE  /\ s \o t \in Strings /\ Len(s \o t) = Len(s) + Len(t) /\ Len(s) \in Nat /\ Len(t) \in Nat
           /\ \A j \in 1 .. Len(s) : (s \o t)[j] = s[j]
           /\ Len(t) > 0 => (s \o t)[Len(s) + 1] = t[1]
<1>1. /\ s \o t \in Seq(Chars) /\ Len(s \o t) = Len(s) + Len(t)
      /\ \A i \in 1 .. Len(s) + Len(t) : (s \o t)[i] = IF i <= Len(s) THEN s[i] ELSE t[i - Len(s)]
  BY ConcatProperties DEF Strings
<1>2. Len(s) \in Nat /\ Len(t) \in Nat
  BY DEF Strings
<1>3. \A j \in 1 .. Len(s) : (s \o t)[j] = s[j]
  BY <1>1, <1>2
<1>4. ASSUME Len(t) > 0 PROVE (s \o t)[Len(s) + 1] = t[1]
  <2>1. Len(s) + 1 \in 1 .. Len(s) + Len(t) /\ ~ (Len(s) + 1 <= Len(s)) /\ Len(s) + 1 - Len(s) = 1
    BY <1>2, <1>4
  <2> QED
    BY <1>1, <2>1
<1> QED
  BY <1>1, <1>2, <1>3, <1>4 DEF Strings

(* A slash behind a path, or nothing, does not change its first segment.   *)
LEMMA LongerOpens ==
    ASSUME NEW c \in Strings, NEW rest \in Strings, Len(c) > 0, Opens(c),
           Len(rest) > 0 => rest[1] = "/"
    PROVE  Opens(c \o rest)
<1>1. PICK full \in Strings : full = c \o rest
  BY ConcatFacts
<1>2. PICK N \in Nat, M \in Nat : N = Len(c) /\ M = Len(full) /\ N <= M /\ N > 0
                               /\ (\A j \in 1 .. N : full[j] = c[j]) /\ (N < M => full[N + 1] = "/")
  <2>1. Len(c) \in Nat /\ Len(full) \in Nat /\ Len(rest) \in Nat /\ Len(full) = Len(c) + Len(rest)
    BY <1>1, ConcatFacts DEF Strings
  <2>2. Len(c) < Len(full) => Len(rest) > 0
    BY <2>1
  <2>3. \A j \in 1 .. Len(c) : full[j] = c[j]
    BY <1>1, ConcatFacts
  <2>4. Len(rest) > 0 => full[Len(c) + 1] = "/"
    BY <1>1, ConcatFacts
  <2>5. Len(c) <= Len(full)
    BY <2>1
  <2> QED
    BY <2>1, <2>2, <2>3, <2>4, <2>5
<1>3. PICK k \in 0 .. N : (\A j \in 1 .. k : c[j] # "/") /\ (k < N => c[k + 1] = "/")
  BY <1>2, SlashFree
<1>4. k \in 0 .. M /\ \A j \in 1 .. k : full[j] # "/"
  BY <1>2, <1>3
<1>5. k < M => full[k + 1] = "/"
  <2>1. CASE k < N
    <3>1. k + 1 \in 1 .. N
      BY <1>2, <2>1
    <3> QED
      BY <1>2, <1>3, <2>1, <3>1
  <2>2. CASE k = N
    BY <1>2, <2>2
  <2> QED
    BY <1>2, <2>1, <2>2
<1>6. CASE k = 0
  <2>1. Segments(full)[1].slash /\ Len(Segments(full)) >= 1
    <3>1. k \in 0 .. Len(full) /\ Len(full) > 0 /\ (k < Len(full) => full[k + 1] = "/")
      BY <1>2, <1>4, <1>5
    <3> QED
      BY <1>4, <1>6, <3>1, FirstSegment
  <2> QED
    BY <1>1, <2>1 DEF Opens
<1>7. CASE k > 0
  <2>1. /\ Segments(full)[1] = [slash |-> FALSE, text |-> SubSeq(full, 1, k)]
        /\ Len(Segments(full)) >= 1
    BY <1>2, <1>4, <1>5, <1>7, FirstSegment
  <2>2. Segments(c)[1] = [slash |-> FALSE, text |-> SubSeq(c, 1, k)]
    BY <1>2, <1>3, <1>7, FirstSegment
  <2>3. SubSeq(full, 1, k) = SubSeq(c, 1, k)
    <3>1. 1 \in 1 .. Len(c) /\ k \in 1 .. Len(c)
      BY <1>2, <1>7
    <3> QED
      BY <1>1, <3>1, SubSeqOfConcat1 DEF Strings
  <2>4. Segments(full)[1] = Segments(c)[1]
    BY <2>1, <2>2, <2>3
  <2> QED
    BY <1>1, <2>1, <2>4 DEF Opens
<1> QED
  BY <1>6, <1>7

LEMMA FullPathOpens ==
    ASSUME NEW c \in Strings, Len(c) < MaxPath, c = <<>> \/ Opens(c), NEW path \in Strings
    PROVE  FullPath(c, path) \in Strings /\ Opens(FullPath(c, path))
<1>1. CASE path # <<>> /\ path[1] = "/"
  <2>1. Len(path) > 0
    BY <1>1, EmptySeq DEF Strings
  <2> QED
    BY <1>1, <2>1, SlashOpens DEF FullPath
<1>2. CASE ~ (path # <<>> /\ path[1] = "/")
  <2>1. PICK N \in Nat : N = Len(c) /\ N < MaxPath
    BY DEF Strings
  <2>2. AddTo(<<>>, c) = c
    <3>1. MaxPath - Len(<<>>) = MaxPath /\ MaxPath \in Int
      BY MaxPathType
    <3>2. Copied(c, MaxPath) = c
      BY <3>1, CopiedFacts
    <3>3. <<>> \o c = c
      BY DEF Strings
    <3> QED
      BY <3>1, <3>2, <3>3 DEF AddTo
  <2>3. PICK slash \in Strings : /\ slash = Copied(<<"/">>, MaxPath - N)
                                 /\ N < MaxPath - 1 => slash = <<"/">>
                                 /\ ~ (N < MaxPath - 1) => slash = <<>>
    <3>1. <<"/">> \in Strings /\ Len(<<"/">>) = 1 /\ MaxPath - N \in Int
      BY <2>1, MaxPathType DEF Strings
    <3>2. /\ Copied(<<"/">>, MaxPath - N) \in Strings /\ Len(Copied(<<"/">>, MaxPath - N)) \in Nat
          /\ MaxPath - N >= 1 => Len(Copied(<<"/">>, MaxPath - N)) < MaxPath - N
          /\ 1 < MaxPath - N => Copied(<<"/">>, MaxPath - N) = <<"/">>
      BY <3>1, CopiedFacts
    <3>3. ~ (N < MaxPath - 1) => Len(Copied(<<"/">>, MaxPath - N)) = 0
      BY <2>1, <3>2, MaxPathType
    <3>4. N < MaxPath - 1 => 1 < MaxPath - N
      BY <2>1, MaxPathType
    <3> QED
      BY <3>2, <3>3, <3>4, EmptySeq DEF Strings
  <2>4. PICK b \in Strings : b = c \o slash /\ b = AddTo(c, <<"/">>) /\ Len(b) = N + Len(slash)
    BY <2>1, <2>3, ConcatFacts DEF AddTo
  <2>5. PICK p \in Strings : p = Copied(path, MaxPath - Len(b)) /\ (~ (N < MaxPath - 1) => p = <<>>)
    <3>1. Len(b) \in Nat /\ MaxPath - Len(b) \in Int /\ Len(<<>>) = 0
      BY MaxPathType DEF Strings
    <3>2. /\ Copied(path, MaxPath - Len(b)) \in Strings /\ Len(Copied(path, MaxPath - Len(b))) \in Nat
          /\ MaxPath - Len(b) >= 1 => Len(Copied(path, MaxPath - Len(b))) < MaxPath - Len(b)
      BY <3>1, CopiedFacts
    <3>3. ~ (N < MaxPath - 1) => MaxPath - Len(b) = 1
      BY <2>1, <2>3, <2>4, <3>1, MaxPathType
    <3>4. ~ (N < MaxPath - 1) => Len(Copied(path, MaxPath - Len(b))) = 0
      BY <3>2, <3>3
    <3> QED
      BY <3>2, <3>4, EmptySeq DEF Strings
  <2>6. FullPath(c, path) = b \o p
    BY <1>2, <2>2, <2>4, <2>5 DEF FullPath, AddTo
  <2>7. b \o p \in Strings
    BY ConcatFacts
  <2>8. CASE ~ (N < MaxPath - 1)
    <3>1. b = c /\ b \o p = c
      BY <2>3, <2>4, <2>5, <2>8 DEF Strings
    <3>2. c # <<>>
      <4>1. Len(<<>>) = 0
        OBVIOUS
      <4> QED
        BY <2>1, <2>8, <4>1, MaxPathType
    <3> QED
      BY <2>6, <2>7, <3>1, <3>2
  <2>9. CASE N < MaxPath - 1
    <3>1. PICK rest \in Strings : rest = slash \o p
      BY ConcatFacts
    <3>2. Len(rest) > 0 /\ rest[1] = "/"
      <4>1. Len(slash) = 1 /\ slash[1] = "/" /\ 1 \in 1 .. Len(slash)
        BY <2>3, <2>9
      <4>2. /\ Len(slash \o p) = Len(slash) + Len(p) /\ Len(p) \in Nat
            /\ \A j \in 1 .. Len(slash) : (slash \o p)[j] = slash[j]
        BY ConcatFacts
      <4>3. Len(rest) = 1 + Len(p) /\ rest[1] = slash[1]
        BY <3>1, <4>1, <4>2
      <4> QED
        BY <4>1, <4>2, <4>3
    <3>3. b \o p = c \o rest
      <4>1. (c \o slash) \o p = c \o (slash \o p)
        <5>1. c \in Seq(Chars) /\ slash \in Seq(Chars) /\ p \in Seq(Chars)
          BY DEF Strings
        <5> QED
          BY <5>1, ConcatAssociative
      <4> QED
        BY <2>4, <3>1, <4>1
    <3>4. CASE c = <<>>
      <4>1. c \o rest = rest
        BY <3>4 DEF Strings
      <4> QED
        BY <2>6, <2>7, <3>2, <3>3, <4>1, SlashOpens
    <3>5. CASE c # <<>>
      <4>1. Len(c) > 0 /\ Opens(c)
        BY <3>5, EmptySeq DEF Strings
      <4> QED
        BY <2>6, <2>7, <3>2, <3>3, <4>1, LongerOpens
    <3> QED
      BY <3>4, <3>5
  <2> QED
    BY <2>8, <2>9
<1> QED
  BY <1>1, <1>2


(* The first name of a path with something in its first segment is that.   *)
LEMMA FirstName ==
    ASSUME NEW path \in Strings, Len(Segments(path)) >= 1, Segments(path) \in Seq(SegmentSet),
           Segments(path)[1].text # <<>>
    PROVE  NamesOf(path) # <<>> /\ NamesOf(path)[1] = Segments(path)[1].text
<1>1. PICK segs \in Seq(SegmentSet) : segs = Segments(path)
  OBVIOUS
<1>2. PICK N \in Nat : N = Len(segs) /\ N >= 1
  BY <1>1
<1>3. \A i \in 1 .. N : segs[i] \in SegmentSet /\ segs[i].text \in Strings
  <2>1. \A i \in 1 .. N : segs[i] \in SegmentSet
    BY <1>2, ElementOfSeq
  <2> QED
    BY <2>1 DEF SegmentSet
<1> DEFINE V == Seq(Strings)
           Add(names, i) == WithName(names, segs[i].text)
<1>4. <<>> \in V
  OBVIOUS
<1>5. \A names \in V, i \in 1 .. N : Add(names, i) \in V
  BY <1>3, AppendFacts DEF WithName
<1>6. \A names \in V, i \in 1 .. N : names # <<>> => Add(names, i) # <<>> /\ Add(names, i)[1] = names[1]
  <2> TAKE names \in V, i \in 1 .. N
  <2> HAVE names # <<>>
  <2>1. CASE segs[i].text = <<>>
    BY <2>1 DEF WithName
  <2>2. CASE segs[i].text # <<>>
    <3>1. Len(names) \in Nat /\ Len(names) > 0 /\ 1 \in 1 .. Len(names)
      BY EmptySeq
    <3>2. PICK e \in Strings : e = segs[i].text
      BY <1>3
    <3>3. /\ Append(names, e) \in Seq(Strings) /\ Len(Append(names, e)) = Len(names) + 1
          /\ \A j \in 1 .. Len(names) : Append(names, e)[j] = names[j]
      BY AppendProperties
    <3>4. Append(names, e) # <<>> /\ Append(names, e)[1] = names[1]
      BY <3>1, <3>3
    <3> QED
      BY <2>2, <3>2, <3>4 DEF WithName
  <2> QED
    BY <2>1, <2>2
<1>7. Add(<<>>, 1) = <<segs[1].text>>
  <2>1. Append(<<>>, segs[1].text) = <<segs[1].text>>
    OBVIOUS
  <2> QED
    BY <1>1, <2>1 DEF WithName
<1>8. PICK step : step = [i \in 1 .. N |-> [names \in V |-> Add(names, i)]]
  OBVIOUS
<1> HIDE DEF V, Add
<1>9. step \in [1 .. N -> [V -> V]]
  BY <1>5, <1>8
<1>10. PICK f \in [0 .. N -> V] : Follows(f, N, <<>>, step)
  BY <1>4, <1>9, RecursionExists
<1>11. f[0] = <<>> /\ \A i \in 1 .. N : f[i] = Add(f[i - 1], i)
  <2>1. ASSUME NEW i \in 1 .. N PROVE f[i] = Add(f[i - 1], i)
    <3>1. f[i] = step[i][f[i - 1]] /\ f[i - 1] \in V
      BY <1>10 DEF Follows
    <3> QED
      BY <1>8, <3>1
  <2> QED
    BY <1>10, <2>1 DEF Follows
<1>12. f = [i \in 0 .. N |-> IF i = 0 THEN <<>> ELSE Add(f[i - 1], i)]
  BY <1>10, <1>11
<1>13. PICK g : /\ g = Naming(segs)
                /\ g = [i \in 0 .. N |-> IF i = 0 THEN <<>> ELSE Add(g[i - 1], i)]
  <2>1. N = Len(segs) /\ f = [i \in 0 .. N |-> IF i = 0 THEN <<>> ELSE WithName(f[i - 1], segs[i].text)]
    BY <1>2, <1>12 DEF Add
  <2> QED
    BY <2>1 DEF Naming, Add
<1>14. g[0] = <<>> /\ \A i \in 1 .. N : g[i] = Add(g[i - 1], i)
  <2>1. 0 \in 0 .. N /\ \A i \in 1 .. N : i \in 0 .. N /\ i # 0
    BY <1>2
  <2>2. \A i \in 0 .. N : g[i] = IF i = 0 THEN <<>> ELSE Add(g[i - 1], i)
    BY <1>13, Zenon
  <2> QED
    BY <2>1, <2>2, Zenon
<1> DEFINE S == {i \in 0 .. N : /\ g[i] \in V
                                /\ i > 0 => g[i] # <<>> /\ g[i][1] = segs[1].text}
<1>15. 0 \in S
  BY <1>4, <1>14
<1>16. \A i \in 0 .. N - 1 : i \in S => i + 1 \in S
  <2> TAKE i \in 0 .. N - 1
  <2> HAVE i \in S
  <2>1. i + 1 \in 1 .. N /\ i + 1 \in 0 .. N /\ (i + 1) - 1 = i /\ g[i] \in V
    BY <1>2
  <2>2. g[i + 1] = Add(g[i], i + 1)
    BY <1>14, <2>1
  <2>3. g[i + 1] \in V
    BY <1>5, <2>1, <2>2
  <2>4. CASE i = 0
    <3>1. g[i + 1] = <<segs[1].text>>
      BY <1>7, <1>14, <2>2, <2>4
    <3>2. g[i + 1] # <<>> /\ g[i + 1][1] = segs[1].text
      BY <3>1
    <3> QED
      BY <2>1, <2>3, <3>2
  <2>5. CASE i > 0
    <3>1. g[i] # <<>> /\ g[i][1] = segs[1].text
      BY <2>5
    <3>2. g[i + 1] # <<>> /\ g[i + 1][1] = segs[1].text
      BY <1>6, <2>1, <2>2, <3>1
    <3> QED
      BY <2>1, <2>3, <3>2
  <2>6. i = 0 \/ i > 0
    BY <1>2
  <2> HIDE DEF S
  <2> QED
    BY <2>4, <2>5, <2>6
<1> HIDE DEF S
<1>17. \A i \in 0 .. N : i \in S
  BY <1>15, <1>16, IntervalInduction
<1>18. N \in S
  BY <1>2, <1>17
<1> QED
  BY <1>1, <1>2, <1>13, <1>18 DEF S, NamesOf

LEMMA NameOpens ==
    ASSUME NEW path \in Strings, path # <<>>, NamesOf(path) # <<>> => NamesOf(path)[1] \notin Dots
    PROVE  Opens(path)
<1>1. Len(path) > 0 /\ Len(path) \in Nat
  BY EmptySeq DEF Strings
<1>2. PICK k \in 0 .. Len(path) : (\A j \in 1 .. k : path[j] # "/") /\ (k < Len(path) => path[k + 1] = "/")
  BY SlashFree
<1>3. /\ Segments(path) \in Seq(SegmentSet) /\ Len(Segments(path)) >= 1
      /\ k = 0 => Segments(path)[1].slash
      /\ k > 0 => Segments(path)[1] = [slash |-> FALSE, text |-> SubSeq(path, 1, k)]
  BY <1>1, <1>2, FirstSegment
<1>4. CASE k = 0
  BY <1>3, <1>4 DEF Opens
<1>5. CASE k > 0
  <2>1. Segments(path)[1].text = SubSeq(path, 1, k)
    BY <1>3, <1>5
  <2>2. SubSeq(path, 1, k) # <<>>
    <3>1. 1 \in 1 .. Len(path) /\ k \in 1 .. Len(path) /\ 1 \in Int /\ k \in Int
          /\ \A j \in 1 .. k : path[j] \in Chars
      BY <1>1, <1>5, ElementOfSeq DEF Strings
    <3>2. Len(SubSeq(path, 1, k)) = IF 1 <= k THEN k - 1 + 1 ELSE 0
      BY <3>1, SubSeqProperties
    <3>3. Len(SubSeq(path, 1, k)) = k /\ k > 0 /\ Len(<<>>) = 0
      BY <1>5, <3>2
    <3> QED
      BY <3>3
  <2>3. NamesOf(path) # <<>> /\ NamesOf(path)[1] = Segments(path)[1].text
    BY <1>3, <2>1, <2>2, FirstName
  <2> QED
    BY <1>3, <2>3 DEF Opens
<1> QED
  BY <1>1, <1>4, <1>5

(* So a path that a volume has does not start with dots, unless its root   *)
(* lists them, as it does on an ISO disc and not on a FAT volume.          *)
RootsWithoutDots ==
    \A tree \in Trees : \A names \in DOMAIN tree : names # <<>> => names[1] \notin Dots

LEMMA HeldOpens ==
    ASSUME RootsWithoutDots, NEW path \in Strings, path # <<>>, NEW tree \in Trees, NamesOf(path) \in DOMAIN tree
    PROVE  Opens(path)
BY NameOpens DEF RootsWithoutDots

(* What cd moves to fits the buffer it is kept in.                         *)
LEMMA JunkType == ASSUME NEW junk \in Junk PROVE junk \in [Offsets -> Letters]
<1>1. junk \in [Offsets -> Range(junk)]
  BY InputAssumption
<1>2. Range(junk) \subseteq Letters
  <2>1. \A letter \in Range(junk) : letter \in LeftOver
    BY Zenon DEF LeftOver
  <2>2. LeftOver \subseteq Letters
    BY DEF Letters
  <2> QED
    BY <2>1, <2>2, Zenon
<1> QED
  BY <1>1, <1>2

LEMMA NormalizedFits ==
    ASSUME NEW c \in Strings, Len(c) < MaxPath, c = <<>> \/ Opens(c), NEW path \in Strings,
           NEW junk \in Junk
    PROVE  /\ StringIn(NormalizePath(FullPath(c, path), junk).out) \in Strings
           /\ Len(StringIn(NormalizePath(FullPath(c, path), junk).out)) < MaxPath
<1>1. PICK full \in Strings : full = FullPath(c, path) /\ Opens(full)
  BY FullPathOpens
<1>2. junk \in [Offsets -> Letters]
  BY JunkType
<1>3. PICK segs \in Seq(SegmentSet) : segs = Segments(full)
  <2>1. Len(full) \in 0 .. Len(full)
    BY DEF Strings
  <2> QED
    BY <2>1, SegmentingFacts DEF Segments
<1>4. PICK out : /\ out = NormalizePath(full, junk).out /\ out \in [Offsets -> Letters] /\ Ends(out)
  <2>1. Len(segs) >= 1 /\ (segs[1].slash \/ segs[1].text \notin Dots)
    BY <1>1, <1>3 DEF Opens
  <2>2. /\ Normalizing(segs, junk)[Len(segs)] \in PathStates
        /\ Ends(Normalizing(segs, junk)[Len(segs)].out)
    BY <1>2, <2>1, NormalizingEnds
  <2> QED
    BY <1>3, <2>2 DEF NormalizePath, PathStates
<1> QED
  BY <1>1, <1>4, StringInFacts


-----------------------------------------------------------------------------
(* What normalize_path() gives does not start with dots either, unless it  *)
(* climbed above the root: no segment of dots is written, and what is      *)
(* written later leaves the first segment as it is.                        *)

DotStart(out) ==
    out[0] = "." /\ (out[1] \in {"/", Nul} \/ (out[1] = "." /\ out[2] \in {"/", Nul}))

Clean(s) == s.under \/ (s.idx \in 0 .. MaxPath - 1 /\ s.out[s.idx] = Nul /\ ~ DotStart(s.out))

LEMMA FirstPlaces == {0, 1, 2, 3} \subseteq Offsets /\ "/" # Nul /\ "/" # "." /\ "." # Nul
BY MaxPathType DEF Nul

LEMMA PutValues ==
    ASSUME NEW s \in PathStates, NEW source \in Strings, NEW maxSize \in Int, maxSize >= 1
    PROVE  LET n == Len(Copied(source, maxSize)) IN
           /\ n \in Nat /\ n < maxSize /\ n <= Len(source) /\ (Len(source) < maxSize => n = Len(source))
           /\ Put(s, source, maxSize).idx = s.idx + n
           /\ Put(s, source, maxSize).under = s.under
           /\ \A o \in Offsets : Put(s, source, maxSize).out[o] =
                  IF o \in s.idx .. s.idx + n - 1 THEN source[o - s.idx + 1]
                  ELSE IF o = s.idx + n THEN Nul ELSE s.out[o]
<1> DEFINE copied == Copied(source, maxSize)
           text == copied \o <<Nul>>
           out == [o \in Offsets |-> IF o - s.idx + 1 \in DOMAIN text THEN text[o - s.idx + 1] ELSE s.out[o]]
<1>1. s.idx \in Int /\ s.out \in [Offsets -> Letters] /\ s.under \in BOOLEAN
  BY DEF PathStates
<1>2. PICK n \in Nat : /\ n = Len(copied) /\ n < maxSize /\ n <= Len(source)
                       /\ Len(source) < maxSize => n = Len(source)
                       /\ \A j \in 1 .. n : copied[j] = source[j]
  BY CopiedFacts
<1>3. /\ Len(text) = n + 1 /\ DOMAIN text = 1 .. n + 1 /\ text[n + 1] = Nul
      /\ \A j \in 1 .. n : text[j] = source[j]
  <2>1. copied \in Seq(Chars) /\ Chars \subseteq Letters
    BY CopiedFacts DEF Strings, Chars
  <2>2. copied \in Seq(Letters) /\ <<Nul>> \in Seq(Letters) /\ Len(<<Nul>>) = 1 /\ <<Nul>>[1] = Nul
    BY <2>1, MaxPathType
  <2> HIDE DEF copied
  <2>3. /\ copied \o <<Nul>> \in Seq(Letters) /\ Len(copied \o <<Nul>>) = Len(copied) + Len(<<Nul>>)
        /\ \A i \in 1 .. Len(copied) + Len(<<Nul>>) :
               (copied \o <<Nul>>)[i] = IF i <= Len(copied) THEN copied[i] ELSE <<Nul>>[i - Len(copied)]
    BY <2>2, ConcatProperties
  <2>4. /\ n + 1 \in 1 .. n + 1 /\ ~ (n + 1 <= n) /\ n + 1 - n = 1
        /\ \A j \in 1 .. n : j \in 1 .. n + 1 /\ j <= n
    BY <1>2
  <2>5. Len(text) = n + 1 /\ DOMAIN text = 1 .. n + 1
    BY <1>2, <2>2, <2>3
  <2> QED
    BY <1>2, <2>2, <2>3, <2>4, <2>5
<1>4. Put(s, source, maxSize) = [s EXCEPT !.idx = @ + Len(text) - 1, !.out = out]
  <2>1. ~ (maxSize < 1)
    OBVIOUS
  <2> QED
    BY <2>1 DEF Put
<1> HIDE DEF text
<1>5. PICK idx \in Int : idx = s.idx + n /\ idx = s.idx + Len(text) - 1
  BY <1>1, <1>2, <1>3
<1>6. \A o \in Offsets : out[o] = IF o \in s.idx .. s.idx + n - 1 THEN source[o - s.idx + 1]
                                   ELSE IF o = s.idx + n THEN Nul ELSE s.out[o]
  <2>0. PICK i \in Int, m \in Nat : i = s.idx /\ m = n
    BY <1>1
  <2> TAKE o \in Offsets
  <2>1. o \in Int
    BY DEF Offsets
  <2>2. out[o] = IF o - i + 1 \in 1 .. m + 1 THEN text[o - i + 1] ELSE s.out[o]
    BY <1>3, <2>0
  <2> HIDE DEF out
  <2>3. CASE o \in i .. i + m - 1
    <3>1. o - i + 1 \in 1 .. m /\ o - i + 1 \in 1 .. m + 1
      BY <2>0, <2>1, <2>3
    <3>2. text[o - i + 1] = source[o - i + 1]
      BY <1>3, <2>0, <3>1
    <3> QED
      BY <2>0, <2>2, <2>3, <3>1, <3>2
  <2>4. CASE o = i + m
    <3>1. o - i + 1 = m + 1 /\ m + 1 \in 1 .. m + 1 /\ o \notin i .. i + m - 1
      BY <2>0, <2>1, <2>4
    <3> QED
      BY <1>3, <2>0, <2>2, <2>4, <3>1
  <2>5. CASE o \notin i .. i + m - 1 /\ o # i + m
    <3>0. o < i \/ o > i + m
      BY <2>0, <2>1, <2>5
    <3>1. o - i + 1 \notin 1 .. m + 1
      BY <2>0, <2>1, <3>0
    <3> QED
      BY <2>0, <2>2, <2>5, <3>1
  <2> QED
    BY <2>3, <2>4, <2>5
<1> HIDE DEF out
<1>7. Put(s, source, maxSize) = [s EXCEPT !.idx = idx, !.out = out]
  BY <1>4, <1>5
<1>8. /\ Put(s, source, maxSize).idx = idx /\ Put(s, source, maxSize).under = s.under
      /\ Put(s, source, maxSize).out = out
  BY <1>7 DEF PathStates
<1> QED
  BY <1>2, <1>5, <1>6, <1>8

(* Text put at 3 or later, or a slash or the end put where the string      *)
(* ended, makes no start of dots; nor does text after a slash.             *)
LEMMA SlashedCleans ==
    ASSUME NEW s \in PathStates, NEW segment \in SegmentSet, segment.slash,
           Clean(s) \/ s.idx = 0
    PROVE  LET t == Slashed(s, segment) IN
           /\ t \in PathStates /\ Clean(t)
           /\ t.under \/ (t.idx > 0 /\ (t.idx = MaxPath - 1 \/ t.out[t.idx - 1] = "/"))
<1>0. s.idx \in Int /\ s.under \in BOOLEAN
  BY DEF PathStates
<1>1. PICK slash \in Strings : slash = <<"/">> /\ Len(slash) = 1 /\ slash[1] = "/"
  <2>1. <<"/">> \in Seq(Chars) /\ Len(<<"/">>) = 1 /\ <<"/">>[1] = "/"
    BY MaxPathType
  <2> QED
    BY <2>1 DEF Strings
<1>2. CASE ~ (s.idx = 0 \/ s.out[s.idx - 1] # "/")
  <2>1. Slashed(s, segment) = s
    BY <1>2 DEF Slashed
  <2> QED
    BY <1>0, <1>2, <2>1, MaxPathType DEF Clean
<1>3. CASE s.idx = 0 \/ s.out[s.idx - 1] # "/"
  <2>1. PICK t : t = Put(s, slash, MaxPath - s.idx) /\ t = Slashed(s, segment)
    BY <1>1, <1>3 DEF Slashed
  <2>2. t \in PathStates
    BY <1>0, <2>1, PutFacts, MaxPathType
  <2>3. CASE s.under
    <3>1. t.under
      <4>1. CASE MaxPath - s.idx >= 1
        BY <1>0, <2>1, <2>3, <4>1, PutValues, MaxPathType
      <4>2. CASE MaxPath - s.idx < 1
        <5>1. PICK size \in Int : size = MaxPath - s.idx /\ size < 1
          BY <1>0, <4>2, MaxPathType
        <5>2. Put(s, slash, size) = s
          BY <5>1 DEF Put
        <5> QED
          BY <2>1, <2>3, <5>1, <5>2
      <4> QED
        BY <1>0, <4>1, <4>2, MaxPathType
    <3> QED
      BY <2>1, <2>2, <3>1 DEF Clean
  <2>4. CASE ~ s.under
    <3>1. s.idx \in 0 .. MaxPath - 1 /\ (s.idx # 0 => s.out[s.idx] = Nul /\ ~ DotStart(s.out))
      BY <2>4, MaxPathType DEF Clean
    <3>2. PICK n \in Nat :
              /\ n < MaxPath - s.idx /\ n <= 1 /\ (1 < MaxPath - s.idx => n = 1)
              /\ t.idx = s.idx + n
              /\ \A o \in Offsets : t.out[o] = IF o \in s.idx .. s.idx + n - 1 THEN slash[o - s.idx + 1]
                                                ELSE IF o = s.idx + n THEN Nul ELSE s.out[o]
      <4>1. PICK size \in Int : size = MaxPath - s.idx /\ size >= 1
        BY <3>1, MaxPathType
      <4>2. PICK n : n = Len(Copied(slash, size))
        OBVIOUS
      <4>3. /\ n \in Nat /\ n < size /\ n <= Len(slash) /\ (Len(slash) < size => n = Len(slash))
            /\ Put(s, slash, size).idx = s.idx + n
            /\ \A o \in Offsets : Put(s, slash, size).out[o] =
                   IF o \in s.idx .. s.idx + n - 1 THEN slash[o - s.idx + 1]
                   ELSE IF o = s.idx + n THEN Nul ELSE s.out[o]
        BY <4>1, <4>2, PutValues
      <4> QED
        BY <1>1, <2>1, <4>1, <4>3
    <3>3. CASE n = 0
      <4>1. s.idx = MaxPath - 1 /\ t.idx = MaxPath - 1 /\ s.idx > 2
        BY <3>1, <3>2, <3>3, MaxPathType
      <4>2. t.out[t.idx] = Nul /\ t.out[0] = s.out[0] /\ t.out[1] = s.out[1] /\ t.out[2] = s.out[2]
        BY <3>2, <3>3, <4>1, FirstPlaces, MaxPathType
      <4> QED
        BY <2>1, <2>2, <3>1, <4>1, <4>2, MaxPathType DEF Clean, DotStart
    <3>4. CASE n = 1
      <4>1. t.idx = s.idx + 1 /\ t.idx \in 1 .. MaxPath - 1 /\ t.idx - 1 = s.idx
        BY <3>1, <3>2, <3>4, MaxPathType
      <4>2. /\ t.out[s.idx] = "/" /\ t.out[t.idx] = Nul
            /\ \A o \in Offsets : o # s.idx /\ o # t.idx => t.out[o] = s.out[o]
        <5>1. s.idx \in Offsets /\ t.idx \in Offsets /\ s.idx - s.idx + 1 = 1
          BY <3>1, <4>1, MaxPathType
        <5>2. s.idx \in s.idx .. s.idx + n - 1 /\ t.idx \notin s.idx .. s.idx + n - 1
              /\ \A o \in Offsets : o # s.idx => o \notin s.idx .. s.idx + n - 1
          BY <3>1, <3>4, <4>1 DEF Offsets
        <5> QED
          BY <1>1, <3>2, <5>1, <5>2
      <4>3. ~ DotStart(t.out)
        <5>1. CASE s.idx = 0
          BY <4>2, <5>1, FirstPlaces DEF DotStart
        <5>2. CASE s.idx = 1
          <6>1. t.out[0] = s.out[0] /\ s.out[1] = Nul
            BY <3>1, <4>1, <4>2, <5>2, FirstPlaces
          <6> QED
            BY <3>1, <5>2, <6>1, FirstPlaces DEF DotStart
        <5>3. CASE s.idx = 2
          <6>1. t.out[0] = s.out[0] /\ t.out[1] = s.out[1] /\ s.out[2] = Nul
            BY <3>1, <4>1, <4>2, <5>3, FirstPlaces
          <6> QED
            BY <3>1, <5>3, <6>1, FirstPlaces DEF DotStart
        <5>4. CASE s.idx > 2
          <6>1. t.out[0] = s.out[0] /\ t.out[1] = s.out[1] /\ t.out[2] = s.out[2]
            BY <4>1, <4>2, <5>4, FirstPlaces
          <6> QED
            BY <3>1, <5>4, <6>1 DEF DotStart
        <5> QED
          BY <3>1, <5>1, <5>2, <5>3, <5>4
      <4> QED
        BY <2>1, <2>2, <4>1, <4>2, <4>3, MaxPathType DEF Clean
    <3> QED
      BY <3>2, <3>3, <3>4
  <2> QED
    BY <1>0, <2>3, <2>4
<1> QED
  BY <1>2, <1>3

(* Going back ends at a slash, or at or below the start.                   *)
LEMMA BackFromSlash ==
    ASSUME NEW out, NEW i \in Int, BackFrom(out, i) > 0
    PROVE  out[BackFrom(out, i)] = "/"
<1>1. i > 0
  BY DEF BackFrom
<1> DEFINE T == {0} \cup {j \in 1 .. i : out[j] = "/"}
<1>2. i \in Nat /\ T \subseteq 0 .. i /\ 0 \in T /\ BackFrom(out, i) = Max(T)
  BY <1>1 DEF BackFrom
<1>3. Max(T) \in T
  <2> HIDE DEF T
  <2> QED
    BY <1>2, MaxFacts
<1> QED
  BY <1>2, <1>3

LEMMA UpCleans == ASSUME NEW s \in PathStates, Clean(s) PROVE Clean(Up(s))
<1>1. s.idx \in Int /\ s.out \in [Offsets -> Letters] /\ s.under \in BOOLEAN
  BY DEF PathStates
<1>2. PICK b : b = SkipSlash(s.out, BackFrom(s.out, SkipSlash(s.out, s.idx)))
  OBVIOUS
<1>3. PICK i : i = BackFrom(s.out, b)
  OBVIOUS
<1>4. b \in Int /\ i \in Int /\ i <= s.idx
  <2>1. SkipSlash(s.out, s.idx) \in Int /\ SkipSlash(s.out, s.idx) <= s.idx
    BY <1>1, BackFromFacts
  <2>2. PICK c \in Int : c = BackFrom(s.out, SkipSlash(s.out, s.idx)) /\ c <= s.idx
    BY <1>1, <2>1, BackFromFacts
  <2>3. b \in Int /\ b <= c
    BY <1>2, <2>2, BackFromFacts
  <2>4. i \in Int /\ i <= b
    BY <1>3, <2>3, BackFromFacts
  <2> QED
    BY <1>1, <2>2, <2>3, <2>4
<1>5. PICK out : out = [s.out EXCEPT ![i] = Nul]
  OBVIOUS
<1>6. PICK under \in BOOLEAN : under = (s.under \/ i < 0)
  OBVIOUS
<1>7. Up(s) = [s EXCEPT !.idx = i, !.out = out, !.under = under]
  BY <1>2, <1>3, <1>5, <1>6 DEF Up
<1>8. Up(s).idx = i /\ Up(s).out = out /\ Up(s).under = under
  BY <1>7 DEF PathStates
<1>9. CASE s.under \/ i < 0
  BY <1>6, <1>8, <1>9 DEF Clean
<1>10. CASE ~ s.under /\ ~ (i < 0)
  <2>1. s.idx \in 0 .. MaxPath - 1 /\ s.out[s.idx] = Nul /\ ~ DotStart(s.out)
    BY <1>10 DEF Clean
  <2>2. i \in 0 .. MaxPath - 1 /\ i \in Offsets
    BY <1>4, <1>10, <2>1, MaxPathType
  <2>3. out[i] = Nul /\ \A o \in Offsets : o # i => out[o] = s.out[o]
    BY <1>1, <1>5, <2>2
  <2>4. ~ DotStart(out)
    <3>1. CASE i = 0
      BY <2>3, <3>1, FirstPlaces DEF DotStart
    <3>2. CASE i > 0
      <4>1. s.out[i] = "/"
        BY <1>3, <1>4, <3>2, BackFromSlash
      <4>2. CASE i = 1
        BY <2>1, <2>3, <4>1, <4>2, FirstPlaces DEF DotStart
      <4>3. CASE i = 2
        BY <2>1, <2>3, <4>1, <4>3, FirstPlaces DEF DotStart
      <4>4. CASE i > 2
        <5>1. out[0] = s.out[0] /\ out[1] = s.out[1] /\ out[2] = s.out[2]
          BY <2>3, <4>4, FirstPlaces
        <5> QED
          BY <2>1, <5>1 DEF DotStart
      <4> QED
        BY <1>4, <3>2, <4>2, <4>3, <4>4
    <3> QED
      BY <2>2, <3>1, <3>2
  <2> QED
    BY <1>8, <2>2, <2>3, <2>4 DEF Clean
<1> QED
  BY <1>9, <1>10

LEMMA TextCleans ==
    ASSUME NEW s \in PathStates, NEW text \in Strings, Clean(s),
           s.under \/ (s.idx > 0 /\ (s.idx = MaxPath - 1 \/ s.out[s.idx - 1] = "/"))
    PROVE  Clean(WithText(s, text))
<1>1. CASE text = <<".">>
  BY <1>1 DEF WithText
<1>2. CASE text = <<".", ".">>
  <2>1. WithText(s, text) = Up(s)
    <3>1. <<".", ".">> # <<".">>
      OBVIOUS
    <3> QED
      BY <1>2, <3>1 DEF WithText
  <2> QED
    BY <2>1, UpCleans
<1>3. CASE text # <<".">> /\ text # <<".", ".">>
  <2>1. s.idx \in Int /\ Len(text) \in Nat
    BY DEF PathStates, Strings
  <2>2. PICK size \in Int : /\ size = Lesser(Len(text) + 1, MaxPath - s.idx)
                            /\ size <= MaxPath - s.idx /\ size \in {Len(text) + 1, MaxPath - s.idx}
    <3>1. PICK a \in Int, b \in Int : a = Len(text) + 1 /\ b = MaxPath - s.idx
      BY <2>1, MaxPathType
    <3>2. Lesser(a, b) \in {a, b} /\ Lesser(a, b) <= b
      BY <3>1, LesserFacts
    <3> QED
      BY <3>1, <3>2
  <2>3. PICK t : t = WithText(s, text) /\ t = Put(s, text, size)
    BY <1>3, <2>2 DEF WithText
  <2>4. CASE size < 1
    <3>1. t = s
      BY <2>3, <2>4 DEF Put
    <3> QED
      BY <2>3, <3>1
  <2>5. CASE size >= 1
    <3>1. PICK n : n = Len(Copied(text, size))
      OBVIOUS
    <3>2. /\ n \in Nat /\ n < size
          /\ t.idx = s.idx + n /\ t.under = s.under
          /\ \A o \in Offsets : t.out[o] = IF o \in s.idx .. s.idx + n - 1 THEN text[o - s.idx + 1]
                                            ELSE IF o = s.idx + n THEN Nul ELSE s.out[o]
      BY <2>3, <2>5, <3>1, PutValues
    <3>3. CASE s.under
      BY <2>3, <3>2, <3>3 DEF Clean
    <3>4. CASE ~ s.under
      <4>1. s.idx \in 1 .. MaxPath - 1 /\ s.out[s.idx] = Nul /\ ~ DotStart(s.out)
        BY <3>4, MaxPathType DEF Clean
      <4>2. t.idx \in 0 .. MaxPath - 1 /\ t.idx \in Offsets /\ s.idx <= t.idx
        BY <2>2, <3>2, <4>1, MaxPathType
      <4>3. t.out[t.idx] = Nul
        <5>1. t.idx \notin s.idx .. s.idx + n - 1
          BY <3>2, <4>1
        <5> QED
          BY <3>2, <4>2, <5>1
      <4>4. \A o \in Offsets : o < s.idx => t.out[o] = s.out[o]
        <5> TAKE o \in Offsets
        <5> HAVE o < s.idx
        <5>1. o \notin s.idx .. s.idx + n - 1 /\ o # s.idx + n
          BY <3>2, <4>1 DEF Offsets
        <5> QED
          BY <3>2, <5>1
      <4>5. ~ DotStart(t.out)
        <5>1. CASE s.idx > 2
          <6>0. 0 < s.idx /\ 1 < s.idx /\ 2 < s.idx /\ 0 \in Offsets /\ 1 \in Offsets /\ 2 \in Offsets
            BY <2>1, <5>1, FirstPlaces
          <6>1. t.out[0] = s.out[0] /\ t.out[1] = s.out[1] /\ t.out[2] = s.out[2]
            BY <4>4, <6>0
          <6> QED
            BY <4>1, <6>1 DEF DotStart
        <5>2. CASE s.idx <= 2
          <6>1. s.out[s.idx - 1] = "/"
            BY <3>4, <4>1, <5>2, MaxPathType
          <6>2. CASE s.idx = 1
            <7>1. t.out[0] = "/"
              BY <4>4, <6>1, <6>2, FirstPlaces
            <7> QED
              BY <7>1, FirstPlaces DEF DotStart
          <6>3. CASE s.idx = 2
            <7>1. t.out[0] = s.out[0] /\ t.out[1] = "/" /\ s.out[1] = "/"
              BY <4>4, <6>1, <6>3, FirstPlaces
            <7> QED
              BY <4>1, <7>1, FirstPlaces DEF DotStart
          <6> QED
            BY <4>1, <5>2, <6>2, <6>3
        <5> QED
          BY <4>1, <5>1, <5>2
      <4> QED
        BY <2>3, <4>2, <4>3, <4>5 DEF Clean
    <3> QED
      BY <3>3, <3>4
  <2> QED
    BY <2>4, <2>5
<1> QED
  BY <1>1, <1>2, <1>3

LEMMA FirstTextCleans ==
    ASSUME NEW s \in PathStates, s.idx = 0, NEW text \in Strings, text \notin Dots, text # <<>>,
           \A j \in 1 .. Len(text) : text[j] # "/"
    PROVE  Clean(WithText(s, text))
<1>1. PICK N \in Nat : N = Len(text) /\ N > 0
  BY EmptySeq DEF Strings
<1>2. \A j \in 1 .. N : text[j] # "/" /\ text[j] # Nul
  <2>1. \A j \in 1 .. N : text[j] \in Chars
    BY <1>1, ElementOfSeq DEF Strings
  <2> QED
    BY <1>1, <2>1 DEF Chars
<1>3. PICK size \in Int : /\ size = Lesser(N + 1, MaxPath - s.idx)
                          /\ size <= MaxPath /\ size \in {N + 1, MaxPath} /\ size >= 1
  <2>1. PICK a \in Int, b \in Int : a = N + 1 /\ b = MaxPath /\ b = MaxPath - s.idx /\ a >= 1 /\ b >= 1
    BY <1>1, MaxPathType
  <2>2. Lesser(a, b) \in {a, b} /\ Lesser(a, b) <= b
    BY <2>1, LesserFacts
  <2>3. PICK size \in {a, b} : size = Lesser(a, b) /\ size <= b
    BY <2>2
  <2> QED
    BY <2>1, <2>3
<1>4. PICK t : t = WithText(s, text) /\ t = Put(s, text, size)
  BY <1>1, <1>3 DEF WithText, Dots
<1>5. PICK n : n = Len(Copied(text, size))
  OBVIOUS
<1>6. /\ n \in Nat /\ n < size /\ n <= N /\ (N < size => n = N)
      /\ t.idx = n
      /\ \A o \in Offsets : t.out[o] = IF o \in 0 .. n - 1 THEN text[o + 1]
                                        ELSE IF o = n THEN Nul ELSE s.out[o]
  <2>1. /\ n \in Nat /\ n < size /\ n <= N /\ (N < size => n = N)
        /\ t.idx = s.idx + n
        /\ \A o \in Offsets : t.out[o] = IF o \in s.idx .. s.idx + n - 1 THEN text[o - s.idx + 1]
                                          ELSE IF o = s.idx + n THEN Nul ELSE s.out[o]
    BY <1>1, <1>3, <1>4, <1>5, PutValues
  <2>2. s.idx + n = n /\ s.idx + n - 1 = n - 1 /\ \A o \in Offsets : o - s.idx + 1 = o + 1
    BY <2>1 DEF Offsets
  <2> QED
    BY <2>1, <2>2
<1>7. n > 0 /\ n \in 0 .. MaxPath - 1 /\ n \in Offsets /\ (n = N \/ n >= 3)
  <2>1. CASE size = N + 1
    BY <1>1, <1>3, <1>6, <2>1, MaxPathType
  <2>2. CASE size = MaxPath /\ N < size
    BY <1>1, <1>3, <1>6, <2>2, MaxPathType
  <2>3. CASE size = MaxPath /\ ~ (N < size)
    <3>1. size <= N
      BY <1>1, <2>3, MaxPathType
    <3>2. size - 1 < N /\ size = Lesser(N + 1, MaxPath)
      BY <1>1, <1>3, <3>1
    <3>3. Copied(text, size) = SubSeq(text, 1, size - 1)
      BY <1>1, <2>3, <3>1, <3>2, MaxPathType DEF Copied, Lesser
    <3>4. Len(SubSeq(text, 1, size - 1)) = size - 1
      <4>1. 1 \in 1 .. N /\ size - 1 \in 1 .. N /\ 1 \in Int /\ size - 1 \in Int /\ 1 <= size - 1
            /\ size - 1 - 1 + 1 = size - 1
        BY <1>1, <2>3, <3>2, MaxPathType
      <4>2. \A j \in 1 .. size - 1 : text[j] \in Chars
        BY <1>1, <3>2, ElementOfSeq DEF Strings
      <4>3. Len(SubSeq(text, 1, size - 1)) = IF 1 <= size - 1 THEN size - 1 - 1 + 1 ELSE 0
        BY <4>1, <4>2, SubSeqProperties
      <4> QED
        BY <4>1, <4>3
    <3>5. n = size - 1
      BY <1>5, <3>3, <3>4
    <3> QED
      BY <2>3, <3>5, MaxPathType
  <2> QED
    BY <1>3, <2>1, <2>2, <2>3
<1>8. t.out[n] = Nul
  BY <1>6, <1>7
<1>9. \A o \in 0 .. n - 1 : t.out[o] = text[o + 1] /\ t.out[o] # "/" /\ t.out[o] # Nul
  <2> TAKE o \in 0 .. n - 1
  <2>1. o \in Offsets /\ o + 1 \in 1 .. N
    BY <1>1, <1>6, <1>7, MaxPathType
  <2> QED
    BY <1>2, <1>6, <2>1
<1>10. ~ DotStart(t.out)
  <2> SUFFICES ASSUME DotStart(t.out) PROVE FALSE
    OBVIOUS
  <2>1. t.out[0] = "." /\ text[1] = "."
    BY <1>7, <1>9 DEF DotStart
  <2>2. CASE n = 1
    <3>1. N = 1
      <4>1. ~ (n >= 3)
        BY <2>2
      <4> QED
        BY <1>7, <2>2, <4>1
    <3>2. text = <<".">>
      <4>1. Len(text) = 1 /\ text \in Seq(Chars)
        BY <1>1, <3>1 DEF Strings
      <4> QED
        BY <2>1, <4>1
    <3> QED
      BY <3>2 DEF Dots
  <2>3. CASE n >= 2
    <3>1. t.out[1] = text[2] /\ t.out[1] # "/" /\ t.out[1] # Nul
      BY <1>6, <1>9, <2>3
    <3>2. text[2] = "." /\ t.out[2] \in {"/", Nul}
      BY <3>1 DEF DotStart
    <3>3. CASE n = 2
      <4>1. N = 2
        <5>1. ~ (n >= 3)
          BY <3>3
        <5> QED
          BY <1>7, <3>3, <5>1
      <4>2. text = <<".", ".">>
        <5>1. Len(text) = 2 /\ text \in Seq(Chars)
          BY <1>1, <4>1 DEF Strings
        <5> QED
          BY <2>1, <3>2, <5>1
      <4> QED
        BY <4>2 DEF Dots
    <3>4. CASE n > 2
      <4>1. t.out[2] # "/" /\ t.out[2] # Nul
        BY <1>6, <1>9, <3>4
      <4> QED
        BY <3>2, <4>1
    <3> QED
      BY <1>6, <2>3, <3>3, <3>4
  <2> QED
    BY <1>6, <1>7, <2>2, <2>3
<1> QED
  BY <1>4, <1>6, <1>7, <1>8, <1>10 DEF Clean

(* Every segment but the first has a slash before it.                      *)
LEMMA WithCharSlashes ==
    ASSUME NEW segs \in Seq(SegmentSet), \A i \in 2 .. Len(segs) : segs[i].slash = TRUE,
           NEW before, NEW ch \in Chars
    PROVE  \A i \in 2 .. Len(WithChar(segs, before, ch)) : WithChar(segs, before, ch)[i].slash = TRUE
<1>1. PICK n \in Nat : n = Len(segs) /\ (segs = <<>> <=> n = 0)
  BY EmptySeq
<1>2. CASE ch = "/" /\ before = "/"
  BY <1>2 DEF WithChar
<1>3. CASE ch = "/" /\ before # "/"
  <2>1. PICK new \in SegmentSet : new = [slash |-> TRUE, text |-> <<>>] /\ new.slash = TRUE
    <3>1. <<>> \in Strings
      BY DEF Strings
    <3>2. [slash |-> TRUE, text |-> <<>>] \in SegmentSet
      BY <3>1 DEF SegmentSet
    <3>3. PICK new : new = [slash |-> TRUE, text |-> <<>>]
      OBVIOUS
    <3> QED
      BY <3>2, <3>3
  <2>2. WithChar(segs, before, ch) = Append(segs, new)
    BY <1>3, <2>1 DEF WithChar
  <2>3. PICK r : r = WithChar(segs, before, ch) /\ Len(r) = n + 1 /\ r[n + 1] = new
                 /\ \A i \in 1 .. n : r[i] = segs[i]
    BY <1>1, <2>2, AppendProperties
  <2>4. \A i \in 2 .. n + 1 : r[i].slash = TRUE
    <3> TAKE i \in 2 .. n + 1
    <3>1. CASE i = n + 1
      BY <2>1, <2>3, <3>1
    <3>2. CASE i # n + 1
      <4>1. i \in 1 .. n /\ i \in 2 .. n
        BY <1>1, <3>2
      <4> QED
        BY <1>1, <2>3, <4>1
    <3> QED
      BY <3>1, <3>2
  <2> QED
    BY <2>3, <2>4
<1>4. CASE ch # "/" /\ segs = <<>>
  <2>1. WithChar(segs, before, ch) = <<[slash |-> FALSE, text |-> <<ch>>]>>
    BY <1>4 DEF WithChar
  <2>2. Len(WithChar(segs, before, ch)) = 1
    BY <2>1
  <2>3. 2 .. Len(WithChar(segs, before, ch)) = {}
    BY <2>2
  <2> QED
    BY <2>3
<1>5. CASE ch # "/" /\ segs # <<>>
  <2>1. n >= 1 /\ n - 1 \in Nat /\ \A i \in 1 .. n : segs[i] \in SegmentSet
    BY <1>1, <1>5, ElementOfSeq
  <2>2. PICK front : front = SubSeq(segs, 1, n - 1)
    OBVIOUS
  <2>3. front \in Seq(SegmentSet) /\ Len(front) = n - 1 /\ \A i \in 1 .. n - 1 : front[i] = segs[i]
    <3>1. 1 \in Int /\ n - 1 \in Int /\ \A i \in 1 .. n - 1 : segs[i] \in SegmentSet
      BY <2>1
    <3>2. /\ SubSeq(segs, 1, n - 1) \in Seq(SegmentSet)
          /\ Len(SubSeq(segs, 1, n - 1)) = IF 1 <= n - 1 THEN n - 1 - 1 + 1 ELSE 0
          /\ \A i \in 1 .. n - 1 - 1 + 1 : SubSeq(segs, 1, n - 1)[i] = segs[1 + i - 1]
      BY <3>1, SubSeqProperties
    <3>3. /\ (IF 1 <= n - 1 THEN n - 1 - 1 + 1 ELSE 0) = n - 1 /\ n - 1 - 1 + 1 = n - 1
          /\ \A i \in 1 .. n - 1 : 1 + i - 1 = i
      BY <2>1
    <3> QED
      BY <2>2, <3>2, <3>3
  <2>4. PICK old \in SegmentSet : old = segs[n]
    BY <2>1
  <2>5. PICK more \in SegmentSet : more = Longer(old, ch) /\ more.slash = old.slash
    BY LongerFacts
  <2>6. WithChar(segs, before, ch) = Append(front, more)
    BY <1>1, <1>5, <2>2, <2>4, <2>5 DEF WithChar, Front, Last
  <2>7. /\ Len(WithChar(segs, before, ch)) = n
        /\ \A i \in 1 .. n - 1 : WithChar(segs, before, ch)[i] = segs[i]
        /\ WithChar(segs, before, ch)[n] = more
    <3>1. /\ Len(Append(front, more)) = n - 1 + 1
          /\ \A i \in 1 .. n - 1 : Append(front, more)[i] = front[i]
          /\ Append(front, more)[n - 1 + 1] = more
      BY <2>3, AppendProperties
    <3>2. n - 1 + 1 = n
      BY <2>1
    <3> QED
      BY <2>3, <2>6, <3>1, <3>2
  <2>8. PICK r : r = WithChar(segs, before, ch)
    OBVIOUS
  <2>9. \A i \in 2 .. n : r[i].slash = TRUE
    <3> TAKE i \in 2 .. n
    <3>1. CASE i = n
      BY <1>1, <2>4, <2>5, <2>7, <2>8, <3>1
    <3>2. CASE i # n
      <4>1. i \in 1 .. n - 1
        BY <2>1, <3>2
      <4> QED
        BY <1>1, <2>7, <2>8, <4>1
    <3> QED
      BY <3>1, <3>2
  <2> QED
    BY <2>7, <2>8, <2>9
<1> QED
  BY <1>2, <1>3, <1>4, <1>5

LEMMA SegmentsSlash ==
    ASSUME NEW path \in Strings
    PROVE  \A i \in 2 .. Len(Segments(path)) : Segments(path)[i].slash = TRUE
<1>1. PICK N \in Nat : N = Len(path)
  BY DEF Strings
<1>2. \A i \in 1 .. N : path[i] \in Chars
  BY <1>1, ElementOfSeq DEF Strings
<1>3. PICK g : g = Segmenting(path)
  OBVIOUS
<1>4. /\ g[0] = <<>> /\ \A i \in 0 .. N : g[i] \in Seq(SegmentSet)
      /\ \A i \in 1 .. N : g[i] = WithChar(g[i - 1], IF i = 1 THEN Nul ELSE path[i - 1], path[i])
  BY <1>1, <1>3, SegmentingFacts
<1>5. Segments(path) = g[N]
  BY <1>1, <1>3 DEF Segments
<1> DEFINE S == {i \in 0 .. N : \A j \in 2 .. Len(g[i]) : g[i][j].slash = TRUE}
<1>6. 0 \in S
  <2>1. Len(g[0]) = 0
    BY <1>4
  <2>2. 2 .. Len(g[0]) = {}
    BY <2>1
  <2> QED
    BY <1>1, <2>2
<1>7. \A i \in 0 .. N - 1 : i \in S => i + 1 \in S
  <2> TAKE i \in 0 .. N - 1
  <2> HAVE i \in S
  <2>1. i + 1 \in 1 .. N /\ (i + 1) - 1 = i /\ g[i] \in Seq(SegmentSet) /\ i + 1 \in 0 .. N
    BY <1>1, <1>4
  <2>2. PICK before : before = IF i + 1 = 1 THEN Nul ELSE path[i]
    OBVIOUS
  <2>3. g[i + 1] = WithChar(g[i], before, path[i + 1]) /\ path[i + 1] \in Chars
    BY <1>2, <1>4, <2>1, <2>2
  <2>4. \A j \in 2 .. Len(g[i]) : g[i][j].slash = TRUE
    OBVIOUS
  <2>5. \A j \in 2 .. Len(g[i + 1]) : g[i + 1][j].slash = TRUE
    BY <2>1, <2>3, <2>4, WithCharSlashes
  <2> QED
    BY <2>1, <2>5
<1> HIDE DEF S
<1>8. \A i \in 0 .. N : i \in S
  BY <1>1, <1>6, <1>7, IntervalInduction
<1>9. N \in S
  BY <1>1, <1>8
<1> QED
  BY <1>5, <1>9 DEF S

(* A buffer that held anything ends clean, when the path does not start    *)
(* with dots.                                                              *)
LEMMA TurnCleans ==
    ASSUME NEW s \in PathStates, NEW segment \in SegmentSet, segment.slash, Clean(s) \/ s.idx = 0
    PROVE  Clean(Turn(s, segment))
<1>1. PICK text \in Strings : text = segment.text
  BY DEF SegmentSet
<1>2. PICK t \in PathStates :
          /\ t = Slashed(s, segment) /\ Clean(t)
          /\ t.under \/ (t.idx > 0 /\ (t.idx = MaxPath - 1 \/ t.out[t.idx - 1] = "/"))
  BY SlashedCleans
<1>3. PICK u : u = WithText(t, text)
  OBVIOUS
<1>4. Clean(WithText(t, text))
  BY <1>2, TextCleans
<1>5. Turn(s, segment) = u
  BY <1>1, <1>2, <1>3 DEF Turn
<1> QED
  BY <1>3, <1>4, <1>5

LEMMA NormalizingCleans ==
    ASSUME NEW segs \in Seq(SegmentSet), Len(segs) >= 1,
           \A i \in 2 .. Len(segs) : segs[i].slash = TRUE,
           \/ segs[1].slash
           \/ /\ segs[1].text \notin Dots /\ segs[1].text # <<>>
              /\ \A j \in 1 .. Len(segs[1].text) : segs[1].text[j] # "/",
           NEW out \in [Offsets -> Letters]
    PROVE  Clean(Normalizing(segs, out)[Len(segs)])
<1>1. PICK N \in Nat : N = Len(segs) /\ N >= 1
  OBVIOUS
<1>2. \A i \in 1 .. N : segs[i] \in SegmentSet
  BY <1>1, ElementOfSeq
<1>3. PICK g : g = Normalizing(segs, out)
  OBVIOUS
<1>4. /\ g[0] = AtStart(out) /\ \A i \in 0 .. N : g[i] \in PathStates
      /\ \A i \in 1 .. N : g[i] = Turn(g[i - 1], segs[i])
  BY <1>1, <1>3, NormalizingFacts
<1>5. g[0].idx = 0
  BY <1>4 DEF AtStart
<1> DEFINE S == {i \in 0 .. N : i > 0 => Clean(g[i])}
<1>6. 0 \in S
  BY <1>1
<1>7. \A i \in 0 .. N - 1 : i \in S => i + 1 \in S
  <2> TAKE i \in 0 .. N - 1
  <2> HAVE i \in S
  <2>1. i + 1 \in 1 .. N /\ i + 1 \in 0 .. N /\ (i + 1) - 1 = i /\ g[i] \in PathStates
    BY <1>1, <1>4
  <2>2. g[i + 1] = Turn(g[i], segs[i + 1]) /\ segs[i + 1] \in SegmentSet
    BY <1>2, <1>4, <2>1
  <2>3. CASE segs[i + 1].slash
    <3>1. Clean(g[i]) \/ g[i].idx = 0
      <4>1. CASE i = 0
        BY <1>5, <4>1
      <4>2. CASE i > 0
        BY <4>2
      <4> QED
        BY <4>1, <4>2
    <3>2. Clean(g[i + 1])
      BY <2>1, <2>2, <2>3, <3>1, TurnCleans
    <3> QED
      BY <2>1, <3>2
  <2>4. CASE ~ segs[i + 1].slash
    <3>1. i = 0
      <4>1. i > 0 => i + 1 \in 2 .. Len(segs)
        BY <1>1
      <4> QED
        BY <2>4, <4>1
    <3>2. PICK text \in Strings : text = segs[1].text /\ text \notin Dots /\ text # <<>>
                                  /\ \A j \in 1 .. Len(text) : text[j] # "/"
      <4>1. segs[1] \in SegmentSet /\ ~ segs[1].slash
        BY <2>2, <2>4, <3>1
      <4> QED
        BY <4>1 DEF SegmentSet
    <3>3. g[1] = WithText(g[0], text)
      BY <2>2, <2>4, <3>1, <3>2 DEF Turn, Slashed
    <3>4. Clean(WithText(g[0], text))
      BY <1>5, <2>1, <3>1, <3>2, FirstTextCleans
    <3>5. Clean(g[i + 1])
      BY <3>1, <3>3, <3>4
    <3> QED
      BY <2>1, <3>5
  <2> QED
    BY <2>3, <2>4
<1> HIDE DEF S
<1>8. \A i \in 0 .. N : i \in S
  BY <1>1, <1>6, <1>7, IntervalInduction
<1>9. N \in S
  BY <1>1, <1>8
<1> QED
  BY <1>1, <1>3, <1>9 DEF S

(* The string in a buffer that does not start with dots opens nothing, or  *)
(* a path that does not start with dots.                                   *)
LEMMA CleanOpens ==
    ASSUME NEW out \in [Offsets -> Letters], Ends(out), ~ DotStart(out)
    PROVE  StringIn(out) = <<>> \/ Opens(StringIn(out))
<1>1. PICK str \in Strings : str = StringIn(out)
  BY StringInFacts
<1>2. PICK N \in 0 .. MaxPath - 1 : N = Len(str) /\ out[N] = Nul
                                    /\ \A j \in 1 .. N : str[j] = out[j - 1]
  BY <1>1, StringInFacts
<1>3. CASE N = 0
  <2>1. str = <<>>
    BY <1>2, <1>3, EmptySeq DEF Strings
  <2> QED
    BY <1>1, <2>1
<1>4. CASE N > 0
  <2>1. PICK k \in 0 .. N : (\A j \in 1 .. k : str[j] # "/") /\ (k < N => str[k + 1] = "/")
    BY <1>2, SlashFree
  <2>2. /\ Len(Segments(str)) >= 1
        /\ k = 0 => Segments(str)[1].slash
        /\ k > 0 => Segments(str)[1] = [slash |-> FALSE, text |-> SubSeq(str, 1, k)]
    BY <1>2, <1>4, <2>1, FirstSegment
  <2>3. CASE k = 0
    BY <1>1, <2>2, <2>3 DEF Opens
  <2>4. CASE k > 0
    <3>1. PICK text : text = SubSeq(str, 1, k) /\ Segments(str)[1].text = text
      BY <2>2, <2>4
    <3>2. Len(text) = k /\ \A j \in 1 .. k : text[j] = str[j]
      <4>1. PICK n \in Nat : n = Len(str) /\ n = N /\ str \in Seq(Chars)
        <5>1. str \in Seq(Chars) /\ Len(str) \in Nat
          BY DEF Strings
        <5> QED
          BY <1>2, <5>1
      <4>2. \A i \in 1 .. n : str[i] \in Chars
        BY <4>1, ElementOfSeq
      <4>3. 1 \in Int /\ k \in Int /\ \A i \in 1 .. k : str[i] \in Chars
        BY <2>1, <4>1, <4>2
      <4>4. /\ Len(SubSeq(str, 1, k)) = IF 1 <= k THEN k - 1 + 1 ELSE 0
            /\ \A i \in 1 .. k - 1 + 1 : SubSeq(str, 1, k)[i] = str[1 + i - 1]
        BY <4>3, SubSeqProperties
      <4>5. (IF 1 <= k THEN k - 1 + 1 ELSE 0) = k /\ k - 1 + 1 = k /\ \A i \in 1 .. k : 1 + i - 1 = i
        BY <2>1, <2>4
      <4> QED
        BY <3>1, <4>4, <4>5
    <3>3. \A j \in 1 .. k : text[j] = out[j - 1]
      BY <1>2, <2>1, <3>2
    <3>4. k \in 0 .. MaxPath - 1 /\ out[k] \in {"/", Nul}
      <4>1. CASE k = N
        BY <1>2, <4>1
      <4>2. CASE k < N
        <5>1. k + 1 \in 1 .. N /\ (k + 1) - 1 = k
          BY <1>2, <2>1, <4>2
        <5> QED
          BY <1>2, <2>1, <4>2, <5>1, MaxPathType
      <4> QED
        BY <1>2, <2>1, <4>1, <4>2
    <3>5. text # <<".">>
      <4> SUFFICES ASSUME text = <<".">> PROVE FALSE
        OBVIOUS
      <4>1. k = 1 /\ text[1] = "."
        BY <3>2
      <4>2. out[0] = "." /\ out[1] \in {"/", Nul}
        BY <3>3, <3>4, <4>1
      <4> QED
        BY <4>2 DEF DotStart
    <3>6. text # <<".", ".">>
      <4> SUFFICES ASSUME text = <<".", ".">> PROVE FALSE
        OBVIOUS
      <4>1. k = 2 /\ text[1] = "." /\ text[2] = "."
        BY <3>2
      <4>2. out[0] = "." /\ out[1] = "." /\ out[2] \in {"/", Nul}
        BY <3>3, <3>4, <4>1
      <4> QED
        BY <4>2 DEF DotStart
    <3> QED
      BY <1>1, <2>2, <3>1, <3>5, <3>6 DEF Opens, Dots
  <2> QED
    BY <2>1, <2>3, <2>4
<1> QED
  BY <1>2, <1>3, <1>4

(* So the path that a command works on does not start with dots, unless    *)
(* normalizing it went below the buffer.                                   *)
LEMMA NormalizedOpens ==
    ASSUME NEW c \in Strings, Len(c) < MaxPath, c = <<>> \/ Opens(c), NEW path \in Strings,
           NEW junk \in Junk, ~ NormalizePath(FullPath(c, path), junk).under
    PROVE  \/ StringIn(NormalizePath(FullPath(c, path), junk).out) = <<>>
           \/ Opens(StringIn(NormalizePath(FullPath(c, path), junk).out))
<1>1. PICK full \in Strings : full = FullPath(c, path) /\ Opens(full)
  BY FullPathOpens
<1>2. PICK segs \in Seq(SegmentSet) : segs = Segments(full) /\ Len(segs) >= 1 /\ Len(full) > 0
  <2>1. PICK N \in Nat : N = Len(full)
    BY DEF Strings
  <2>2. Segments(full) \in Seq(SegmentSet) /\ (N = 0 => Segments(full) = <<>>)
    BY <2>1, SegmentingFacts DEF Segments
  <2>3. Len(Segments(full)) >= 1
    BY <1>1 DEF Opens
  <2>4. N # 0
    <3>1. Len(<<>>) = 0
      OBVIOUS
    <3> QED
      BY <2>2, <2>3, <3>1
  <2> QED
    BY <2>1, <2>2, <2>3, <2>4
<1>3. \A i \in 2 .. Len(segs) : segs[i].slash = TRUE
  BY <1>2, SegmentsSlash
<1>4. \/ segs[1].slash
      \/ /\ segs[1].text \notin Dots /\ segs[1].text # <<>>
         /\ \A j \in 1 .. Len(segs[1].text) : segs[1].text[j] # "/"
  <2>1. PICK N \in Nat : N = Len(full) /\ N > 0 /\ full \in Seq(Chars)
    BY <1>1, <1>2 DEF Strings
  <2>2. PICK k \in 0 .. N : (\A j \in 1 .. k : full[j] # "/") /\ (k < N => full[k + 1] = "/")
    BY <2>1, SlashFree
  <2>3. CASE k = 0
    BY <1>2, <2>1, <2>2, <2>3, FirstSegment
  <2>4. CASE k > 0
    <3>1. PICK text : text = SubSeq(full, 1, k) /\ segs[1] = [slash |-> FALSE, text |-> text]
      BY <1>2, <2>1, <2>2, <2>4, FirstSegment
    <3>2. \A i \in 1 .. N : full[i] \in Chars
      BY <2>1, ElementOfSeq
    <3>3. 1 \in Int /\ k \in Int /\ \A i \in 1 .. k : full[i] \in Chars
      BY <2>1, <2>2, <3>2
    <3>4. /\ Len(SubSeq(full, 1, k)) = IF 1 <= k THEN k - 1 + 1 ELSE 0
          /\ \A i \in 1 .. k - 1 + 1 : SubSeq(full, 1, k)[i] = full[1 + i - 1]
      BY <3>3, SubSeqProperties
    <3>5. (IF 1 <= k THEN k - 1 + 1 ELSE 0) = k /\ k - 1 + 1 = k /\ \A i \in 1 .. k : 1 + i - 1 = i
      BY <2>2, <2>4
    <3>6. Len(text) = k /\ \A j \in 1 .. k : text[j] = full[j]
      BY <3>1, <3>4, <3>5
    <3>7. text # <<>> /\ \A j \in 1 .. Len(text) : text[j] # "/"
      BY <2>2, <2>4, <3>6
    <3>8. segs[1].text = text /\ segs[1].slash = FALSE
      BY <3>1
    <3> QED
      BY <1>1, <1>2, <3>7, <3>8 DEF Opens
  <2> QED
    BY <2>2, <2>3, <2>4
<1>5. PICK s \in PathStates : s = NormalizePath(full, junk) /\ Clean(s) /\ Ends(s.out)
  <2>1. junk \in [Offsets -> Letters]
    BY JunkType
  <2>2. Clean(Normalizing(segs, junk)[Len(segs)])
    BY <1>2, <1>3, <1>4, <2>1, NormalizingCleans
  <2>3. Normalizing(segs, junk)[Len(segs)] \in PathStates /\ Ends(Normalizing(segs, junk)[Len(segs)].out)
    BY <1>2, <1>4, <2>1, NormalizingEnds
  <2> QED
    BY <1>2, <2>2, <2>3 DEF NormalizePath
<1>6. s.out \in [Offsets -> Letters] /\ ~ DotStart(s.out)
  BY <1>1, <1>5 DEF PathStates, Clean
<1> QED
  BY <1>1, <1>5, <1>6, CleanOpens

-----------------------------------------------------------------------------
(* A line gives back the words it was typed for.                           *)

Taken(start, line) == Taking(start, line)[Len(line)]

LEMMA TakenNone == ASSUME NEW s \in Parses PROVE Taken(s, <<>>) = s
<1>1. <<>> \in Strings /\ Len(<<>>) = 0
  BY DEF Strings
<1> QED
  BY <1>1, TakingFacts DEF Taken

LEMMA TakenOne ==
    ASSUME NEW s \in Parses, NEW ch \in Chars
    PROVE  <<ch>> \in Strings /\ Taken(s, <<ch>>) = TakeChar(s, ch)
<1>1. PICK one : one = <<ch>>
  OBVIOUS
<1>2. one \in Strings /\ Len(one) = 1 /\ one[1] = ch
  BY <1>1 DEF Strings
<1>3. Taking(s, one)[0] = s /\ Taking(s, one)[1] = TakeChar(Taking(s, one)[0], one[1])
  <2>1. /\ Taking(s, one)[0] = s
        /\ \A i \in 1 .. Len(one) : Taking(s, one)[i] = TakeChar(Taking(s, one)[i - 1], one[i])
    BY <1>2, TakingFacts
  <2>2. 1 \in 1 .. Len(one) /\ 1 - 1 = 0
    BY <1>2
  <2> QED
    BY <2>1, <2>2
<1>4. Taken(s, one) = TakeChar(s, ch)
  BY <1>2, <1>3 DEF Taken
<1> QED
  BY <1>1, <1>2, <1>4

LEMMA TakenConcat ==
    ASSUME NEW s \in Parses, NEW a \in Strings, NEW b \in Strings
    PROVE  a \o b \in Strings /\ Taken(s, a) \in Parses /\ Taken(s, a \o b) = Taken(Taken(s, a), b)
<1>1. PICK n \in Nat, m \in Nat : n = Len(a) /\ m = Len(b)
  BY DEF Strings
<1>2. PICK c \in Strings : /\ c = a \o b /\ Len(c) = n + m
                           /\ \A i \in 1 .. n + m : c[i] = IF i <= n THEN a[i] ELSE b[i - n]
  <2>1. /\ a \o b \in Seq(Chars) /\ Len(a \o b) = Len(a) + Len(b)
        /\ \A i \in 1 .. Len(a) + Len(b) : (a \o b)[i] = IF i <= Len(a) THEN a[i] ELSE b[i - Len(a)]
    BY ConcatProperties DEF Strings
  <2> QED
    BY <1>1, <2>1 DEF Strings
<1>3. PICK g : /\ g = Taking(s, a) /\ g[0] = s /\ (\A i \in 0 .. n : g[i] \in Parses)
               /\ \A i \in 1 .. n : g[i] = TakeChar(g[i - 1], a[i])
  BY <1>1, TakingFacts
<1>4. PICK t \in Parses : t = g[n] /\ t = Taken(s, a)
  <2>1. n \in 0 .. n
    OBVIOUS
  <2> QED
    BY <1>1, <1>3, <2>1 DEF Taken
<1>5. PICK h : /\ h = Taking(t, b) /\ h[0] = t
               /\ \A i \in 1 .. m : h[i] = TakeChar(h[i - 1], b[i])
  BY <1>1, TakingFacts
<1>6. PICK f : /\ f = Taking(s, c) /\ f[0] = s
               /\ \A i \in 1 .. n + m : f[i] = TakeChar(f[i - 1], c[i])
  <2>1. /\ Taking(s, c)[0] = s
        /\ \A i \in 1 .. Len(c) : Taking(s, c)[i] = TakeChar(Taking(s, c)[i - 1], c[i])
    BY TakingFacts
  <2> QED
    BY <1>2, <2>1
<1> DEFINE S == {i \in 0 .. n : f[i] = g[i]}
<1>7. 0 \in S
  BY <1>3, <1>6
<1>8. \A i \in 0 .. n - 1 : i \in S => i + 1 \in S
  <2> TAKE i \in 0 .. n - 1
  <2> HAVE i \in S
  <2>1. /\ i + 1 \in 1 .. n /\ i + 1 \in 1 .. n + m /\ i + 1 \in 0 .. n /\ (i + 1) - 1 = i /\ i + 1 <= n
        /\ f[i] = g[i]
    OBVIOUS
  <2>2. g[i + 1] = TakeChar(g[i], a[i + 1]) /\ f[i + 1] = TakeChar(f[i], c[i + 1]) /\ c[i + 1] = a[i + 1]
    BY <1>2, <1>3, <1>6, <2>1
  <2> QED
    BY <2>1, <2>2
<1> DEFINE R == {j \in 0 .. m : f[n + j] = h[j]}
<1>9. 0 \in R
  <2> HIDE DEF S
  <2>1. n \in S
    BY <1>7, <1>8, IntervalInduction
  <2>2. f[n] = g[n]
    BY <2>1 DEF S
  <2> QED
    BY <1>4, <1>5, <2>2
<1>10. \A j \in 0 .. m - 1 : j \in R => j + 1 \in R
  <2> TAKE j \in 0 .. m - 1
  <2> HAVE j \in R
  <2>1. /\ j + 1 \in 1 .. m /\ j + 1 \in 0 .. m /\ (j + 1) - 1 = j
        /\ f[n + j] = h[j]
    OBVIOUS
  <2>2. PICK k : k = n + j + 1
    OBVIOUS
  <2>3. k \in 1 .. n + m /\ ~ (k <= n) /\ k - n = j + 1 /\ k - 1 = n + j /\ n + (j + 1) = k
    BY <2>1, <2>2
  <2>4. h[j + 1] = TakeChar(h[j], b[j + 1]) /\ f[k] = TakeChar(f[k - 1], c[k]) /\ c[k] = b[k - n]
    BY <1>2, <1>5, <1>6, <2>1, <2>3
  <2>5. f[n + (j + 1)] = h[j + 1]
    BY <2>1, <2>3, <2>4
  <2> QED
    BY <2>1, <2>5
<1>11. f[n + m] = h[m]
  <2> HIDE DEF R
  <2>1. m \in R
    BY <1>9, <1>10, IntervalInduction
  <2> QED
    BY <2>1 DEF R
<1> QED
  BY <1>1, <1>2, <1>4, <1>5, <1>6, <1>11 DEF Taken

LEMMA TakenFlat ==
    ASSUME NEW s \in Parses, NEW ws \in Seq(Strings), NEW h, h[0] = s,
           \A i \in 0 .. Len(ws) : h[i] \in Parses,
           \A i \in 1 .. Len(ws) : h[i] = Taken(h[i - 1], ws[i])
    PROVE  FlattenSeq(ws) \in Strings /\ Taken(s, FlattenSeq(ws)) = h[Len(ws)]
<1>1. PICK N \in Nat : N = Len(ws) /\ \A i \in 1 .. N : ws[i] \in Strings
  BY ElementOfSeq
<1>2. PICK g \in [0 .. N -> Strings] : /\ g[0] = <<>> /\ g[N] = FlattenSeq(ws)
                                       /\ \A i \in 1 .. N : g[i] = g[i - 1] \o ws[i]
  BY <1>1, FlattenFacts DEF Strings
<1> DEFINE S == {i \in 0 .. N : Taken(s, g[i]) = h[i]}
<1>3. 0 \in S
  BY <1>2, TakenNone
<1>4. \A i \in 0 .. N - 1 : i \in S => i + 1 \in S
  <2> TAKE i \in 0 .. N - 1
  <2> HAVE i \in S
  <2>1. i + 1 \in 1 .. N /\ i + 1 \in 0 .. N /\ i \in 0 .. N /\ (i + 1) - 1 = i /\ Taken(s, g[i]) = h[i]
    OBVIOUS
  <2>2. PICK a \in Strings, b \in Strings : a = g[i] /\ b = ws[i + 1] /\ g[i + 1] = a \o b
    BY <1>1, <1>2, <2>1
  <2>3. Taken(s, a \o b) = Taken(Taken(s, a), b)
    BY TakenConcat
  <2>4. h[i + 1] = Taken(h[i], b)
    BY <1>1, <2>1, <2>2
  <2> QED
    BY <2>1, <2>2, <2>3, <2>4
<1>5. N \in S
  <2> HIDE DEF S
  <2>1. \A i \in 0 .. N : i \in S
    BY <1>3, <1>4, IntervalInduction
  <2> QED
    BY <2>1
<1> QED
  BY <1>1, <1>2, <1>5

(* What parse_args() has between two characters.                           *)
Parsed(args, cur, quoted, stop) == [args |-> args, cur |-> cur, quoted |-> quoted, hide |-> FALSE, stop |-> stop]

ArgLists == {args \in Seq(Strings) : Len(args) < MaxArgv}
Plainly == Chars \ {"space", "quote", "backslash"}

LEMMA ParsedFacts ==
    ASSUME NEW args \in ArgLists, NEW cur \in Seq(Strings), NEW quoted \in BOOLEAN, NEW stop \in BOOLEAN
    PROVE  /\ Parsed(args, cur, quoted, stop) \in Parses
           /\ Parsed(args, cur, quoted, stop).args = args /\ Parsed(args, cur, quoted, stop).cur = cur
           /\ Parsed(args, cur, quoted, stop).quoted = quoted /\ Parsed(args, cur, quoted, stop).stop = stop
           /\ Parsed(args, cur, quoted, stop).hide = FALSE
BY DEF Parsed, Parses, ArgLists

(* Changes of that record.                                                 *)
State(args, cur, quoted, hide, stop) ==
    [args |-> args, cur |-> cur, quoted |-> quoted, hide |-> hide, stop |-> stop]

LEMMA SpecialChars == /\ {"space", "quote", "backslash"} \subseteq Chars
                      /\ "space" # "quote" /\ "space" # "backslash" /\ "quote" # "backslash"
BY DEF Chars, Letters, Nul

LEMMA TakePlain ==
    ASSUME NEW s, ~ s.stop, ~ s.hide, NEW ch \in Chars \ {"quote", "backslash"}, ~ (ch = "space" /\ ~ s.quoted)
    PROVE  TakeChar(s, ch) = [s EXCEPT !.cur = <<Append(Text(s.cur), ch)>>]
BY DEF TakeChar

(* Quotes and spaces, and what is in quotes or not.                        *)
LEMMA TakeQuoted ==
    ASSUME NEW args \in ArgLists, NEW cur \in Seq(Strings), NEW ch \in Chars \ {"quote", "backslash"}
    PROVE  TakeChar(Parsed(args, cur, TRUE, FALSE), ch) = Parsed(args, <<Append(Text(cur), ch)>>, TRUE, FALSE)
<1>1. PICK s : s = Parsed(args, cur, TRUE, FALSE)
  OBVIOUS
<1>2. PICK new : new = <<Append(Text(cur), ch)>>
  OBVIOUS
<1>3. s.cur = cur /\ s.quoted /\ ~ s.hide /\ ~ s.stop
  BY <1>1 DEF Parsed
<1>4. TakeChar(s, ch) = [s EXCEPT !.cur = new]
  BY <1>2, <1>3, TakePlain
<1> QED
  BY <1>1, <1>2, <1>4 DEF Parsed

LEMMA TakeUnquoted ==
    ASSUME NEW args \in ArgLists, NEW cur \in Seq(Strings), NEW ch \in Plainly
    PROVE  TakeChar(Parsed(args, cur, FALSE, FALSE), ch) = Parsed(args, <<Append(Text(cur), ch)>>, FALSE, FALSE)
<1>1. PICK s : s = Parsed(args, cur, FALSE, FALSE)
  OBVIOUS
<1>2. PICK new : new = <<Append(Text(cur), ch)>>
  OBVIOUS
<1>3. s.cur = cur /\ ~ s.hide /\ ~ s.stop /\ ch # "space" /\ ch \in Chars \ {"quote", "backslash"}
  BY <1>1 DEF Parsed, Plainly
<1>4. TakeChar(s, ch) = [s EXCEPT !.cur = new]
  BY <1>2, <1>3, TakePlain
<1> QED
  BY <1>1, <1>2, <1>4 DEF Parsed

LEMMA TakeQuote ==
    ASSUME NEW args \in ArgLists, NEW cur \in Seq(Strings)
    PROVE  /\ TakeChar(Parsed(args, cur, FALSE, FALSE), "quote") = Parsed(args, cur, TRUE, FALSE)
           /\ TakeChar(Parsed(args, cur, TRUE, FALSE), "quote") = Parsed(args, cur, FALSE, FALSE)
<1>1. ASSUME NEW s, ~ s.stop, ~ s.hide PROVE TakeChar(s, "quote") = [s EXCEPT !.quoted = ~ s.quoted]
  BY <1>1, SpecialChars DEF TakeChar
<1>2. PICK s : s = Parsed(args, cur, FALSE, FALSE)
  OBVIOUS
<1>3. PICK t : t = Parsed(args, cur, TRUE, FALSE)
  OBVIOUS
<1>4. ~ s.stop /\ ~ s.hide /\ ~ t.stop /\ ~ t.hide
  BY <1>2, <1>3 DEF Parsed
<1>5. TakeChar(s, "quote") = [s EXCEPT !.quoted = ~ s.quoted] /\ TakeChar(t, "quote") = [t EXCEPT !.quoted = ~ t.quoted]
  BY <1>1, <1>4
<1>6. [s EXCEPT !.quoted = ~ s.quoted] = t
  <2>1. s.quoted = FALSE /\ (~ FALSE) = TRUE
    BY <1>2 DEF Parsed
  <2>2. [s EXCEPT !.quoted = ~ s.quoted] = [s EXCEPT !.quoted = TRUE]
    BY <2>1, Zenon
  <2>3. [s EXCEPT !.quoted = TRUE] = t
    <3>1. s = State(args, cur, FALSE, FALSE, FALSE) /\ t = State(args, cur, TRUE, FALSE, FALSE)
      BY <1>2, <1>3 DEF Parsed, State
    <3>2. PICK yes, no : yes = TRUE /\ no = FALSE
      BY Zenon
    <3>3. [State(args, cur, no, no, no) EXCEPT !.quoted = yes] = State(args, cur, yes, no, no)
      BY DEF State
    <3> QED
      BY <3>1, <3>2, <3>3, Zenon
  <2> QED
    BY <2>2, <2>3
<1>7. [t EXCEPT !.quoted = ~ t.quoted] = s
  <2>1. t.quoted = TRUE /\ (~ TRUE) = FALSE
    BY <1>3 DEF Parsed
  <2>2. [t EXCEPT !.quoted = ~ t.quoted] = [t EXCEPT !.quoted = FALSE]
    BY <2>1, Zenon
  <2>3. [t EXCEPT !.quoted = FALSE] = s
    <3>1. s = State(args, cur, FALSE, FALSE, FALSE) /\ t = State(args, cur, TRUE, FALSE, FALSE)
      BY <1>2, <1>3 DEF Parsed, State
    <3>2. PICK yes, no : yes = TRUE /\ no = FALSE
      BY Zenon
    <3>3. [State(args, cur, yes, no, no) EXCEPT !.quoted = no] = State(args, cur, no, no, no)
      BY DEF State
    <3> QED
      BY <3>1, <3>2, <3>3, Zenon
  <2> QED
    BY <2>2, <2>3
<1> QED
  BY <1>2, <1>3, <1>5, <1>6, <1>7

LEMMA TakeHidden ==
    ASSUME NEW args \in ArgLists, NEW cur \in Seq(Strings), NEW ch \in {"quote", "backslash"}
    PROVE  TakeChar(TakeChar(Parsed(args, cur, TRUE, FALSE), "backslash"), ch)
               = Parsed(args, <<Append(Text(cur), ch)>>, TRUE, FALSE)
<1>1. PICK s : s = Parsed(args, cur, TRUE, FALSE)
  OBVIOUS
<1>2. PICK text, wrapped : text = Text(cur) /\ wrapped = <<text>>
  OBVIOUS
<1>3. s.cur = cur /\ ~ s.hide /\ ~ s.stop
  BY <1>1 DEF Parsed
<1>4. PICK t : t = TakeChar(s, "backslash")
  OBVIOUS
<1>5. t = [s EXCEPT !.hide = TRUE, !.cur = wrapped]
  <2>1. "backslash" # "space" /\ "backslash" # "quote"
    OBVIOUS
  <2>2. t = [s EXCEPT !.hide = TRUE, !.cur = <<Text(s.cur)>>]
    BY <1>3, <1>4, <2>1 DEF TakeChar
  <2> QED
    BY <1>2, <1>3, <2>2
<1>6. t = [args |-> args, cur |-> wrapped, quoted |-> TRUE, hide |-> TRUE, stop |-> FALSE]
  BY <1>1, <1>5 DEF Parsed
<1>7. Text(wrapped) = text
  BY <1>2 DEF Text
<1>8. t.cur = wrapped /\ t.hide /\ ~ t.stop
  BY <1>6
<1>9. PICK new : new = <<Append(text, ch)>>
  OBVIOUS
<1>10. TakeChar(t, ch) = [t EXCEPT !.hide = FALSE, !.cur = new]
  <2>1. TakeChar(t, ch) = [t EXCEPT !.hide = FALSE,
                                    !.cur = IF ch \in {"quote", "backslash"} THEN <<Append(Text(t.cur), ch)>> ELSE t.cur]
    BY <1>8 DEF TakeChar
  <2> QED
    BY <1>7, <1>8, <1>9, <2>1
<1>11. TakeChar(t, ch) = [args |-> args, cur |-> new, quoted |-> TRUE, hide |-> FALSE, stop |-> FALSE]
  BY <1>6, <1>10
<1> QED
  BY <1>1, <1>2, <1>4, <1>9, <1>11 DEF Parsed

LEMMA TakeSpace ==
    ASSUME NEW args \in ArgLists, NEW word \in Strings
    PROVE  TakeChar(Parsed(args, <<word>>, FALSE, FALSE), "space")
               = IF Len(args) = MaxArgv - 1 THEN Parsed(args, <<word>>, FALSE, TRUE)
                 ELSE Parsed(Append(args, word), <<>>, FALSE, FALSE)
<1>1. PICK s : s = Parsed(args, <<word>>, FALSE, FALSE)
  OBVIOUS
<1>2. Text(<<word>>) = word /\ <<word>> # <<>>
  BY DEF Text
<1>3. s.args = args /\ s.cur = <<word>> /\ ~ s.quoted /\ ~ s.hide /\ ~ s.stop
  BY <1>1 DEF Parsed
<1>4. Len(args) \in Nat /\ Len(args) < MaxArgv /\ MaxArgv \in Nat
  BY ShellAssumption DEF ArgLists
<1>5. TakeChar(s, "space") = IF s.cur = <<>> THEN s
                         ELSE IF Len(s.args) >= MaxArgv - 1 THEN [s EXCEPT !.stop = TRUE]
                         ELSE [s EXCEPT !.args = Append(@, Text(s.cur)), !.cur = <<>>]
  BY <1>3 DEF TakeChar
<1>6. Len(s.args) >= MaxArgv - 1 <=> Len(args) = MaxArgv - 1
  BY <1>3, <1>4
<1>7. PICK more : more = Append(args, word)
  OBVIOUS
<1>8. CASE Len(args) = MaxArgv - 1
  <2>1. TakeChar(s, "space") = [s EXCEPT !.stop = TRUE]
    BY <1>2, <1>3, <1>5, <1>6, <1>8
  <2>2. [s EXCEPT !.stop = TRUE] = Parsed(args, <<word>>, FALSE, TRUE)
    <3>1. s = State(args, <<word>>, FALSE, FALSE, FALSE)
      BY <1>1 DEF Parsed, State
    <3>2. PICK yes, no : yes = TRUE /\ no = FALSE
      BY Zenon
    <3>3. [State(args, <<word>>, no, no, no) EXCEPT !.stop = yes] = State(args, <<word>>, no, no, yes)
      BY DEF State
    <3>4. State(args, <<word>>, FALSE, FALSE, TRUE) = Parsed(args, <<word>>, FALSE, TRUE)
      BY DEF Parsed, State
    <3> QED
      BY <3>1, <3>2, <3>3, <3>4, Zenon
  <2> QED
    BY <1>1, <1>8, <2>1, <2>2
<1>9. CASE Len(args) # MaxArgv - 1
  <2>1. TakeChar(s, "space") = [s EXCEPT !.args = more, !.cur = <<>>]
    BY <1>2, <1>3, <1>5, <1>6, <1>7, <1>9
  <2>2. [s EXCEPT !.args = more, !.cur = <<>>] = Parsed(more, <<>>, FALSE, FALSE)
    <3>1. s = State(args, <<word>>, FALSE, FALSE, FALSE)
      BY <1>1 DEF Parsed, State
    <3>2. PICK no : no = FALSE
      BY Zenon
    <3>3. PICK one, none : one = <<word>> /\ none = <<>>
      OBVIOUS
    <3>5. [State(args, one, no, no, no) EXCEPT !.args = more] = State(more, one, no, no, no)
      BY DEF State
    <3>6. [State(more, one, no, no, no) EXCEPT !.cur = none] = State(more, none, no, no, no)
      BY DEF State
    <3>4. State(more, <<>>, FALSE, FALSE, FALSE) = Parsed(more, <<>>, FALSE, FALSE)
      BY DEF Parsed, State
    <3> QED
      BY <3>1, <3>2, <3>3, <3>4, <3>5, <3>6, Zenon
  <2> QED
    BY <1>1, <1>7, <1>9, <2>1, <2>2
<1> QED
  BY <1>8, <1>9

LEMMA TakenStopped ==
    ASSUME NEW s \in Parses, s.stop, NEW line \in Strings
    PROVE  Taken(s, line) = s
<1>1. PICK N \in Nat : N = Len(line)
  BY DEF Strings
<1>2. PICK f : /\ f = Taking(s, line) /\ f[0] = s
               /\ \A i \in 1 .. N : f[i] = TakeChar(f[i - 1], line[i])
  BY <1>1, TakingFacts
<1> DEFINE S == {i \in 0 .. N : f[i] = s}
<1>3. 0 \in S
  BY <1>2
<1>4. \A i \in 0 .. N - 1 : i \in S => i + 1 \in S
  <2> TAKE i \in 0 .. N - 1
  <2> HAVE i \in S
  <2>1. i + 1 \in 1 .. N /\ i + 1 \in 0 .. N /\ (i + 1) - 1 = i /\ f[i] = s
    OBVIOUS
  <2>2. f[i + 1] = TakeChar(s, line[i + 1])
    BY <1>2, <2>1
  <2>3. f[i + 1] = s
    BY <2>2 DEF TakeChar
  <2> QED
    BY <2>1, <2>3
<1>5. N \in S
  <2> HIDE DEF S
  <2>1. \A i \in 0 .. N : i \in S
    BY <1>3, <1>4, IntervalInduction
  <2> QED
    BY <2>1
<1> QED
  BY <1>1, <1>2, <1>5 DEF Taken

(* A character in quotes, hidden when it has to be.                        *)
LEMMA TakenPart ==
    ASSUME NEW args \in ArgLists, NEW cur \in Seq(Strings), NEW ch \in Chars,
           NEW part, part = IF ch \in {"quote", "backslash"} THEN <<"backslash", ch>> ELSE <<ch>>
    PROVE  part \in Strings /\ Taken(Parsed(args, cur, TRUE, FALSE), part) = Parsed(args, <<Append(Text(cur), ch)>>, TRUE, FALSE)
<1>1. PICK s \in Parses : s = Parsed(args, cur, TRUE, FALSE)
  BY ParsedFacts
<1>2. CASE ch \in {"quote", "backslash"}
  <2>1. PICK a \in Strings, b \in Strings : a = <<"backslash">> /\ b = <<ch>>
    BY <1>1, SpecialChars, TakenOne
  <2>2. part = a \o b
    BY <1>2, <2>1
  <2>3. PICK t \in Parses : t = TakeChar(s, "backslash") /\ Taken(s, a) = t
    BY <2>1, SpecialChars, TakenOne, TakeCharType
  <2>4. Taken(t, b) = TakeChar(t, ch)
    BY <2>1, TakenOne
  <2>5. a \o b \in Strings /\ Taken(s, a \o b) = TakeChar(t, ch)
    BY <2>3, <2>4, TakenConcat
  <2>6. TakeChar(t, ch) = Parsed(args, <<Append(Text(cur), ch)>>, TRUE, FALSE)
    BY <1>1, <1>2, <2>3, TakeHidden
  <2> QED
    BY <1>1, <2>2, <2>5, <2>6
<1>3. CASE ch \notin {"quote", "backslash"}
  <2>1. part = <<ch>> /\ ch \in Chars \ {"quote", "backslash"}
    BY <1>3
  <2>2. TakeChar(s, ch) = Parsed(args, <<Append(Text(cur), ch)>>, TRUE, FALSE)
    BY <1>1, <2>1, TakeQuoted
  <2> QED
    BY <1>1, <2>1, <2>2, TakenOne
<1> QED
  BY <1>2, <1>3

(* The argument after j characters of a word.                              *)
Beginning(word, j) == IF j = 0 THEN <<>> ELSE <<SubSeq(word, 1, j)>>

LEMMA BeginningFacts ==
    ASSUME NEW word \in Strings
    PROVE  /\ Beginning(word, 0) = <<>> /\ (word # <<>> => Beginning(word, Len(word)) = <<word>>)
           /\ \A j \in 0 .. Len(word) : Beginning(word, j) \in Seq(Strings)
           /\ \A j \in 1 .. Len(word) : Beginning(word, j) = <<Append(Text(Beginning(word, j - 1)), word[j])>>
<1>1. PICK N \in Nat : N = Len(word)
  BY DEF Strings
<1>2. SubSeq(word, 1, 0) = <<>>
  BY SubSeqEmpty
<1>3. SubSeq(word, 1, N) = word
  BY <1>1, SubSeqFull DEF Strings
<1>4. ASSUME NEW j \in 0 .. N PROVE SubSeq(word, 1, j) \in Strings
  <2>1. CASE j < N
    BY <1>1, <2>1, PrefixFacts
  <2>2. CASE j = N
    BY <1>3, <2>2
  <2> QED
    BY <2>1, <2>2
<1>5. ASSUME NEW j \in 0 .. N PROVE Text(Beginning(word, j)) = SubSeq(word, 1, j)
  <2>1. CASE j = 0
    BY <1>2, <2>1 DEF Text, Beginning
  <2>2. CASE j # 0
    BY <2>2 DEF Text, Beginning
  <2> QED
    BY <2>1, <2>2
<1>6. ASSUME NEW j \in 1 .. N PROVE SubSeq(word, 1, j) = Append(SubSeq(word, 1, j - 1), word[j])
  <2>1. j - 1 \in Nat /\ j - 1 < Len(word) /\ (j - 1) + 1 = j
    BY <1>1
  <2>2. SubSeq(word, 1, (j - 1) + 1) = Append(SubSeq(word, 1, j - 1), word[(j - 1) + 1])
    BY <2>1, PrefixFacts
  <2> QED
    BY <2>1, <2>2
<1>7. word # <<>> => N # 0
  BY <1>1, EmptySeq DEF Strings
<1>8. ASSUME NEW j \in 1 .. N PROVE Beginning(word, j) = <<Append(Text(Beginning(word, j - 1)), word[j])>>
  <2>1. j # 0 /\ j - 1 \in 0 .. N
    OBVIOUS
  <2> QED
    BY <1>5, <1>6, <2>1 DEF Beginning
<1>9. ASSUME NEW j \in 0 .. N PROVE Beginning(word, j) \in Seq(Strings)
  <2>1. PICK text \in Strings : text = SubSeq(word, 1, j)
    BY <1>4
  <2>2. <<text>> \in Seq(Strings) /\ <<>> \in Seq(Strings)
    OBVIOUS
  <2> QED
    BY <2>1, <2>2 DEF Beginning
<1>10. Beginning(word, 0) = <<>> /\ (word # <<>> => Beginning(word, N) = <<word>>)
  BY <1>3, <1>7 DEF Beginning
<1> QED
  BY <1>1, <1>8, <1>9, <1>10

LEMMA TakenHidden ==
    ASSUME NEW args \in ArgLists, NEW word \in Strings, word # <<>>
    PROVE  /\ Hidden(word) \in Strings
           /\ Taken(Parsed(args, <<>>, TRUE, FALSE), Hidden(word)) = Parsed(args, <<word>>, TRUE, FALSE)
<1>1. PICK N \in Nat : N = Len(word) /\ DOMAIN word = 1 .. N /\ \A j \in 1 .. N : word[j] \in Chars
  BY ElementOfSeq DEF Strings
<1> DEFINE Part(ch) == IF ch \in {"quote", "backslash"} THEN <<"backslash", ch>> ELSE <<ch>>
<1>2. PICK parts : parts = [j \in 1 .. N |-> Part(word[j])] /\ Hidden(word) = FlattenSeq(parts)
  BY <1>1 DEF Hidden
<1>3. PICK h : h = [j \in 0 .. N |-> Parsed(args, Beginning(word, j), TRUE, FALSE)]
  OBVIOUS
<1>4. \A j \in 0 .. N : h[j] \in Parses
  BY <1>1, <1>3, BeginningFacts, ParsedFacts
<1>5. ASSUME NEW j \in 1 .. N PROVE parts[j] \in Strings /\ h[j] = Taken(h[j - 1], parts[j])
  <2>1. PICK ch \in Chars : ch = word[j] /\ parts[j] = Part(ch)
    BY <1>1, <1>2
  <2>2. PICK cur \in Seq(Strings) : cur = Beginning(word, j - 1) /\ h[j - 1] = Parsed(args, cur, TRUE, FALSE)
    <3>1. j - 1 \in 0 .. N
      OBVIOUS
    <3> QED
      BY <1>1, <1>3, <3>1, BeginningFacts
  <2>3. h[j] = Parsed(args, <<Append(Text(cur), ch)>>, TRUE, FALSE)
    <3>1. j \in 0 .. N /\ Beginning(word, j) = <<Append(Text(cur), ch)>>
      BY <1>1, <2>1, <2>2, BeginningFacts
    <3> QED
      BY <1>3, <3>1
  <2>4. parts[j] \in Strings /\ Taken(Parsed(args, cur, TRUE, FALSE), parts[j]) = Parsed(args, <<Append(Text(cur), ch)>>, TRUE, FALSE)
    BY <2>1, TakenPart
  <2> QED
    BY <2>2, <2>3, <2>4
<1>6. parts \in Seq(Strings) /\ Len(parts) = N
  BY <1>2, <1>5
<1>7. PICK s \in Parses : s = Parsed(args, <<>>, TRUE, FALSE) /\ h[0] = s /\ h[N] = Parsed(args, <<word>>, TRUE, FALSE)
  <2>1. 0 \in 0 .. N /\ N \in 0 .. N
    OBVIOUS
  <2>2. Beginning(word, 0) = <<>> /\ Beginning(word, N) = <<word>>
    BY <1>1, BeginningFacts
  <2> QED
    BY <1>3, <1>4, <2>1, <2>2
<1> HIDE DEF Part
<1>8. FlattenSeq(parts) \in Strings /\ Taken(s, FlattenSeq(parts)) = h[N]
  BY <1>4, <1>5, <1>6, <1>7, TakenFlat
<1> QED
  BY <1>2, <1>7, <1>8

LEMMA TakenPlain ==
    ASSUME NEW args \in ArgLists, NEW word \in Strings, word # <<>>, \A j \in 1 .. Len(word) : word[j] \in Plainly
    PROVE  Taken(Parsed(args, <<>>, FALSE, FALSE), word) = Parsed(args, <<word>>, FALSE, FALSE)
<1>1. PICK N \in Nat : N = Len(word)
  BY DEF Strings
<1>2. PICK h : h = [j \in 0 .. N |-> Parsed(args, Beginning(word, j), FALSE, FALSE)]
  OBVIOUS
<1>3. PICK s \in Parses : s = Parsed(args, <<>>, FALSE, FALSE) /\ h[0] = s /\ h[N] = Parsed(args, <<word>>, FALSE, FALSE)
  <2>1. 0 \in 0 .. N /\ N \in 0 .. N
    OBVIOUS
  <2>2. Beginning(word, 0) = <<>> /\ Beginning(word, N) = <<word>> /\ <<>> \in Seq(Strings)
    BY <1>1, BeginningFacts
  <2> QED
    BY <1>2, <2>1, <2>2, ParsedFacts
<1>4. ASSUME NEW j \in 1 .. N PROVE h[j] = TakeChar(h[j - 1], word[j])
  <2>1. PICK cur \in Seq(Strings) : cur = Beginning(word, j - 1) /\ h[j - 1] = Parsed(args, cur, FALSE, FALSE)
    <3>1. j - 1 \in 0 .. N
      OBVIOUS
    <3> QED
      BY <1>1, <1>2, <3>1, BeginningFacts
  <2>2. h[j] = Parsed(args, <<Append(Text(cur), word[j])>>, FALSE, FALSE)
    <3>1. j \in 0 .. N /\ Beginning(word, j) = <<Append(Text(cur), word[j])>>
      BY <1>1, <2>1, BeginningFacts
    <3> QED
      BY <1>2, <3>1
  <2>3. word[j] \in Plainly
    BY <1>1
  <2> QED
    BY <2>1, <2>2, <2>3, TakeUnquoted
<1>5. PICK f : /\ f = Taking(s, word) /\ f[0] = s
               /\ \A j \in 1 .. N : f[j] = TakeChar(f[j - 1], word[j])
  BY <1>1, TakingFacts
<1> DEFINE S == {j \in 0 .. N : f[j] = h[j]}
<1>6. 0 \in S
  <2>1. f[0] = h[0]
    BY <1>3, <1>5
  <2>2. 0 \in 0 .. N
    OBVIOUS
  <2> QED
    BY <2>1, <2>2
<1>7. \A j \in 0 .. N - 1 : j \in S => j + 1 \in S
  <2> TAKE j \in 0 .. N - 1
  <2> HAVE j \in S
  <2>1. j + 1 \in 1 .. N /\ j + 1 \in 0 .. N /\ (j + 1) - 1 = j /\ f[j] = h[j]
    OBVIOUS
  <2>2. f[j + 1] = h[j + 1]
    BY <1>4, <1>5, <2>1
  <2> QED
    BY <2>1, <2>2
<1>8. N \in S
  <2> HIDE DEF S
  <2>1. \A j \in 0 .. N : j \in S
    BY <1>6, <1>7, IntervalInduction
  <2> QED
    BY <2>1
<1> QED
  BY <1>1, <1>3, <1>5, <1>8 DEF Taken

LEMMA TakenSpelling ==
    ASSUME NEW args \in ArgLists, NEW word \in Strings, word # <<>>, NEW quoted \in BOOLEAN,
           ~ quoted => \A j \in 1 .. Len(word) : word[j] \in Plainly
    PROVE  /\ Spelling(word, quoted) \in Strings
           /\ Taken(Parsed(args, <<>>, FALSE, FALSE), Spelling(word, quoted)) = Parsed(args, <<word>>, FALSE, FALSE)
<1>1. PICK s \in Parses, t \in Parses, u \in Parses, v \in Parses :
          /\ s = Parsed(args, <<>>, FALSE, FALSE) /\ t = Parsed(args, <<>>, TRUE, FALSE)
          /\ u = Parsed(args, <<word>>, TRUE, FALSE) /\ v = Parsed(args, <<word>>, FALSE, FALSE)
  <2>1. <<>> \in Seq(Strings) /\ <<word>> \in Seq(Strings)
    OBVIOUS
  <2> QED
    BY <2>1, ParsedFacts
<1>2. CASE quoted
  <2>1. PICK q \in Strings, b \in Strings : q = <<"quote">> /\ b = Hidden(word)
    BY <1>1, SpecialChars, TakenOne, TakenHidden
  <2>2. Spelling(word, quoted) = (q \o b) \o q
    <3>1. Spelling(word, quoted) = q \o b \o q
      BY <1>2, <2>1 DEF Spelling
    <3> QED
      BY <3>1
  <2>3. Taken(s, q) = t /\ Taken(u, q) = v
    <3>1. Taken(s, q) = TakeChar(s, "quote") /\ Taken(u, q) = TakeChar(u, "quote")
      BY <2>1, SpecialChars, TakenOne
    <3>2. <<>> \in Seq(Strings) /\ <<word>> \in Seq(Strings)
      OBVIOUS
    <3>3. TakeChar(s, "quote") = t
      BY <1>1, <3>2, TakeQuote
    <3>4. TakeChar(u, "quote") = v
      BY <1>1, <3>2, TakeQuote
    <3> QED
      BY <3>1, <3>3, <3>4
  <2>4. Taken(t, b) = u
    BY <1>1, <2>1, TakenHidden
  <2>5. q \o b \in Strings /\ Taken(s, q \o b) = Taken(Taken(s, q), b)
    BY TakenConcat
  <2>6. (q \o b) \o q \in Strings /\ Taken(s, (q \o b) \o q) = Taken(Taken(s, q \o b), q)
    BY <2>5, TakenConcat
  <2> QED
    BY <1>1, <2>2, <2>3, <2>4, <2>5, <2>6
<1>3. CASE ~ quoted
  <2>1. Spelling(word, quoted) = word
    BY <1>3 DEF Spelling
  <2>2. \A j \in 1 .. Len(word) : word[j] \in Plainly
    BY <1>3
  <2> QED
    BY <2>1, <2>2, TakenPlain
<1> QED
  BY <1>2, <1>3

(* What parse_args() has after i words.                                    *)
AfterWords(words, i) ==
    IF i = 0 THEN Parsed(<<>>, <<>>, FALSE, FALSE)
    ELSE IF i <= MaxArgv THEN Parsed(SubSeq(words, 1, i - 1), <<words[i]>>, FALSE, FALSE)
    ELSE Parsed(SubSeq(words, 1, MaxArgv - 1), <<words[MaxArgv]>>, FALSE, TRUE)

LEMMA SomeWords ==
    ASSUME NEW words \in Seq(Strings), NEW i \in 1 .. Len(words)
    PROVE  /\ words[i] \in Strings
           /\ SubSeq(words, 1, i - 1) \in Seq(Strings) /\ Len(SubSeq(words, 1, i - 1)) = i - 1
           /\ SubSeq(words, 1, i) = Append(SubSeq(words, 1, i - 1), words[i])
           /\ i <= MaxArgv => SubSeq(words, 1, i - 1) \in ArgLists
<1>1. PICK N \in Nat : N = Len(words) /\ \A j \in 1 .. N : words[j] \in Strings
  BY ElementOfSeq
<1>2. /\ SubSeq(words, 1, i - 1) \in Seq(Strings)
      /\ Len(SubSeq(words, 1, i - 1)) = IF 1 <= i - 1 THEN i - 1 - 1 + 1 ELSE 0
  <2>1. 1 \in Int /\ i - 1 \in Int /\ \A j \in 1 .. i - 1 : words[j] \in Strings
    BY <1>1
  <2> QED
    BY <2>1, SubSeqProperties
<1>3. (IF 1 <= i - 1 THEN i - 1 - 1 + 1 ELSE 0) = i - 1
  BY <1>1
<1>4. SubSeq(words, 1, i) = SubSeq(words, 1, i - 1) \o <<words[i]>>
  <2>1. 1 \in 1 .. Len(words) /\ i \in 1 .. Len(words)
    BY <1>1
  <2> QED
    BY <2>1, SubSeqRecursiveSecond
<1>5. Append(SubSeq(words, 1, i - 1), words[i]) = SubSeq(words, 1, i - 1) \o <<words[i]>>
  BY <1>1, <1>2, AppendIsConcat
<1>6. i <= MaxArgv => i - 1 < MaxArgv
  BY <1>1, ShellAssumption
<1> QED
  BY <1>1, <1>2, <1>3, <1>4, <1>5, <1>6 DEF ArgLists

(* A word, with a space before it unless it is the first.                  *)
LEMMA TakenWord ==
    ASSUME NEW words \in Seq(Strings), NEW i \in 1 .. Len(words), words[i] # <<>>, NEW quoted \in BOOLEAN,
           ~ quoted => \A j \in 1 .. Len(words[i]) : words[i][j] \in Plainly
    PROVE  LET part == (IF i = 1 THEN <<>> ELSE <<"space">>) \o Spelling(words[i], quoted) IN
           /\ part \in Strings /\ AfterWords(words, i - 1) \in Parses /\ AfterWords(words, i) \in Parses
           /\ Taken(AfterWords(words, i - 1), part) = AfterWords(words, i)
<1>1. PICK N \in Nat : N = Len(words) /\ i \in 1 .. N
  OBVIOUS
<1>2. PICK word \in Strings : word = words[i] /\ word # <<>>
  BY SomeWords
<1>3. PICK spell \in Strings : spell = Spelling(words[i], quoted)
  <2>1. <<>> \in ArgLists
    BY ShellAssumption DEF ArgLists
  <2>2. \A j \in 1 .. Len(word) : ~ quoted => word[j] \in Plainly
    BY <1>2
  <2> QED
    BY <1>2, <2>1, <2>2, TakenSpelling
<1>4. ASSUME NEW args \in ArgLists
      PROVE  Taken(Parsed(args, <<>>, FALSE, FALSE), spell) = Parsed(args, <<word>>, FALSE, FALSE)
  <2>1. ~ quoted => \A j \in 1 .. Len(word) : word[j] \in Plainly
    BY <1>2
  <2> QED
    BY <1>2, <1>3, <2>1, TakenSpelling
<1>5. <<>> \in ArgLists /\ <<>> \in Seq(Strings) /\ MaxArgv \in Nat /\ MaxArgv >= 1
  BY ShellAssumption DEF ArgLists
<1>6. CASE i = 1
  <2>1. AfterWords(words, i - 1) = Parsed(<<>>, <<>>, FALSE, FALSE)
    BY <1>6 DEF AfterWords
  <2>2. SubSeq(words, 1, i - 1) = <<>>
    BY <1>6, SubSeqEmpty
  <2>3. AfterWords(words, i) = Parsed(<<>>, <<word>>, FALSE, FALSE)
    <3>1. i # 0 /\ i <= MaxArgv
      BY <1>5, <1>6
    <3> QED
      BY <1>2, <2>2, <3>1 DEF AfterWords
  <2>4. <<>> \o spell = spell
    BY ConcatEmptySeq DEF Strings
  <2>5. <<word>> \in Seq(Strings)
    OBVIOUS
  <2>6. (IF i = 1 THEN <<>> ELSE <<"space">>) \o Spelling(words[i], quoted) = spell
    BY <1>3, <1>6, <2>4
  <2>7. Parsed(<<>>, <<>>, FALSE, FALSE) \in Parses /\ Parsed(<<>>, <<word>>, FALSE, FALSE) \in Parses
    BY <1>5, <2>5, ParsedFacts
  <2>8. Taken(Parsed(<<>>, <<>>, FALSE, FALSE), spell) = Parsed(<<>>, <<word>>, FALSE, FALSE)
    BY <1>4, <1>5
  <2> QED
    BY <2>1, <2>3, <2>6, <2>7, <2>8
<1>7. CASE i # 1
  <2>1. PICK space \in Strings : space = <<"space">> /\ \A s \in Parses : Taken(s, space) = TakeChar(s, "space")
    BY <1>1, SpecialChars, TakenOne, NothingParsedType
  <2>2. i - 1 \in 1 .. Len(words) /\ i - 1 # 0
    BY <1>1, <1>7
  <2>3. PICK old \in Strings : old = words[i - 1] /\ <<old>> \in Seq(Strings)
    BY <2>2, SomeWords
  <2>4. CASE i - 1 < MaxArgv
    <3>1. PICK args \in ArgLists : args = SubSeq(words, 1, i - 2) /\ Len(args) = i - 2
      <4>1. (i - 1) - 1 = i - 2 /\ i - 1 <= MaxArgv
        BY <1>1, <1>5, <2>4
      <4> QED
        BY <2>2, <4>1, SomeWords
    <3>2. PICK more \in ArgLists : more = Append(args, old) /\ more = SubSeq(words, 1, i - 1)
      <4>1. i <= MaxArgv /\ (i - 1) - 1 = i - 2
        BY <1>1, <1>5, <2>4
      <4>2. SubSeq(words, 1, i - 1) \in ArgLists
        BY <4>1, SomeWords
      <4>3. SubSeq(words, 1, i - 1) = Append(SubSeq(words, 1, (i - 1) - 1), words[i - 1])
        BY <2>2, SomeWords
      <4> QED
        BY <2>3, <3>1, <4>1, <4>2, <4>3
    <3>3. AfterWords(words, i - 1) = Parsed(args, <<old>>, FALSE, FALSE)
      <4>1. (i - 1) - 1 = i - 2 /\ i - 1 <= MaxArgv
        BY <1>1, <1>5, <2>4
      <4> QED
        BY <2>2, <2>3, <3>1, <4>1 DEF AfterWords
    <3>4. AfterWords(words, i) = Parsed(more, <<word>>, FALSE, FALSE)
      <4>1. i # 0 /\ i <= MaxArgv
        BY <1>1, <1>5, <2>4
      <4> QED
        BY <1>2, <3>2, <4>1 DEF AfterWords
    <3>5. PICK s \in Parses : s = Parsed(args, <<old>>, FALSE, FALSE)
      BY <2>3, ParsedFacts
    <3>6. Len(args) # MaxArgv - 1
      BY <1>1, <1>5, <2>4, <3>1
    <3>7. TakeChar(s, "space") = Parsed(more, <<>>, FALSE, FALSE)
      BY <3>2, <3>5, <3>6, TakeSpace
    <3>8. space \o spell \in Strings /\ Taken(s, space \o spell) = Taken(Taken(s, space), spell)
      BY TakenConcat
    <3>9. Taken(s, space \o spell) = Parsed(more, <<word>>, FALSE, FALSE)
      BY <1>4, <2>1, <3>7, <3>8
    <3>10. Parsed(more, <<word>>, FALSE, FALSE) \in Parses
      <4>1. <<word>> \in Seq(Strings)
        OBVIOUS
      <4> QED
        BY <4>1, ParsedFacts
    <3> QED
      BY <1>3, <1>7, <2>1, <3>3, <3>4, <3>5, <3>8, <3>9, <3>10
  <2>5. CASE i - 1 >= MaxArgv
    <3>0. MaxArgv \in 1 .. Len(words)
      BY <1>1, <1>5, <2>5
    <3>1. PICK args \in ArgLists : args = SubSeq(words, 1, MaxArgv - 1) /\ Len(args) = MaxArgv - 1
      <4>1. MaxArgv <= MaxArgv
        BY <1>5
      <4> QED
        BY <3>0, <4>1, SomeWords
    <3>2. PICK final \in Strings : final = words[MaxArgv] /\ <<final>> \in Seq(Strings)
      BY <3>0, SomeWords
    <3>3. PICK v \in Parses : v = Parsed(args, <<final>>, FALSE, TRUE) /\ v.stop
      BY <3>2, ParsedFacts
    <3>4. AfterWords(words, i) = v
      <4>1. i # 0 /\ ~ (i <= MaxArgv)
        BY <1>1, <1>5, <2>5
      <4> QED
        BY <3>1, <3>2, <3>3, <4>1 DEF AfterWords
    <3>5. PICK s \in Parses : s = AfterWords(words, i - 1) /\ Taken(s, space) = v
      <4>1. CASE i - 1 = MaxArgv
        <5>1. AfterWords(words, i - 1) = Parsed(args, <<final>>, FALSE, FALSE)
          <6>1. i - 1 # 0 /\ i - 1 <= MaxArgv /\ (i - 1) - 1 = MaxArgv - 1
            BY <1>5, <4>1
          <6>2. AfterWords(words, i - 1) = Parsed(SubSeq(words, 1, (i - 1) - 1), <<words[i - 1]>>, FALSE, FALSE)
            BY <6>1 DEF AfterWords
          <6> QED
            BY <3>1, <3>2, <4>1, <6>1, <6>2
        <5>2. PICK t \in Parses : t = Parsed(args, <<final>>, FALSE, FALSE)
          BY <3>2, ParsedFacts
        <5>3. TakeChar(t, "space") = v
          BY <3>1, <3>3, <5>2, TakeSpace
        <5> QED
          BY <2>1, <5>1, <5>2, <5>3
      <4>2. CASE i - 1 # MaxArgv
        <5>1. i - 1 # 0 /\ ~ (i - 1 <= MaxArgv)
          BY <1>1, <1>5, <2>5, <4>2
        <5>2. AfterWords(words, i - 1) = v
          BY <3>1, <3>2, <3>3, <5>1 DEF AfterWords
        <5> QED
          BY <3>3, <5>2, TakenStopped
      <4> QED
        BY <4>1, <4>2
    <3>6. space \o spell \in Strings /\ Taken(s, space \o spell) = Taken(Taken(s, space), spell)
      BY TakenConcat
    <3>7. Taken(v, spell) = v
      BY <3>3, TakenStopped
    <3> QED
      BY <1>3, <1>7, <2>1, <3>3, <3>4, <3>5, <3>6, <3>7
  <2> QED
    BY <1>1, <1>5, <2>4, <2>5
<1> QED
  BY <1>6, <1>7

LEMMA InputLine == ASSUME NEW input \in Typed PROVE input.line \in Strings /\ Range(input.line) \subseteq Chars
<1>1. input.line \in Seq(Range(input.line))
  BY InputAssumption
<1>2. Range(input.line) \subseteq Chars
  <2>1. \A letter \in Range(input.line) : letter \in InLines
    BY Zenon DEF InLines
  <2>2. InLines \subseteq Letters /\ Nul \notin Range(input.line)
    BY InputAssumption DEF Letters
  <2>3. \A letter \in Range(input.line) : letter \in Letters /\ letter # Nul
    BY <2>1, <2>2, Zenon
  <2> QED
    BY <2>3, Zenon DEF Chars
<1>3. PICK R : R = Range(input.line)
  OBVIOUS
<1>4. input.line \in Seq(R) /\ R \subseteq Chars
  BY <1>1, <1>2, <1>3
<1> QED
  BY <1>2, <1>4 DEF Strings

(* parse_args() gives back the words a line was typed for, as many as      *)
(* argv[] has room for.                                                    *)
LEMMA ParsesBack ==
    ASSUME NEW input \in Typed, input.words # <<>>
    PROVE  ParseArgs(input.line) = SubSeq(input.words, 1, Lesser(Len(input.words), MaxArgv - 1))
<1>1. PICK words, line : words = input.words /\ line = input.line /\ line \in Strings /\ Means(line, words)
  BY InputLine, InputAssumption
<1>2. words \in Seq(Strings)
  <2>1. PICK R : R = Range(line) /\ R \subseteq Chars
    BY <1>1, InputLine
  <2>2. words \in Seq(Seq(R))
    BY <1>1, <2>1 DEF Means
  <2>3. Seq(R) \subseteq Strings
    BY <2>1 DEF Strings
  <2> QED
    BY <2>2, <2>3
<1>3. PICK N \in Nat : N = Len(words) /\ N >= 1 /\ DOMAIN words = 1 .. N
  BY <1>1, <1>2, EmptySeq
<1>4. PICK quoted \in [1 .. N -> BOOLEAN] :
          /\ line = Spelled(words, quoted)
          /\ \A i \in 1 .. N :
                 words[i] # <<>> /\ (quoted[i] \/ Range(words[i]) \cap {"space", "quote", "backslash"} = {})
  BY <1>1, <1>3 DEF Means
<1> DEFINE Part(i) == (IF i = 1 THEN <<>> ELSE <<"space">>) \o Spelling(words[i], quoted[i])
<1>5. PICK parts : parts = [i \in 1 .. N |-> Part(i)] /\ line = FlattenSeq(parts)
  BY <1>3, <1>4 DEF Spelled
<1>6. PICK h : h = [i \in 0 .. N |-> AfterWords(words, i)]
  OBVIOUS
<1>7. ASSUME NEW i \in 1 .. N
      PROVE  parts[i] \in Strings /\ h[i - 1] \in Parses /\ h[i] \in Parses /\ h[i] = Taken(h[i - 1], parts[i])
  <2>1. PICK q \in BOOLEAN : q = quoted[i]
    OBVIOUS
  <2>2. PICK word \in Strings : word = words[i] /\ word # <<>>
    BY <1>2, <1>3, <1>4, ElementOfSeq
  <2>3. ASSUME ~ q, NEW j \in 1 .. Len(word) PROVE word[j] \in Plainly
    <3>1. word[j] \in Chars
      BY ElementOfSeq DEF Strings
    <3>2. Range(word) \cap {"space", "quote", "backslash"} = {}
      BY <1>4, <2>1, <2>2, <2>3
    <3>3. word[j] \in Range(word)
      <4>1. j \in DOMAIN word
        BY DEF Strings
      <4> QED
        BY <4>1 DEF Range
    <3>4. word[j] \notin {"space", "quote", "backslash"}
      BY <3>2, <3>3, Zenon
    <3> QED
      BY <3>1, <3>4 DEF Plainly
  <2>4. ~ q => \A j \in 1 .. Len(words[i]) : words[i][j] \in Plainly
    BY <2>2, <2>3
  <2>5. PICK part : part = (IF i = 1 THEN <<>> ELSE <<"space">>) \o Spelling(words[i], q)
    OBVIOUS
  <2>6. /\ part \in Strings /\ AfterWords(words, i - 1) \in Parses /\ AfterWords(words, i) \in Parses
        /\ Taken(AfterWords(words, i - 1), part) = AfterWords(words, i)
    BY <1>2, <1>3, <2>2, <2>4, <2>5, TakenWord
  <2>7. parts[i] = part
    BY <1>5, <2>1, <2>5
  <2>8. h[i - 1] = AfterWords(words, i - 1) /\ h[i] = AfterWords(words, i)
    <3>1. i - 1 \in 0 .. N /\ i \in 0 .. N
      OBVIOUS
    <3> QED
      BY <1>6, <3>1
  <2> QED
    BY <2>6, <2>7, <2>8
<1> HIDE DEF Part
<1>8. parts \in Seq(Strings) /\ Len(parts) = N
  BY <1>5, <1>7
<1>9. h[0] = NothingParsed
  <2>1. h[0] = AfterWords(words, 0)
    BY <1>6
  <2> QED
    BY <2>1 DEF AfterWords, Parsed, NothingParsed
<1>10. \A i \in 0 .. N : h[i] \in Parses
  <2>1. ASSUME NEW i \in 0 .. N PROVE h[i] \in Parses
    <3>1. CASE i = 0
      BY <1>9, <3>1, NothingParsedType
    <3>2. CASE i # 0
      <4>1. i \in 1 .. N
        BY <3>2
      <4> QED
        BY <1>7, <4>1
    <3> QED
      BY <3>1, <3>2
  <2> QED
    BY <2>1
<1>11. Taken(NothingParsed, line) = h[N]
  <2>1. \A i \in 1 .. N : h[i] = Taken(h[i - 1], parts[i])
    BY <1>7
  <2>2. Taken(NothingParsed, FlattenSeq(parts)) = h[N]
    BY <1>8, <1>9, <1>10, <2>1, NothingParsedType, TakenFlat
  <2> QED
    BY <1>5, <2>2
<1>12. Parsing(line)[Len(line)] = AfterWords(words, N)
  <2>1. Parsing(line) = Taking(NothingParsed, line)
    BY DEF Parsing, Taking
  <2>2. h[N] = AfterWords(words, N)
    BY <1>6
  <2> QED
    BY <1>11, <2>1, <2>2 DEF Taken
<1>13. PICK s : s = AfterWords(words, N)
  OBVIOUS
<1>14. ParseArgs(line) = IF s.cur # <<>> /\ Len(s.args) < MaxArgv - 1 THEN Append(s.args, Text(s.cur)) ELSE s.args
  BY <1>12, <1>13 DEF ParseArgs
<1>15. MaxArgv \in Nat /\ MaxArgv >= 1
  BY ShellAssumption
<1>16. CASE N <= MaxArgv
  <2>1. PICK args \in ArgLists, word \in Strings :
            /\ args = SubSeq(words, 1, N - 1) /\ Len(args) = N - 1 /\ word = words[N]
            /\ SubSeq(words, 1, N) = Append(args, word)
    <3>1. N \in 1 .. Len(words)
      BY <1>3
    <3> QED
      BY <1>2, <1>16, <3>1, SomeWords
  <2>2. s = Parsed(args, <<word>>, FALSE, FALSE)
    <3>1. N # 0
      BY <1>3
    <3> QED
      BY <1>13, <1>16, <2>1, <3>1 DEF AfterWords
  <2>3. s.args = args /\ s.cur # <<>> /\ Text(s.cur) = word
    BY <2>2 DEF Parsed, Text
  <2>4. CASE N < MaxArgv
    <3>1. Lesser(N, MaxArgv - 1) = N /\ N - 1 < MaxArgv - 1
      BY <1>15, <2>4 DEF Lesser
    <3> QED
      BY <1>1, <1>3, <1>14, <2>1, <2>3, <3>1
  <2>5. CASE N = MaxArgv
    <3>1. Lesser(N, MaxArgv - 1) = N - 1 /\ ~ (N - 1 < MaxArgv - 1)
      BY <1>15, <2>5 DEF Lesser
    <3> QED
      BY <1>1, <1>3, <1>14, <2>1, <2>3, <3>1
  <2> QED
    BY <1>15, <1>16, <2>4, <2>5
<1>17. CASE N > MaxArgv
  <2>1. PICK args \in ArgLists, word \in Strings :
            args = SubSeq(words, 1, MaxArgv - 1) /\ Len(args) = MaxArgv - 1 /\ word = words[MaxArgv]
    <3>1. MaxArgv \in 1 .. Len(words) /\ MaxArgv <= MaxArgv
      BY <1>3, <1>15, <1>17
    <3> QED
      BY <1>2, <3>1, SomeWords
  <2>2. s = Parsed(args, <<word>>, FALSE, TRUE)
    <3>1. N # 0 /\ ~ (N <= MaxArgv)
      BY <1>15, <1>17
    <3> QED
      BY <1>13, <2>1, <3>1 DEF AfterWords
  <2>3. s.args = args
    BY <2>2 DEF Parsed
  <2>4. Lesser(N, MaxArgv - 1) = MaxArgv - 1 /\ ~ (Len(args) < MaxArgv - 1)
    BY <1>15, <1>17, <2>1 DEF Lesser
  <2> QED
    BY <1>1, <1>3, <1>14, <2>1, <2>3, <2>4
<1> QED
  BY <1>15, <1>16, <1>17
-----------------------------------------------------------------------------
(* The inductive invariant.  A number that is selected has a volume,       *)
(* unless no number has; a listing has shown a row for every entry counted *)
(* since it last stopped and those that names wrapped to; and a dumper     *)
(* that still runs is in mapped memory.                                    *)

ModeOK ==
    /\ mode \in {"menu", "console", "memdump", "syslogs", "debugger", "command", "printing", "done",
                "crashed", "faulted"}
    /\ back \in {"menu", "done"} /\ menuPos \in 0 .. Len(Programs) - 1
    /\ memPtr \in Nat /\ (mode # "faulted" => memPtr < MappedPages)
    /\ last.op \in {"none", "cd", "dir", "readf"}

TypedOK == typed.args \in Seq(Strings) /\ Len(typed.args) + 1 <= MaxArgv

VolumeOK == mounted \in Mounts /\ selected \in Nat /\ (selected < Len(mounted) \/ mounted = <<>>)

AListing(left, n, w) == [op |-> "dir", left |-> left, counter |-> n, unseen |-> n + w, wrapped |-> w]

WorkOK ==
    \/ work = NoWork
    \/ \E left \in Seq(Nat \ {0}), n \in 0 .. Height - 2, w \in Nat : work = AListing(left, n, w)
    \/ work = [op |-> "readf", left |-> work.left]

Inv == ModeOK /\ TypedOK /\ VolumeOK /\ WorkOK


(* What most steps leave alone.                                            *)
LEMMA SameRest ==
    ASSUME Inv, UNCHANGED <<mounted, selected, typed, work>>
    PROVE  TypedOK' /\ VolumeOK' /\ WorkOK'
<1>1. TypedOK'
  BY DEF Inv, TypedOK
<1>2. VolumeOK'
  BY DEF Inv, VolumeOK
<1>3. WorkOK'
  BY DEF Inv, WorkOK
<1> QED
  BY <1>1, <1>2, <1>3

LEMMA InitInv == Init => Inv
<1> SUFFICES ASSUME Init PROVE Inv
  OBVIOUS
<1>1. ModeOK
  BY ShellAssumption DEF Init, ModeOK, Programs, NoOutcome
<1>2. TypedOK
  <2>1. <<>> \in Seq(Strings) /\ Len(<<>>) = 0
    OBVIOUS
  <2> QED
    BY <2>1, ShellAssumption DEF Init, TypedOK, NoLine
<1>3. VolumeOK
  <2>1. mounted \in Seq(Trees)
    BY MountsAssumption DEF Init
  <2>2. mounted = <<>> \/ 0 < Len(mounted)
    BY <2>1, EmptySeq
  <2> QED
    BY <2>2 DEF Init, VolumeOK
<1>4. WorkOK
  BY DEF Init, WorkOK
<1> QED
  BY <1>1, <1>2, <1>3, <1>4 DEF Inv

LEMMA MenuKeyInv == ASSUME Inv, MenuKey PROVE Inv'
<1>1. menuPos' \in 0 .. Len(Programs) - 1
  <2>1. Len(Programs) = 4 /\ menuPos \in 0 .. 3
    BY DEF Inv, ModeOK, Programs
  <2>2. CASE menuPos' = menuPos
    BY <2>1, <2>2
  <2>3. CASE \E step \in {-1, 1} : MoveMenu(step)
    BY <2>1, <2>3 DEF MoveMenu
  <2> QED
    BY <2>2, <2>3 DEF MenuKey
<1>2. mode' \in {"menu", "console", "memdump", "syslogs", "debugger"} /\ back' \in {"menu", "done"}
  <2>1. CASE UNCHANGED <<mode, back>>
    BY <2>1 DEF MenuKey, Inv, ModeOK
  <2>2. CASE mode' = Programs[menuPos + 1] /\ back' = "menu"
    <3>1. menuPos \in 0 .. 3
      BY DEF Inv, ModeOK, Programs
    <3>2. menuPos + 1 \in 1 .. 4
      BY <3>1
    <3> QED
      BY <2>2, <3>2 DEF Programs
  <2> QED
    BY <2>1, <2>2 DEF MenuKey
<1>3. memPtr' \in Nat /\ memPtr' < MappedPages
  BY ShellAssumption DEF MenuKey, Inv, ModeOK
<1>4. ModeOK'
  BY <1>1, <1>2, <1>3 DEF ModeOK, MenuKey, Inv, Programs
<1> QED
  BY <1>4, SameRest DEF MenuKey, Inv

LEMMA ReadLineInv == ASSUME Inv, NEW input \in Typed, ReadLine(input) PROVE Inv'
<1>1. input.line \in Strings
  BY InputLine
<1>2. PICK args \in Seq(Strings) : args = ParseArgs(input.line) /\ Len(args) + 1 <= MaxArgv
  BY <1>1, ParseArgsType
<1>3. TypedOK'
  <2>1. typed'.args = args
    BY <1>2 DEF ReadLine
  <2> QED
    BY <1>2, <2>1 DEF TypedOK
<1>4. ModeOK'
  BY DEF Inv, ModeOK, ReadLine
<1>5. VolumeOK' /\ WorkOK'
  <2>1. UNCHANGED <<mounted, selected, work>>
    BY DEF ReadLine
  <2>2. VolumeOK'
    BY <2>1 DEF Inv, VolumeOK
  <2>3. WorkOK'
    BY <2>1 DEF Inv, WorkOK
  <2> QED
    BY <2>2, <2>3
<1> QED
  BY <1>3, <1>4, <1>5 DEF Inv


LEMMA PromptInv == ASSUME Inv, Prompt PROVE Inv'
<1>1. TypedOK'
  <2>1. <<>> \in Seq(Strings) /\ Len(<<>>) = 0
    OBVIOUS
  <2>2. typed'.args = <<>>
    BY DEF Prompt, NoLine
  <2> QED
    BY <2>1, <2>2, ShellAssumption DEF TypedOK
<1>2. ModeOK'
  BY DEF Inv, ModeOK, Prompt, NoOutcome
<1>3. VolumeOK' /\ WorkOK'
  <2>1. UNCHANGED <<mounted, selected, work>>
    BY DEF Prompt
  <2>2. VolumeOK'
    BY <2>1 DEF Inv, VolumeOK
  <2>3. WorkOK'
    BY <2>1 DEF Inv, WorkOK
  <2> QED
    BY <2>2, <2>3
<1> QED
  BY <1>1, <1>2, <1>3 DEF Inv

(* An argument of a command is a string.                                   *)
LEMMA ArgumentFacts == ASSUME Inv, HasArg PROVE typed.args[2] \in Strings
<1>1. PICK args \in Seq(Strings) : args = typed.args /\ Len(args) > 1
  BY DEF Inv, TypedOK, HasArg
<1>2. 2 \in 1 .. Len(args)
  BY <1>1
<1> QED
  BY <1>1, <1>2, ElementOfSeq

LEMMA CdInv == ASSUME Inv, NEW junk \in Junk, Cd(junk) PROVE Inv'
<1>1. UNCHANGED <<mounted, back, menuPos, selected, typed, work, memPtr>>
  BY DEF Cd
<1>2. TypedOK' /\ VolumeOK' /\ WorkOK'
  <2>1. TypedOK'
    BY <1>1 DEF Inv, TypedOK
  <2>2. VolumeOK'
    BY <1>1 DEF Inv, VolumeOK
  <2>3. WorkOK'
    BY <1>1 DEF Inv, WorkOK
  <2> QED
    BY <2>1, <2>2, <2>3
<1>3. mode' \in {"done", "crashed"} /\ last'.op \in {"none", "cd", "dir", "readf"}
  <2>1. last.op \in {"none", "cd", "dir", "readf"}
    BY DEF Inv, ModeOK
  <2>2. last' = last \/ \E target, found : last' = Outcome("cd", target, found)
    BY DEF Cd
  <2>3. last'.op \in {"none", "cd", "dir", "readf"}
    BY <2>1, <2>2 DEF Outcome
  <2> QED
    BY <2>3 DEF Cd
<1>4. ModeOK'
  <2>1. mode = "command"
    BY DEF Cd, Given
  <2> QED
    BY <1>1, <1>3, <2>1 DEF Inv, ModeOK
<1> QED
  BY <1>2, <1>4 DEF Inv

(* What a directory of the current volume takes on the screen.             *)
LEMMA RowsFacts ==
    ASSUME Inv, IsMounted, NEW path, Exists(path), Node(path).kind = "dir"
    PROVE  Node(path).rows \in Seq(Nat \ {0})
<1>1. PICK trees \in Seq(Trees), k \in Nat : trees = mounted /\ k = selected /\ k < Len(trees)
  BY MountsAssumption DEF Inv, VolumeOK, IsMounted
<1>2. k + 1 \in 1 .. Len(trees)
  BY <1>1
<1>3. PICK tree \in Trees : tree = mounted[selected + 1]
  BY <1>1, <1>2, ElementOfSeq
<1> QED
  BY <1>3, MountsAssumption DEF Exists, Node

LEMMA DirInv == ASSUME Inv, NEW junk \in Junk, Dir(junk) PROVE Inv'
<1>1. UNCHANGED <<mounted, back, menuPos, cwd, selected, typed, memPtr>>
  BY DEF Dir
<1>2. TypedOK' /\ VolumeOK'
  <2>1. TypedOK'
    BY <1>1 DEF Inv, TypedOK
  <2>2. VolumeOK'
    BY <1>1 DEF Inv, VolumeOK
  <2> QED
    BY <2>1, <2>2
<1>3. last'.op \in {"none", "dir"}
  <2>1. last' = NoOutcome \/ \E target, found : last' = Outcome("dir", target, found)
    BY DEF Dir
  <2> QED
    BY <2>1 DEF Outcome, NoOutcome
<1>4. mode' \in {"printing", "done"}
  BY DEF Dir
<1>5. ModeOK'
  <2>1. mode = "command"
    BY DEF Dir, Given
  <2> QED
    BY <1>1, <1>3, <1>4, <2>1 DEF Inv, ModeOK
<1>6. WorkOK'
  <2>1. PICK path : \/ work' = NoWork
                    \/ /\ IsMounted /\ Exists(path) /\ Node(path).kind = "dir"
                       /\ work' = [op |-> "dir", left |-> Node(path).rows, counter |-> 0, unseen |-> 0, wrapped |-> 0]
    BY DEF Dir
  <2>2. 0 \in 0 .. Height - 2 /\ 0 \in Nat /\ 0 + 0 = 0
    BY ShellAssumption
  <2>3. CASE work' = NoWork
    BY <2>3 DEF WorkOK
  <2>4. CASE work' # NoWork
    <3>1. Node(path).rows \in Seq(Nat \ {0})
      BY <2>1, <2>4, RowsFacts
    <3>2. work' = AListing(Node(path).rows, 0, 0)
      BY <2>1, <2>2, <2>4 DEF AListing
    <3> QED
      BY <2>2, <3>1, <3>2 DEF WorkOK
  <2> QED
    BY <2>3, <2>4
<1> QED
  BY <1>2, <1>5, <1>6 DEF Inv

LEMMA ReadfInv == ASSUME Inv, NEW junk \in Junk, Readf(junk) PROVE Inv'
<1>1. UNCHANGED <<mounted, back, menuPos, cwd, selected, typed, memPtr>>
  BY DEF Readf
<1>2. TypedOK' /\ VolumeOK'
  <2>1. TypedOK'
    BY <1>1 DEF Inv, TypedOK
  <2>2. VolumeOK'
    BY <1>1 DEF Inv, VolumeOK
  <2> QED
    BY <2>1, <2>2
<1>3. last'.op \in {"none", "readf"}
  <2>1. last' = NoOutcome \/ \E target, found : last' = Outcome("readf", target, found)
    BY DEF Readf
  <2> QED
    BY <2>1 DEF Outcome, NoOutcome
<1>4. mode' \in {"printing", "done"}
  BY DEF Readf
<1>5. ModeOK'
  <2>1. mode = "command"
    BY DEF Readf, Given
  <2> QED
    BY <1>1, <1>3, <1>4, <2>1 DEF Inv, ModeOK
<1>6. WorkOK'
  <2>1. work' = NoWork \/ \E left : work' = [op |-> "readf", left |-> left]
    BY DEF Readf
  <2>2. CASE work' = NoWork
    BY <2>2 DEF WorkOK
  <2>3. CASE work' # NoWork
    <3>1. PICK left : work' = [op |-> "readf", left |-> left]
      BY <2>1, <2>3
    <3> QED
      BY <3>1 DEF WorkOK
  <2> QED
    BY <2>2, <2>3
<1> QED
  BY <1>2, <1>5, <1>6 DEF Inv

LEMMA SetVolInv == ASSUME Inv, SetVol PROVE Inv'
<1>1. UNCHANGED <<mounted, back, menuPos, cwd, typed, work, memPtr, last>> /\ mode' = "done"
  BY DEF SetVol
<1>2. PICK number \in Nat : SelectVolume(number)
  <2>1. Number(typed.args[2]) \in Nat
    BY DEF Number
  <2> QED
    BY <2>1 DEF SetVol
<1>3. VolumeOK'
  <2>1. mounted \in Mounts /\ selected \in Nat /\ (selected < Len(mounted) \/ mounted = <<>>)
    BY DEF Inv, VolumeOK
  <2>2. Len(mounted) \in Nat
    BY <2>1, MountsAssumption
  <2>3. selected' \in Nat /\ (selected' < Len(mounted) \/ mounted = <<>>)
    BY <1>2, <2>1, <2>2 DEF SelectVolume
  <2> QED
    BY <1>1, <2>1, <2>3 DEF VolumeOK
<1>4. TypedOK' /\ WorkOK'
  <2>1. TypedOK'
    BY <1>1 DEF Inv, TypedOK
  <2>2. WorkOK'
    BY <1>1 DEF Inv, WorkOK
  <2> QED
    BY <2>1, <2>2
<1>5. ModeOK'
  <2>1. mode = "command"
    BY DEF SetVol, Given
  <2> QED
    BY <1>1, <2>1 DEF Inv, ModeOK
<1> QED
  BY <1>3, <1>4, <1>5 DEF Inv

LEMMA ExitInv == ASSUME Inv, Exit PROVE Inv'
<1>1. UNCHANGED <<mounted, back, menuPos, cwd, selected, work, memPtr, last>> /\ mode' = "menu"
  BY DEF Exit
<1>2. TypedOK'
  <2>1. <<>> \in Seq(Strings) /\ Len(<<>>) = 0
    OBVIOUS
  <2>2. typed'.args = <<>>
    BY DEF Exit, NoLine
  <2> QED
    BY <2>1, <2>2, ShellAssumption DEF TypedOK
<1>3. VolumeOK' /\ WorkOK'
  <2>1. VolumeOK'
    BY <1>1 DEF Inv, VolumeOK
  <2>2. WorkOK'
    BY <1>1 DEF Inv, WorkOK
  <2> QED
    BY <2>1, <2>2
<1>4. ModeOK'
  <2>1. mode = "command"
    BY DEF Exit, Given
  <2> QED
    BY <1>1, <2>1 DEF Inv, ModeOK
<1> QED
  BY <1>2, <1>3, <1>4 DEF Inv

LEMMA OpenProgramInv == ASSUME Inv, NEW name \in {"memdump", "debugger"}, OpenProgram(name) PROVE Inv'
<1>1. ModeOK'
  BY ShellAssumption DEF OpenProgram, Inv, ModeOK
<1> QED
  BY <1>1, SameRest DEF OpenProgram, Inv

LEMMA OtherInv == ASSUME Inv, Other PROVE Inv'
<1>1. ModeOK'
  BY DEF Other, Inv, ModeOK
<1> QED
  BY <1>1, SameRest DEF Other, Inv


(* The steps of a command that waits for keys only touch its work.         *)
LEMMA WorkSteps ==
    ASSUME Inv, mode = "printing", WorkOK', mode' \in {"printing", "done"},
           UNCHANGED <<mounted, back, menuPos, cwd, selected, typed, memPtr, last>>
    PROVE  Inv'
<1>1. TypedOK'
  BY DEF Inv, TypedOK
<1>2. VolumeOK'
  BY DEF Inv, VolumeOK
<1>3. ModeOK'
  BY DEF Inv, ModeOK
<1> QED
  BY <1>1, <1>2, <1>3 DEF Inv

LEMMA PrintLineInv == ASSUME Inv, PrintLine PROVE Inv'
<1>1. PICK left \in Seq(Nat \ {0}), n \in 0 .. Height - 2, w \in Nat : work = AListing(left, n, w)
  <2>1. WorkOK /\ work.op = "dir"
    BY DEF PrintLine, Inv
  <2> QED
    BY <2>1 DEF WorkOK, NoWork
<1>2. WorkOK'
  <2>1. CASE Finish
    BY <2>1 DEF Finish, WorkOK
  <2>4. Finish \/ (work.left # <<>> /\ Iterate)
    BY DEF PrintLine
  <2>2. CASE work.left # <<>> /\ Iterate
    <3>1. n < Height - 2 /\ left # <<>>
      BY <1>1, <2>2 DEF PrintLine, AListing
    <3>2. n + 1 \in 0 .. Height - 2
      BY <3>1, ShellAssumption
    <3>3. PICK rows \in Nat \ {0}, rest \in Seq(Nat \ {0}) : rows = Head(left) /\ rest = Tail(left)
      <4>1. Head(left) \in Nat \ {0} /\ Tail(left) \in Seq(Nat \ {0})
        BY <3>1, HeadTailProperties
      <4> QED
        BY <4>1
    <3>4. work' = [op |-> "dir", left |-> rest, counter |-> n + 1, unseen |-> (n + w) + rows, wrapped |-> (w + rows) - 1]
      <4>1. /\ work = [op |-> "dir", left |-> left, counter |-> n, unseen |-> n + w, wrapped |-> w]
            /\ work' = [[work EXCEPT !.left = Tail(@), !.unseen = @ + Head(work.left),
                                     !.wrapped = @ + Head(work.left) - 1] EXCEPT !.counter = @ + 1]
        BY <1>1, <2>2 DEF Iterate, PrintRows, AListing
      <4>2. (w + rows) - 1 = w + rows - 1
        OBVIOUS
      <4> QED
        BY <3>3, <4>1, <4>2
    <3>5. PICK more \in Nat : more = (w + rows) - 1 /\ (n + w) + rows = (n + 1) + more
      <4>1. (w + rows) - 1 \in Nat /\ (n + w) + rows = (n + 1) + ((w + rows) - 1)
        OBVIOUS
      <4> QED
        BY <4>1
    <3>6. work' = AListing(rest, n + 1, more)
      BY <3>4, <3>5 DEF AListing
    <3> QED
      BY <3>2, <3>6 DEF WorkOK
  <2> QED
    BY <2>1, <2>2, <2>4
<1>3. mode' \in {"printing", "done"}
  BY DEF PrintLine, Finish
<1> QED
  BY <1>2, <1>3, WorkSteps DEF PrintLine

LEMMA MoreKeyInv == ASSUME Inv, MoreKey PROVE Inv'
<1>1. PICK left \in Seq(Nat \ {0}), n \in 0 .. Height - 2, w \in Nat : work = AListing(left, n, w)
  <2>1. WorkOK /\ work.op = "dir"
    BY DEF MoreKey, Inv
  <2> QED
    BY <2>1 DEF WorkOK, NoWork
<1>2. WorkOK'
  <2>1. CASE Finish
    BY <2>1 DEF Finish, WorkOK
  <2>2. CASE work' = [work EXCEPT !.counter = 0, !.unseen = 0, !.wrapped = 0]
    <3>1. 0 \in 0 .. Height - 2 /\ 0 \in Nat /\ 0 + 0 = 0
      BY ShellAssumption
    <3>2. work' = AListing(left, 0, 0)
      BY <1>1, <2>2, <3>1 DEF AListing
    <3> QED
      BY <3>1, <3>2 DEF WorkOK
  <2> QED
    BY <2>1, <2>2 DEF MoreKey
<1>3. mode' \in {"printing", "done"}
  BY DEF MoreKey, Finish
<1> QED
  BY <1>2, <1>3, WorkSteps DEF MoreKey

LEMMA PrintPortionInv == ASSUME Inv, PrintPortion PROVE Inv'
<1>1. PICK left : work = [op |-> "readf", left |-> left]
  <2>1. WorkOK /\ work.op = "readf"
    BY DEF PrintPortion, Inv
  <2> QED
    BY <2>1 DEF WorkOK, NoWork, AListing
<1>2. WorkOK'
  <2>1. CASE Finish
    BY <2>1 DEF Finish, WorkOK
  <2>2. CASE work' = [work EXCEPT !.left = @ - 1]
    <3>1. work' = [op |-> "readf", left |-> left - 1]
      BY <1>1, <2>2
    <3> QED
      BY <3>1 DEF WorkOK
  <2> QED
    BY <2>1, <2>2 DEF PrintPortion
<1>3. mode' \in {"printing", "done"}
  BY DEF PrintPortion, Finish
<1> QED
  BY <1>2, <1>3, WorkSteps DEF PrintPortion

LEMMA DumpKeyInv == ASSUME Inv, DumpKey PROVE Inv'
<1>1. memPtr \in Nat /\ memPtr < MappedPages /\ mode = "memdump" /\ MappedPages \in Nat /\ Jump \in Nat
  BY ShellAssumption DEF Inv, ModeOK, DumpKey, DumpForward, DumpBack
<1>2. PICK pages \in Nat : DumpForward(pages) \/ DumpBack(pages)
  BY <1>1 DEF DumpKey
<1>3. /\ memPtr' \in Nat /\ mode' \in {"memdump", "faulted"}
      /\ mode' # "faulted" => memPtr' < MappedPages
  <2>1. CASE DumpForward(pages)
    BY <1>1, <1>2, <2>1 DEF DumpForward
  <2>2. CASE DumpBack(pages)
    <3>1. memPtr' = memPtr - pages /\ memPtr - pages >= 0 /\ mode' = mode
      BY <2>2 DEF DumpBack
    <3> QED
      BY <1>1, <1>2, <3>1
  <2> QED
    BY <1>2, <2>1, <2>2
<1>4. ModeOK'
  BY <1>3 DEF DumpKey, Inv, ModeOK
<1> QED
  BY <1>4, SameRest DEF DumpKey, Inv

LEMMA CloseProgramInv == ASSUME Inv, CloseProgram PROVE Inv'
<1>1. ModeOK'
  BY ShellAssumption DEF CloseProgram, Inv, ModeOK
<1> QED
  BY <1>1, SameRest DEF CloseProgram, Inv

LEMMA NextInv == ASSUME Inv, [Next]_vars PROVE Inv'
<1>1. CASE MenuKey
  BY <1>1, MenuKeyInv
<1>2. CASE Prompt
  BY <1>2, PromptInv
<1>3. ASSUME NEW input \in Typed, ReadLine(input) PROVE Inv'
  BY <1>3, ReadLineInv
<1>4. ASSUME NEW junk \in Junk, Cd(junk) PROVE Inv'
  BY <1>4, CdInv
<1>5. ASSUME NEW junk \in Junk, Dir(junk) PROVE Inv'
  BY <1>5, DirInv
<1>6. ASSUME NEW junk \in Junk, Readf(junk) PROVE Inv'
  BY <1>6, ReadfInv
<1>7. CASE SetVol
  BY <1>7, SetVolInv
<1>8. CASE Exit
  BY <1>8, ExitInv
<1>9. CASE Other
  BY <1>9, OtherInv
<1>10. ASSUME NEW name \in {"memdump", "debugger"}, OpenProgram(name) PROVE Inv'
  BY <1>10, OpenProgramInv
<1>11. CASE PrintLine
  BY <1>11, PrintLineInv
<1>12. CASE MoreKey
  BY <1>12, MoreKeyInv
<1>13. CASE PrintPortion
  BY <1>13, PrintPortionInv
<1>14. CASE DumpKey
  BY <1>14, DumpKeyInv
<1>15. CASE CloseProgram
  BY <1>15, CloseProgramInv
<1>16. CASE UNCHANGED vars
  <2>1. ModeOK'
    BY <1>16 DEF vars, Inv, ModeOK
  <2> QED
    BY <1>16, <2>1, SameRest DEF vars, Inv
<1> QED
  BY <1>1, <1>2, <1>3, <1>4, <1>5, <1>6, <1>7, <1>8, <1>9, <1>10, <1>11, <1>12, <1>13, <1>14,
     <1>15, <1>16 DEF Next

-----------------------------------------------------------------------------

(* The shell always satisfies its inductive invariant.                     *)
THEOREM AlwaysInv == Spec => []Inv
<1>1. Init => Inv
  BY InitInv
<1>2. Inv /\ [Next]_vars => Inv'
  BY NextInv
<1> QED
  BY <1>1, <1>2, PTL DEF Spec

(* No row of a listing leaves the screen before the user could read it, on *)
(* a screen of any height and for entries of any number of rows, as long   *)
(* as wrapped names take at most one row more between two prompts          *)
(* (Paginator).                                                            *)
THEOREM AlwaysNothingScrollsAway == Spec => []NothingScrollsAway
<1>1. Inv => NothingScrollsAway
  <2> SUFFICES ASSUME Inv, work.op = "dir", work.wrapped <= 1 PROVE work.unseen < Height
    BY DEF NothingScrollsAway
  <2>1. PICK left \in Seq(Nat \ {0}), n \in 0 .. Height - 2, w \in Nat : work = AListing(left, n, w)
    BY DEF Inv, WorkOK, NoWork
  <2>2. work.unseen = n + w /\ work.wrapped = w
    BY <2>1 DEF AListing
  <2> QED
    BY <2>2, ShellAssumption
<1> QED
  BY <1>1, AlwaysInv, PTL

(* cd moves only to something the current volume holds, whatever the       *)
(* volumes hold and the buffers held; it follows a missing volume only     *)
(* where there is none at all (set_cwd(), setvol).                         *)
THEOREM AlwaysCdFindsThePlace == Spec => CdFindsThePlace
<1> DEFINE Finds == /\ cwd' # cwd => NamesOf(cwd') \in DOMAIN mounted[selected + 1]
                    /\ mode' = "crashed" => mounted = <<>>
<1>1. Inv /\ [Next]_vars => [Finds]_vars
  <2> SUFFICES ASSUME Inv, Next, ~ UNCHANGED vars PROVE Finds
    OBVIOUS
  <2>1. CASE \E junk \in Junk : Cd(junk)
    <3>1. PICK junk \in Junk : Cd(junk)
      BY <2>1
    <3>2. ASSUME cwd' # cwd PROVE NamesOf(cwd') \in DOMAIN mounted[selected + 1]
      BY <3>1, <3>2 DEF Cd, Exists
    <3>3. ASSUME mode' = "crashed" PROVE mounted = <<>>
      BY <3>1, <3>3 DEF Cd, Inv, VolumeOK, IsMounted
    <3> QED
      BY <3>2, <3>3
  <2>2. CASE ~ \E junk \in Junk : Cd(junk)
    <3>1. cwd' = cwd
      BY <2>2 DEF Next, MenuKey, Prompt, ReadLine, Dir, Readf, SetVol, Exit, Other, OpenProgram,
                  PrintLine, MoreKey, PrintPortion, DumpKey, CloseProgram
    <3>2. mode' # "crashed"
      <4>1. CASE MenuKey
        <5>1. Inv'
          BY <4>1, MenuKeyInv
        <5>2. mode' = mode \/ mode' = Programs[menuPos + 1]
          BY <4>1 DEF MenuKey
        <5>3. menuPos + 1 \in 1 .. 4
          BY DEF Inv, ModeOK, Programs
        <5> QED
          BY <4>1, <5>2, <5>3 DEF Programs, MenuKey
      <4>2. CASE DumpKey
        BY <4>2 DEF DumpKey, DumpForward, DumpBack
      <4>3. CASE PrintLine \/ MoreKey \/ PrintPortion
        BY <4>3 DEF PrintLine, MoreKey, PrintPortion, Finish
      <4>4. CASE CloseProgram
        BY <4>4 DEF CloseProgram, Inv, ModeOK
      <4> QED
        BY <2>2, <4>1, <4>2, <4>3, <4>4 DEF Next, Prompt, ReadLine, Dir, Readf, SetVol, Exit, Other,
           OpenProgram
    <3> QED
      BY <3>1, <3>2
  <2> QED
    BY <2>1, <2>2
<1> QED
  BY <1>1, AlwaysInv, PTL DEF Spec, CdFindsThePlace

-----------------------------------------------------------------------------
(* The current directory fits the buffer it is kept in.  That needs more   *)
(* than TypeOK says: it does not start with dots, or the path built from   *)
(* it may write nothing, and end where the buffer's old contents do.  So   *)
(* it is on volumes without such entries; on others, as long as no path    *)
(* climbs above the root, for what that writes below the buffer can shift  *)
(* a name until only dots are left of it.                                  *)

PlaceOK == cwd \in Strings /\ Len(cwd) < MaxPath /\ (cwd = <<>> \/ Opens(cwd))

WithinRoot == last.op = "cd" /\ last.found => ~ last.under

LEMMA InitPlace == Init => PlaceOK
<1>1. <<>> \in Strings /\ Len(<<>>) = 0
  BY DEF Strings
<1> QED
  BY <1>1, MaxPathType DEF Init, PlaceOK

LEMMA StepKeepsPlace ==
    ASSUME Inv, PlaceOK, [Next]_vars, RootsWithoutDots \/ WithinRoot'
    PROVE  PlaceOK'
<1>1. CASE cwd' = cwd
  BY <1>1 DEF PlaceOK, Opens
<1>2. CASE cwd' # cwd
  <2>1. PICK junk \in Junk : Cd(junk)
    BY <1>2 DEF Next, vars, MenuKey, Prompt, ReadLine, Dir, Readf, SetVol, Exit, Other, OpenProgram,
                PrintLine, MoreKey, PrintPortion, DumpKey, CloseProgram
  <2>2. PICK path : path = StringIn(Target(junk).out)
    OBVIOUS
  <2>3. /\ HasArg /\ IsMounted /\ Exists(path) /\ cwd' = path
        /\ last' = Outcome("cd", Target(junk), Exists(path))
    BY <1>2, <2>1, <2>2 DEF Cd
  <2>4. PICK s : s = NormalizePath(FullPath(cwd, typed.args[2]), junk)
    OBVIOUS
  <2>5. path = StringIn(s.out) /\ Target(junk) = s
    BY <2>2, <2>3, <2>4 DEF Target
  <2>6. cwd \in Strings /\ Len(cwd) < MaxPath /\ (cwd = <<>> \/ Opens(cwd)) /\ typed.args[2] \in Strings
    BY <2>3, ArgumentFacts DEF PlaceOK
  <2>7. path \in Strings /\ Len(path) < MaxPath
    BY <2>4, <2>5, <2>6, NormalizedFits
  <2>8. path = <<>> \/ Opens(path)
    <3>1. CASE RootsWithoutDots
      <4>1. mounted[selected + 1] \in Trees
        <5>1. mounted \in Seq(Trees) /\ selected \in Nat /\ selected < Len(mounted)
          BY <2>3, MountsAssumption DEF Inv, VolumeOK, IsMounted
        <5>2. selected + 1 \in 1 .. Len(mounted)
          BY <5>1
        <5> QED
          BY <5>1, <5>2, ElementOfSeq
      <4>2. NamesOf(path) \in DOMAIN mounted[selected + 1]
        BY <2>3 DEF Exists
      <4> QED
        BY <2>7, <3>1, <4>1, <4>2, HeldOpens
    <3>2. CASE WithinRoot'
      <4>1. last'.op = "cd" /\ last'.found /\ last'.under = s.under
        BY <2>3, <2>5 DEF Outcome
      <4>2. ~ s.under
        BY <3>2, <4>1 DEF WithinRoot
      <4> QED
        BY <2>4, <2>5, <2>6, <4>2, NormalizedOpens
    <3> QED
      BY <3>1, <3>2
  <2>9. PlaceOK' <=> path \in Strings /\ Len(path) < MaxPath /\ (path = <<>> \/ Opens(path))
    BY <2>3 DEF PlaceOK, Opens
  <2> QED
    BY <2>7, <2>8, <2>9
<1> QED
  BY <1>1, <1>2

LEMMA Types == Inv /\ PlaceOK => TypeOK
<1> SUFFICES ASSUME Inv, PlaceOK PROVE TypeOK
  OBVIOUS
<1>1. work.op \in {"none", "dir", "readf"}
  BY DEF Inv, WorkOK, NoWork, AListing
<1> QED
  BY <1>1 DEF Inv, ModeOK, TypedOK, PlaceOK, VolumeOK, TypeOK

(* Types; whatever is typed, argv[] has room for the null pointer, and the *)
(* current directory fits its buffer, where no root lists dots: volumes of *)
(* a FAT file system.                                                      *)
THEOREM AlwaysTypeOK == ASSUME RootsWithoutDots PROVE Spec => []TypeOK
<1>1. Init => PlaceOK
  BY InitPlace
<1>2. Inv /\ PlaceOK /\ [Next]_vars => PlaceOK'
  BY StepKeepsPlace
<1>3. Inv /\ PlaceOK => TypeOK
  BY Types
<1> QED
  BY <1>1, <1>2, <1>3, AlwaysInv, PTL DEF Spec

(* The same for every volume, as long as no cd goes to a path that climbs  *)
(* above the root.                                                         *)
THEOREM TypeOKWithinRoot == Spec /\ []WithinRoot => []TypeOK
<1>1. Init => PlaceOK
  BY InitPlace
<1>2. Inv /\ PlaceOK /\ [Next]_vars /\ WithinRoot' => PlaceOK'
  BY StepKeepsPlace
<1>3. Inv /\ PlaceOK => TypeOK
  BY Types
<1> QED
  BY <1>1, <1>2, <1>3, AlwaysInv, PTL DEF Spec

-----------------------------------------------------------------------------
(* What a command works with came from a line.                             *)

LineOK == typed = NoLine \/ \E input \in Typed : typed = [words |-> input.words, args |-> ParseArgs(input.line)]

(* A line that quotes every word, and hides the characters that need it,   *)
(* or has words that need neither, gives back those words, of any length   *)
(* and number, as many as argv[] has room for (parse_args()).              *)
THEOREM AlwaysArgsAreTheWords == Spec => []ArgsAreTheWords
<1>1. Init => LineOK
  BY DEF Init, LineOK
<1>2. LineOK /\ [Next]_vars => LineOK'
  <2> SUFFICES ASSUME LineOK, [Next]_vars PROVE LineOK'
    OBVIOUS
  <2>1. CASE typed' = typed
    BY <2>1 DEF LineOK
  <2>2. CASE Prompt \/ Exit
    BY <2>2 DEF LineOK, Prompt, Exit
  <2>3. CASE \E input \in Typed : ReadLine(input)
    BY <2>3 DEF LineOK, ReadLine
  <2> QED
    BY <2>1, <2>2, <2>3 DEF Next, vars, MenuKey, Cd, Dir, Readf, SetVol, Other, OpenProgram,
       PrintLine, MoreKey, PrintPortion, DumpKey, CloseProgram
<1>3. LineOK => ArgsAreTheWords
  <2> SUFFICES ASSUME LineOK, typed # NoLine, typed.words # <<>>
               PROVE  typed.args = SubSeq(typed.words, 1, Lesser(Len(typed.words), MaxArgv - 1))
    BY DEF ArgsAreTheWords
  <2>1. PICK input \in Typed : typed = [words |-> input.words, args |-> ParseArgs(input.line)]
    BY DEF LineOK
  <2>2. typed.words = input.words /\ typed.args = ParseArgs(input.line)
    BY <2>1
  <2> QED
    BY <2>2, ParsesBack
<1> QED
  BY <1>1, <1>2, <1>3, PTL DEF Spec

-----------------------------------------------------------------------------
(* What is computed along a sequence, one element more.                    *)

LEMMA SegmentsAppend ==
    ASSUME NEW p \in Strings, NEW ch \in Chars
    PROVE  /\ Segments(<<>>) = <<>> /\ Segments(p) \in Seq(SegmentSet)
           /\ Segments(Append(p, ch)) = WithChar(Segments(p), IF p = <<>> THEN Nul ELSE Last(p), ch)
<1>1. PICK N \in Nat : N = Len(p) /\ (p = <<>> <=> N = 0)
  BY EmptySeq DEF Strings
<1>2. PICK w \in Strings : /\ w = Append(p, ch) /\ Len(w) = N + 1 /\ w[N + 1] = ch
                           /\ \A i \in 1 .. N : w[i] = p[i]
  <2>1. /\ Append(p, ch) \in Seq(Chars) /\ Len(Append(p, ch)) = Len(p) + 1
        /\ \A i \in 1 .. Len(p) : Append(p, ch)[i] = p[i]
        /\ Append(p, ch)[Len(p) + 1] = ch
    BY AppendProperties DEF Strings
  <2> QED
    BY <1>1, <2>1 DEF Strings
<1>3. PICK f : /\ f = Segmenting(p) /\ f[0] = <<>> /\ f[N] \in Seq(SegmentSet)
               /\ \A i \in 1 .. N : f[i] = WithChar(f[i - 1], IF i = 1 THEN Nul ELSE p[i - 1], p[i])
  <2>1. N \in 0 .. N
    OBVIOUS
  <2> QED
    BY <1>1, <2>1, SegmentingFacts
<1>4. PICK g : /\ g = Segmenting(w) /\ g[0] = <<>>
               /\ \A i \in 1 .. N + 1 : g[i] = WithChar(g[i - 1], IF i = 1 THEN Nul ELSE w[i - 1], w[i])
  <2>1. /\ Segmenting(w)[0] = <<>>
        /\ \A i \in 1 .. Len(w) : Segmenting(w)[i]
               = WithChar(Segmenting(w)[i - 1], IF i = 1 THEN Nul ELSE w[i - 1], w[i])
    BY SegmentingFacts
  <2> QED
    BY <1>2, <2>1
<1>5. ASSUME NEW i \in 1 .. N, f[i - 1] = g[i - 1] PROVE f[i] = g[i]
  <2>1. i \in 1 .. N + 1 /\ (i # 1 => i - 1 \in 1 .. N)
    OBVIOUS
  <2>2. (IF i = 1 THEN Nul ELSE w[i - 1]) = IF i = 1 THEN Nul ELSE p[i - 1]
    BY <1>2, <2>1
  <2>3. w[i] = p[i]
    BY <1>2
  <2>4. g[i] = WithChar(g[i - 1], IF i = 1 THEN Nul ELSE w[i - 1], w[i])
    BY <1>4, <2>1
  <2> QED
    BY <1>3, <1>5, <2>2, <2>3, <2>4
<1>6. f[N] = g[N]
  <2>1. f[0] = g[0] /\ \A i \in 1 .. N : f[i - 1] = g[i - 1] => f[i] = g[i]
    BY <1>3, <1>4, <1>5
  <2> QED
    BY <2>1, Alike
<1>7. g[N + 1] = WithChar(g[N], IF N + 1 = 1 THEN Nul ELSE w[N], w[N + 1])
  <2>1. N + 1 \in 1 .. N + 1 /\ (N + 1) - 1 = N
    OBVIOUS
  <2> QED
    BY <1>4, <2>1
<1>8. (IF N + 1 = 1 THEN Nul ELSE w[N]) = IF p = <<>> THEN Nul ELSE Last(p)
  <2>1. CASE N = 0
    BY <1>1, <2>1
  <2>2. CASE N # 0
    <3>1. N \in 1 .. N /\ N + 1 # 1
      BY <2>2
    <3> QED
      BY <1>1, <1>2, <2>2, <3>1 DEF Last
  <2> QED
    BY <2>1, <2>2
<1>9. Segments(<<>>) = <<>>
  <2>1. <<>> \in Strings /\ Len(<<>>) = 0
    BY DEF Strings
  <2> QED
    BY <2>1, SegmentingFacts DEF Segments
<1> QED
  BY <1>1, <1>2, <1>3, <1>4, <1>6, <1>7, <1>8, <1>9 DEF Segments

Normalized(segs, out) == Normalizing(segs, out)[Len(segs)]

LEMMA NormalizedAppend ==
    ASSUME NEW segs \in Seq(SegmentSet), NEW x \in SegmentSet, NEW out \in [Offsets -> Letters]
    PROVE  /\ Normalized(<<>>, out) = AtStart(out) /\ Normalized(segs, out) \in PathStates
           /\ Normalized(Append(segs, x), out) = Turn(Normalized(segs, out), x)
<1>1. PICK N \in Nat : N = Len(segs)
  OBVIOUS
<1>2. PICK w \in Seq(SegmentSet) : /\ w = Append(segs, x) /\ Len(w) = N + 1 /\ w[N + 1] = x
                                   /\ \A i \in 1 .. N : w[i] = segs[i]
  <2>1. /\ Append(segs, x) \in Seq(SegmentSet) /\ Len(Append(segs, x)) = Len(segs) + 1
        /\ \A i \in 1 .. Len(segs) : Append(segs, x)[i] = segs[i]
        /\ Append(segs, x)[Len(segs) + 1] = x
    BY AppendProperties
  <2> QED
    BY <1>1, <2>1
<1>3. PICK f : /\ f = Normalizing(segs, out) /\ f[0] = AtStart(out) /\ f[N] \in PathStates
               /\ \A i \in 1 .. N : f[i] = Turn(f[i - 1], segs[i])
  <2>1. N \in 0 .. N
    OBVIOUS
  <2> QED
    BY <1>1, <2>1, NormalizingFacts
<1>4. PICK g : /\ g = Normalizing(w, out) /\ g[0] = AtStart(out)
               /\ \A i \in 1 .. N + 1 : g[i] = Turn(g[i - 1], w[i])
  <2>1. /\ Normalizing(w, out)[0] = AtStart(out)
        /\ \A i \in 1 .. Len(w) : Normalizing(w, out)[i] = Turn(Normalizing(w, out)[i - 1], w[i])
    BY NormalizingFacts
  <2> QED
    BY <1>2, <2>1
<1>5. ASSUME NEW i \in 1 .. N, f[i - 1] = g[i - 1] PROVE f[i] = g[i]
  <2>1. i \in 1 .. N + 1 /\ w[i] = segs[i]
    BY <1>2
  <2> QED
    BY <1>3, <1>4, <1>5, <2>1
<1>6. f[N] = g[N]
  <2>1. f[0] = g[0] /\ \A i \in 1 .. N : f[i - 1] = g[i - 1] => f[i] = g[i]
    BY <1>3, <1>4, <1>5
  <2> QED
    BY <2>1, Alike
<1>7. g[N + 1] = Turn(g[N], w[N + 1])
  <2>1. N + 1 \in 1 .. N + 1 /\ (N + 1) - 1 = N
    OBVIOUS
  <2> QED
    BY <1>4, <2>1
<1>8. Normalized(<<>>, out) = AtStart(out)
  <2>1. <<>> \in Seq(SegmentSet) /\ Len(<<>>) = 0
    OBVIOUS
  <2> QED
    BY <2>1, NormalizingFacts DEF Normalized
<1> QED
  BY <1>1, <1>2, <1>3, <1>4, <1>6, <1>7, <1>8 DEF Normalized


-----------------------------------------------------------------------------
(* The names in a path, and where they lead.                               *)

Places == Seq(Strings)

LEMMA WithNameType ==
    ASSUME NEW names \in Places, NEW text \in Strings
    PROVE  WithName(names, text) \in Places
BY AppendFacts DEF WithName, Places

LEMMA NamingFacts ==
    ASSUME NEW segs \in Seq(SegmentSet)
    PROVE  /\ Naming(segs)[0] = <<>>
           /\ \A i \in 0 .. Len(segs) : Naming(segs)[i] \in Places
           /\ \A i \in 1 .. Len(segs) : Naming(segs)[i] = WithName(Naming(segs)[i - 1], segs[i].text)
<1>1. PICK N \in Nat : N = Len(segs)
  OBVIOUS
<1>2. \A i \in 1 .. N : segs[i].text \in Strings
  <2>1. \A i \in 1 .. N : segs[i] \in SegmentSet
    BY <1>1, ElementOfSeq
  <2> QED
    BY <2>1 DEF SegmentSet
<1>3. <<>> \in Places
  BY DEF Places
<1>4. PICK step : step = [i \in 1 .. N |-> [names \in Places |-> WithName(names, segs[i].text)]]
  OBVIOUS
<1>5. step \in [1 .. N -> [Places -> Places]]
  BY <1>2, <1>4, WithNameType
<1>6. PICK f \in [0 .. N -> Places] : Follows(f, N, <<>>, step)
  BY <1>3, <1>5, RecursionExists
<1>7. f[0] = <<>> /\ \A i \in 1 .. N : f[i] = WithName(f[i - 1], segs[i].text)
  <2>1. ASSUME NEW i \in 1 .. N PROVE f[i] = WithName(f[i - 1], segs[i].text)
    <3>1. f[i] = step[i][f[i - 1]] /\ f[i - 1] \in Places
      BY <1>6 DEF Follows
    <3> QED
      BY <1>4, <3>1
  <2> QED
    BY <1>6, <2>1 DEF Follows
<1>8. f = [i \in 0 .. N |-> IF i = 0 THEN <<>> ELSE WithName(f[i - 1], segs[i].text)]
  BY <1>6, <1>7
<1>9. PICK g : /\ g = Naming(segs)
               /\ g = [i \in 0 .. N |-> IF i = 0 THEN <<>> ELSE WithName(g[i - 1], segs[i].text)]
  <2>1. Naming(segs) = CHOOSE h : h = [i \in 0 .. N |-> IF i = 0 THEN <<>> ELSE WithName(h[i - 1], segs[i].text)]
    BY <1>1 DEF Naming
  <2> QED
    BY <1>8, <2>1
<1>10. g[0] = <<>> /\ \A i \in 1 .. N : g[i] = WithName(g[i - 1], segs[i].text)
  BY <1>9
<1> DEFINE S == {i \in 0 .. N : g[i] \in Places}
<1>11. 0 \in S
  BY <1>3, <1>10
<1>12. \A i \in 0 .. N - 1 : i \in S => i + 1 \in S
  <2> TAKE i \in 0 .. N - 1
  <2> HAVE i \in S
  <2>1. i + 1 \in 1 .. N /\ i + 1 \in 0 .. N /\ (i + 1) - 1 = i /\ g[i] \in Places
    BY <1>1
  <2>2. g[i + 1] = WithName(g[i], segs[i + 1].text) /\ segs[i + 1].text \in Strings
    BY <1>2, <1>10, <2>1
  <2>3. g[i + 1] \in Places
    BY <2>1, <2>2, WithNameType
  <2> QED
    BY <2>1, <2>3
<1> HIDE DEF S
<1>13. \A i \in 0 .. N : i \in S
  BY <1>11, <1>12, IntervalInduction
<1> QED
  BY <1>1, <1>9, <1>10, <1>13 DEF S

LEMMA EnterType ==
    ASSUME NEW place \in Places, NEW name \in Strings
    PROVE  /\ Enter(place, name) \in Places
           /\ name = <<".">> => Enter(place, name) = place
           /\ name = <<".", ".">> => Enter(place, name) = IF place = <<>> THEN <<>> ELSE Front(place)
           /\ name \notin Dots => Enter(place, name) = Append(place, name)
<1>1. CASE name = <<".">>
  BY <1>1 DEF Enter, Dots
<1>2. CASE name = <<".", ".">>
  <2>1. <<".", ".">> # <<".">>
    OBVIOUS
  <2>2. Enter(place, name) = IF place = <<>> THEN <<>> ELSE Front(place)
    BY <1>2, <2>1 DEF Enter
  <2>3. CASE place = <<>>
    BY <1>2, <2>1, <2>2, <2>3 DEF Dots
  <2>4. CASE place # <<>>
    <3>1. PICK front \in Places, name1 \in Strings : place = Append(front, name1)
      BY <2>4, SequenceEmptyOrAppend DEF Places
    <3>2. Front(place) = front
      BY <3>1, FrontLast DEF Places
    <3> QED
      BY <1>2, <2>1, <2>2, <2>4, <3>2 DEF Dots
  <2> QED
    BY <2>3, <2>4
<1>3. CASE name \notin Dots
  <2>1. Enter(place, name) = Append(place, name)
    BY <1>3 DEF Enter, Dots
  <2> QED
    BY <1>3, <2>1, AppendFacts DEF Places, Dots
<1> QED
  BY <1>1, <1>2, <1>3 DEF Dots

LEMMA WalkingFacts ==
    ASSUME NEW place \in Places, NEW names \in Places
    PROVE  /\ Walking(place, names)[0] = place
           /\ \A i \in 0 .. Len(names) : Walking(place, names)[i] \in Places
           /\ \A i \in 1 .. Len(names) : Walking(place, names)[i] = Enter(Walking(place, names)[i - 1], names[i])
<1>1. PICK N \in Nat : N = Len(names)
  BY DEF Places
<1>2. \A i \in 1 .. N : names[i] \in Strings
  BY <1>1, ElementOfSeq DEF Places
<1>4. PICK step : step = [i \in 1 .. N |-> [p \in Places |-> Enter(p, names[i])]]
  OBVIOUS
<1>5. step \in [1 .. N -> [Places -> Places]]
  BY <1>2, <1>4, EnterType
<1>6. PICK f \in [0 .. N -> Places] : Follows(f, N, place, step)
  BY <1>5, RecursionExists
<1>7. f[0] = place /\ \A i \in 1 .. N : f[i] = Enter(f[i - 1], names[i])
  <2>1. ASSUME NEW i \in 1 .. N PROVE f[i] = Enter(f[i - 1], names[i])
    <3>1. f[i] = step[i][f[i - 1]] /\ f[i - 1] \in Places
      BY <1>6 DEF Follows
    <3> QED
      BY <1>4, <3>1
  <2> QED
    BY <1>6, <2>1 DEF Follows
<1>8. f = [i \in 0 .. N |-> IF i = 0 THEN place ELSE Enter(f[i - 1], names[i])]
  BY <1>6, <1>7
<1>9. PICK g : /\ g = Walking(place, names)
               /\ g = [i \in 0 .. N |-> IF i = 0 THEN place ELSE Enter(g[i - 1], names[i])]
  <2>1. Walking(place, names) = CHOOSE h : h = [i \in 0 .. N |-> IF i = 0 THEN place ELSE Enter(h[i - 1], names[i])]
    BY <1>1 DEF Walking
  <2> QED
    BY <1>8, <2>1
<1>10. g[0] = place /\ \A i \in 1 .. N : g[i] = Enter(g[i - 1], names[i])
  BY <1>9
<1> DEFINE S == {i \in 0 .. N : g[i] \in Places}
<1>11. 0 \in S
  BY <1>10
<1>12. \A i \in 0 .. N - 1 : i \in S => i + 1 \in S
  <2> TAKE i \in 0 .. N - 1
  <2> HAVE i \in S
  <2>1. i + 1 \in 1 .. N /\ i + 1 \in 0 .. N /\ (i + 1) - 1 = i /\ g[i] \in Places
    BY <1>1
  <2>2. g[i + 1] = Enter(g[i], names[i + 1]) /\ names[i + 1] \in Strings
    BY <1>2, <1>10, <2>1
  <2>3. g[i + 1] \in Places
    BY <2>1, <2>2, EnterType
  <2> QED
    BY <2>1, <2>3
<1> HIDE DEF S
<1>13. \A i \in 0 .. N : i \in S
  BY <1>11, <1>12, IntervalInduction
<1> QED
  BY <1>1, <1>9, <1>10, <1>13 DEF S


Named(segs) == Naming(segs)[Len(segs)]

LEMMA NamedAppend ==
    ASSUME NEW segs \in Seq(SegmentSet), NEW x \in SegmentSet
    PROVE  /\ Named(<<>>) = <<>> /\ Named(segs) \in Places
           /\ Named(Append(segs, x)) = WithName(Named(segs), x.text)
<1>1. PICK N \in Nat : N = Len(segs)
  OBVIOUS
<1>2. PICK w \in Seq(SegmentSet) : /\ w = Append(segs, x) /\ Len(w) = N + 1 /\ w[N + 1] = x
                                   /\ \A i \in 1 .. N : w[i] = segs[i]
  <2>1. /\ Append(segs, x) \in Seq(SegmentSet) /\ Len(Append(segs, x)) = Len(segs) + 1
        /\ \A i \in 1 .. Len(segs) : Append(segs, x)[i] = segs[i]
        /\ Append(segs, x)[Len(segs) + 1] = x
    BY AppendProperties
  <2> QED
    BY <1>1, <2>1
<1>3. PICK f : /\ f = Naming(segs) /\ f[0] = <<>> /\ f[N] \in Places
               /\ \A i \in 1 .. N : f[i] = WithName(f[i - 1], segs[i].text)
  <2>1. /\ Naming(segs)[0] = <<>>
        /\ \A i \in 0 .. Len(segs) : Naming(segs)[i] \in Places
        /\ \A i \in 1 .. Len(segs) : Naming(segs)[i] = WithName(Naming(segs)[i - 1], segs[i].text)
    BY NamingFacts
  <2>2. N \in 0 .. Len(segs)
    BY <1>1
  <2>3. Naming(segs)[N] \in Places
    BY <2>1, <2>2
  <2> QED
    BY <1>1, <2>1, <2>3
<1>4. PICK g : /\ g = Naming(w) /\ g[0] = <<>>
               /\ \A i \in 1 .. N + 1 : g[i] = WithName(g[i - 1], w[i].text)
  <2>1. /\ Naming(w)[0] = <<>>
        /\ \A i \in 1 .. Len(w) : Naming(w)[i] = WithName(Naming(w)[i - 1], w[i].text)
    BY NamingFacts
  <2> QED
    BY <1>2, <2>1
<1>5. ASSUME NEW i \in 1 .. N, f[i - 1] = g[i - 1] PROVE f[i] = g[i]
  <2>1. i \in 1 .. N + 1 /\ w[i] = segs[i]
    BY <1>2
  <2> QED
    BY <1>3, <1>4, <1>5, <2>1
<1>6. f[N] = g[N]
  <2>1. f[0] = g[0] /\ \A i \in 1 .. N : f[i - 1] = g[i - 1] => f[i] = g[i]
    BY <1>3, <1>4, <1>5
  <2> QED
    BY <2>1, Alike
<1>7. g[N + 1] = WithName(g[N], w[N + 1].text)
  <2>1. N + 1 \in 1 .. N + 1 /\ (N + 1) - 1 = N
    OBVIOUS
  <2> QED
    BY <1>4, <2>1
<1>8. Named(<<>>) = <<>>
  <2>1. <<>> \in Seq(SegmentSet) /\ Len(<<>>) = 0
    OBVIOUS
  <2> QED
    BY <2>1, NamingFacts DEF Named
<1> QED
  BY <1>1, <1>2, <1>3, <1>4, <1>6, <1>7, <1>8 DEF Named

LEMMA WalkAppend ==
    ASSUME NEW place \in Places, NEW names \in Places, NEW name \in Strings
    PROVE  /\ Walk(place, <<>>) = place /\ Walk(place, names) \in Places
           /\ Walk(place, Append(names, name)) = Enter(Walk(place, names), name)
<1>1. PICK N \in Nat : N = Len(names)
  BY DEF Places
<1>2. PICK w \in Places : /\ w = Append(names, name) /\ Len(w) = N + 1 /\ w[N + 1] = name
                          /\ \A i \in 1 .. N : w[i] = names[i]
  <2>1. /\ Append(names, name) \in Places /\ Len(Append(names, name)) = Len(names) + 1
        /\ \A i \in 1 .. Len(names) : Append(names, name)[i] = names[i]
        /\ Append(names, name)[Len(names) + 1] = name
    BY AppendProperties DEF Places
  <2> QED
    BY <1>1, <2>1
<1>3. PICK f : /\ f = Walking(place, names) /\ f[0] = place /\ f[N] \in Places
               /\ \A i \in 1 .. N : f[i] = Enter(f[i - 1], names[i])
  <2>1. /\ Walking(place, names)[0] = place
        /\ \A i \in 0 .. Len(names) : Walking(place, names)[i] \in Places
        /\ \A i \in 1 .. Len(names) : Walking(place, names)[i] = Enter(Walking(place, names)[i - 1], names[i])
    BY WalkingFacts
  <2>2. N \in 0 .. Len(names)
    BY <1>1
  <2>3. Walking(place, names)[N] \in Places
    BY <2>1, <2>2
  <2> QED
    BY <1>1, <2>1, <2>3
<1>4. PICK g : /\ g = Walking(place, w) /\ g[0] = place
               /\ \A i \in 1 .. N + 1 : g[i] = Enter(g[i - 1], w[i])
  <2>1. /\ Walking(place, w)[0] = place
        /\ \A i \in 1 .. Len(w) : Walking(place, w)[i] = Enter(Walking(place, w)[i - 1], w[i])
    BY WalkingFacts
  <2> QED
    BY <1>2, <2>1
<1>5. ASSUME NEW i \in 1 .. N, f[i - 1] = g[i - 1] PROVE f[i] = g[i]
  <2>1. i \in 1 .. N + 1 /\ w[i] = names[i]
    BY <1>2
  <2> QED
    BY <1>3, <1>4, <1>5, <2>1
<1>6. f[N] = g[N]
  <2>1. f[0] = g[0] /\ \A i \in 1 .. N : f[i - 1] = g[i - 1] => f[i] = g[i]
    BY <1>3, <1>4, <1>5
  <2> QED
    BY <2>1, Alike
<1>7. g[N + 1] = Enter(g[N], w[N + 1])
  <2>1. N + 1 \in 1 .. N + 1 /\ (N + 1) - 1 = N
    OBVIOUS
  <2> QED
    BY <1>4, <2>1
<1>8. Walk(place, <<>>) = place
  <2>1. <<>> \in Places /\ Len(<<>>) = 0
    BY DEF Places
  <2> QED
    BY <2>1, WalkingFacts DEF Walk
<1> QED
  BY <1>1, <1>2, <1>3, <1>4, <1>6, <1>7, <1>8 DEF Walk

LEMMA WalkFacts ==
    ASSUME NEW place \in Places, NEW names \in Places
    PROVE  Walk(place, <<>>) = place /\ Walk(place, names) \in Places
<1>1. <<>> \in Strings
  BY DEF Strings
<1> QED
  BY <1>1, WalkAppend

(* One walk after another.                                                 *)
LEMMA WalkConcat ==
    ASSUME NEW place \in Places, NEW names \in Places, NEW more \in Places
    PROVE  Walk(place, names \o more) = Walk(Walk(place, names), more)
<1> DEFINE S == {m \in Places : Walk(place, names \o m) = Walk(Walk(place, names), m)}
<1>1. Walk(place, names) \in Places
  BY WalkFacts
<1>2. <<>> \in S
  <2>1. names \o <<>> = names /\ <<>> \in Places
    BY ConcatEmptySeq DEF Places
  <2>2. Walk(Walk(place, names), <<>>) = Walk(place, names)
    BY <1>1, WalkFacts
  <2> QED
    BY <2>1, <2>2
<1>3. ASSUME NEW m \in Places, NEW name \in Strings, m \in S PROVE Append(m, name) \in S
  <2>1. names \o Append(m, name) = Append(names \o m, name) /\ names \o m \in Places
    BY ConcatAppend DEF Places
  <2>2. Walk(place, Append(names \o m, name)) = Enter(Walk(place, names \o m), name)
    BY <2>1, WalkAppend
  <2>3. Walk(Walk(place, names), Append(m, name)) = Enter(Walk(Walk(place, names), m), name)
    BY <1>1, WalkAppend
  <2>4. Append(m, name) \in Places
    BY AppendFacts DEF Places
  <2> QED
    BY <1>3, <2>1, <2>2, <2>3, <2>4
<1>4. \A m \in Seq(Strings) : m \in S
  <2> HIDE DEF S
  <2>1. \A m \in Seq(Strings), name \in Strings : m \in S => Append(m, name) \in S
    BY <1>3 DEF Places
  <2> QED
    BY <1>2, <2>1, SequenceInduction
<1> QED
  BY <1>4 DEF Places

(* A place has no dots in it, and its names lead to it.                    *)
Dotless == Seq(Strings \ Dots)

LEMMA DotlessFacts ==
    ASSUME NEW place \in Dotless
    PROVE  place \in Places /\ <<>> \in Dotless
<1>1. PICK N \in Nat : N = Len(place) /\ \A i \in 1 .. N : place[i] \in Strings \ Dots
  BY ElementOfSeq DEF Dotless
<1>2. place = [i \in 1 .. N |-> place[i]] /\ \A i \in 1 .. N : place[i] \in Strings
  BY <1>1 DEF Dotless
<1>3. place \in Seq(Strings)
  BY <1>2
<1> QED
  BY <1>3 DEF Dotless, Places

LEMMA EnterDotless ==
    ASSUME NEW place \in Dotless, NEW name \in Strings
    PROVE  Enter(place, name) \in Dotless
<1>1. place \in Places /\ <<>> \in Dotless
  BY DotlessFacts
<1>2. CASE name = <<".">>
  BY <1>1, <1>2, EnterType
<1>3. CASE name = <<".", ".">>
  <2>1. Enter(place, name) = IF place = <<>> THEN <<>> ELSE Front(place)
    BY <1>1, <1>3, EnterType
  <2>2. CASE place # <<>>
    <3>1. PICK front \in Dotless, name1 \in Strings \ Dots : place = Append(front, name1)
      BY <2>2, SequenceEmptyOrAppend DEF Dotless
    <3>2. Front(place) = front
      BY <3>1, FrontLast DEF Dotless
    <3> QED
      BY <2>1, <2>2, <3>2
  <2> QED
    BY <1>1, <2>1, <2>2
<1>4. CASE name \notin Dots
  <2>1. Enter(place, name) = Append(place, name)
    BY <1>1, <1>4, EnterType
  <2> QED
    BY <1>4, <2>1, AppendFacts DEF Dotless
<1> QED
  BY <1>2, <1>3, <1>4 DEF Dots

LEMMA WalkDotless ==
    ASSUME NEW place \in Dotless, NEW names \in Places
    PROVE  Walk(place, names) \in Dotless
<1> DEFINE S == {n \in Places : Walk(place, n) \in Dotless}
<1>0. place \in Places
  BY DotlessFacts
<1>1. <<>> \in S
  <2>1. <<>> \in Places
    BY DEF Places
  <2>2. Walk(place, <<>>) = place
    BY <1>0, WalkFacts
  <2> QED
    BY <2>1, <2>2
<1>2. ASSUME NEW n \in Places, NEW name \in Strings, n \in S PROVE Append(n, name) \in S
  <2>1. Walk(place, Append(n, name)) = Enter(Walk(place, n), name)
    BY <1>0, WalkAppend
  <2>2. Append(n, name) \in Places
    BY AppendFacts DEF Places
  <2> QED
    BY <1>2, <2>1, <2>2, EnterDotless
<1>3. \A n \in Seq(Strings) : n \in S
  <2> HIDE DEF S
  <2>1. \A n \in Seq(Strings), name \in Strings : n \in S => Append(n, name) \in S
    BY <1>2 DEF Places
  <2> QED
    BY <1>1, <2>1, SequenceInduction
<1> QED
  BY <1>3 DEF Places

LEMMA WalkToPlace ==
    ASSUME NEW place \in Dotless
    PROVE  Walk(<<>>, place) = place
<1> DEFINE S == {n \in Dotless : Walk(<<>>, n) = n}
<1>0. <<>> \in Places /\ <<>> \in Dotless
  BY DEF Places, Dotless
<1>1. <<>> \in S
  <2>1. Walk(<<>>, <<>>) = <<>>
    BY <1>0, WalkFacts
  <2> QED
    BY <1>0, <2>1
<1>2. ASSUME NEW n \in Dotless, NEW name \in Strings \ Dots, n \in S PROVE Append(n, name) \in S
  <2>1. n \in Places
    BY DotlessFacts
  <2>2. Walk(<<>>, Append(n, name)) = Enter(Walk(<<>>, n), name)
    BY <1>0, <2>1, WalkAppend
  <2>3. Enter(n, name) = Append(n, name)
    BY <2>1, EnterType
  <2>4. Append(n, name) \in Dotless
    BY AppendFacts DEF Dotless
  <2> QED
    BY <1>2, <2>2, <2>3, <2>4
<1>3. \A n \in Seq(Strings \ Dots) : n \in S
  <2> HIDE DEF S
  <2>1. \A n \in Seq(Strings \ Dots), name \in Strings \ Dots : n \in S => Append(n, name) \in S
    BY <1>2 DEF Dotless
  <2> QED
    BY <1>1, <2>1, SequenceInduction
<1> QED
  BY <1>3 DEF Dotless

-----------------------------------------------------------------------------
(* The last segment of a path.                                             *)

NoSlash(text) == \A j \in 1 .. Len(text) : text[j] # "/"

EndsIn(p, front, x) ==
    /\ Segments(p) = Append(Segments(front), x)
    /\ Len(front) + Len(x.text) <= Len(p) /\ (x.slash => Len(front) + 1 + Len(x.text) <= Len(p))
    /\ NoSlash(x.text) /\ (front # <<>> => x.slash) /\ (x.slash \/ x.text # <<>>)
    /\ Last(p) = "/" <=> x.text = <<>>

LEMMA LastSegment ==
    ASSUME NEW p \in Strings, p # <<>>
    PROVE  \E front \in Strings, x \in SegmentSet : EndsIn(p, front, x)
<1> DEFINE S == {q \in Strings : q # <<>> => \E front \in Strings, x \in SegmentSet : EndsIn(q, front, x)}
<1>1. <<>> \in S
  BY DEF Strings
<1>2. ASSUME NEW q \in Strings, NEW ch \in Chars, q \in S PROVE Append(q, ch) \in S
  <2>1. PICK w \in Strings, n \in Nat : /\ w = Append(q, ch) /\ n = Len(q) /\ w # <<>> /\ Len(w) = n + 1
                                        /\ Last(w) = ch /\ (q = <<>> <=> n = 0)
    <3>1. PICK n \in Nat : n = Len(q) /\ (q = <<>> <=> n = 0)
      BY EmptySeq DEF Strings
    <3>2. /\ Append(q, ch) \in Seq(Chars) /\ Append(q, ch) # <<>> /\ Len(Append(q, ch)) = Len(q) + 1
          /\ Last(Append(q, ch)) = ch
      BY FrontLast DEF Strings
    <3> QED
      BY <3>1, <3>2 DEF Strings
  <2>2. PICK before : /\ before = (IF q = <<>> THEN Nul ELSE Last(q))
                      /\ Segments(w) = WithChar(Segments(q), before, ch)
    BY <2>1, SegmentsAppend
  <2>3. CASE ch = "/" /\ before = "/"
    <3>1. q # <<>> /\ Last(q) = "/"
      BY <2>2, <2>3 DEF Nul
    <3>2. PICK front \in Strings, x \in SegmentSet : EndsIn(q, front, x)
      BY <1>2, <3>1
    <3>3. Segments(w) = Segments(q)
      BY <2>2, <2>3 DEF WithChar
    <3>4. PICK a \in Nat, b \in Nat : a = Len(front) /\ b = Len(x.text)
      <4>1. Len(front) \in Nat /\ x.text \in Seq(Chars)
        BY DEF Strings, SegmentSet
      <4> QED
        BY <4>1
    <3>5. a + b <= n /\ (x.slash => a + 1 + b <= n)
      BY <2>1, <3>2, <3>4 DEF EndsIn
    <3>6. Len(front) + Len(x.text) <= Len(w) /\ (x.slash => Len(front) + 1 + Len(x.text) <= Len(w))
      <4>1. a + b <= n => a + b <= n + 1
        OBVIOUS
      <4>2. a + 1 + b <= n => a + 1 + b <= n + 1
        OBVIOUS
      <4> QED
        BY <2>1, <3>4, <3>5, <4>1, <4>2, Zenon
    <3>7. EndsIn(w, front, x)
      BY <2>1, <2>3, <3>1, <3>2, <3>3, <3>6 DEF EndsIn
    <3> QED
      BY <2>1, <3>7
  <2>4. CASE ch = "/" /\ before # "/"
    <3>0. <<>> \in Strings
      BY DEF Strings
    <3>1. PICK x \in SegmentSet : x = [slash |-> TRUE, text |-> <<>>]
      BY <3>0 DEF SegmentSet
    <3>2. Segments(w) = Append(Segments(q), x)
      BY <2>2, <2>4, <3>1 DEF WithChar
    <3>3. x.slash /\ x.text = <<>> /\ Len(x.text) = 0 /\ NoSlash(x.text)
      BY <3>1 DEF NoSlash
    <3>4. EndsIn(w, q, x)
      BY <2>1, <2>4, <3>2, <3>3 DEF EndsIn
    <3> QED
      BY <2>1, <3>4
  <2>5. CASE ch # "/" /\ q = <<>>
    <3>1. Segments(q) = <<>>
      BY <2>5, SegmentsAppend
    <3>0. <<ch>> \in Strings /\ Len(<<ch>>) = 1 /\ <<ch>>[1] = ch
      BY DEF Strings
    <3>2. PICK text \in Strings : text = <<ch>> /\ Len(text) = 1 /\ text[1] = ch
      BY <3>0
    <3>3. PICK x \in SegmentSet : x = [slash |-> FALSE, text |-> text]
      BY DEF SegmentSet
    <3>4. Segments(w) = Append(Segments(q), x)
      <4>1. Segments(w) = <<[slash |-> FALSE, text |-> <<ch>>]>>
        <5>1. WithChar(<<>>, before, ch) = <<[slash |-> FALSE, text |-> <<ch>>]>>
          BY <2>5 DEF WithChar
        <5> QED
          BY <2>2, <3>1, <5>1
      <4>2. Append(<<>>, x) = <<x>>
        OBVIOUS
      <4> QED
        BY <3>1, <3>2, <3>3, <4>1, <4>2
    <3>5. ~ x.slash /\ x.text = text /\ text # <<>> /\ NoSlash(text)
      BY <2>5, <3>2, <3>3 DEF NoSlash
    <3>7. Len(q) + Len(x.text) <= Len(w)
      BY <2>1, <2>5, <3>2, <3>5
    <3>6. EndsIn(w, q, x)
      BY <2>1, <2>5, <3>4, <3>5, <3>7 DEF EndsIn
    <3> QED
      BY <2>1, <3>6
  <2>6. CASE ch # "/" /\ q # <<>>
    <3>1. PICK front \in Strings, x \in SegmentSet : EndsIn(q, front, x)
      BY <1>2, <2>6
    <3>2. PICK segs \in Seq(SegmentSet) : segs = Segments(front)
      BY SegmentsAppend, MaxPathType
    <3>3. /\ Segments(q) # <<>> /\ Front(Segments(q)) = segs /\ Last(Segments(q)) = x
      BY <3>1, <3>2, FrontLast DEF EndsIn
    <3>4. PICK more \in SegmentSet : /\ more = Longer(x, ch) /\ more.slash = x.slash
                                     /\ more.text = Append(x.text, ch)
      BY LongerFacts
    <3>5. Segments(w) = Append(segs, more)
      BY <2>2, <2>6, <3>3, <3>4 DEF WithChar
    <3>6. PICK text \in Strings, m \in Nat : text = x.text /\ m = Len(text)
      BY DEF SegmentSet, Strings
    <3>7. /\ Append(text, ch) # <<>> /\ Len(Append(text, ch)) = m + 1
          /\ \A j \in 1 .. m : Append(text, ch)[j] = text[j]
          /\ Append(text, ch)[m + 1] = ch
      <4>1. /\ Append(text, ch) # <<>> /\ Len(Append(text, ch)) = Len(text) + 1
            /\ \A j \in 1 .. Len(text) : Append(text, ch)[j] = text[j]
            /\ Append(text, ch)[Len(text) + 1] = ch
        <5>1. text \in Seq(Chars)
          BY DEF Strings
        <5> QED
          BY <5>1, AppendProperties
      <4> QED
        BY <3>6, <4>1
    <3>8. NoSlash(more.text)
      <4>1. \A j \in 1 .. m : text[j] # "/"
        BY <3>1, <3>6 DEF EndsIn, NoSlash
      <4>2. ASSUME NEW j \in 1 .. m + 1 PROVE Append(text, ch)[j] # "/"
        <5>1. j \in 1 .. m \/ j = m + 1
          OBVIOUS
        <5> QED
          BY <2>6, <3>7, <4>1, <5>1
      <4> QED
        BY <3>4, <3>6, <3>7, <4>2 DEF NoSlash
    <3>9. /\ Len(more.text) = m + 1 /\ more.text # <<>> /\ Len(front) \in Nat
          /\ Len(front) + m <= n /\ (x.slash => Len(front) + 1 + m <= n) /\ (front # <<>> => x.slash)
      <4>1. Len(front) \in Nat
        BY DEF Strings
      <4>2. /\ Len(front) + Len(x.text) <= Len(q) /\ (x.slash => Len(front) + 1 + Len(x.text) <= Len(q))
            /\ front # <<>> => x.slash
        BY <3>1 DEF EndsIn
      <4>3. Len(more.text) = m + 1 /\ more.text # <<>>
        BY <3>4, <3>6, <3>7
      <4> QED
        BY <2>1, <3>6, <4>1, <4>2, <4>3
    <3>10. EndsIn(w, front, more)
      BY <2>1, <2>6, <3>2, <3>4, <3>5, <3>8, <3>9 DEF EndsIn
    <3> QED
      BY <2>1, <3>10
  <2> QED
    BY <2>3, <2>4, <2>5, <2>6
<1>3. \A q \in Seq(Chars) : q \in S
  <2> HIDE DEF S
  <2>1. \A q \in Seq(Chars), ch \in Chars : q \in S => Append(q, ch) \in S
    BY <1>2 DEF Strings
  <2> QED
    BY <1>1, <2>1, SequenceInduction
<1> QED
  BY <1>3 DEF Strings


-----------------------------------------------------------------------------
(* The names in a path that is put together.                               *)

Ending(base) == base = <<>> \/ Last(base) = "/"

LEMMA PathInduction ==
    ASSUME NEW S, <<>> \in S, \A p \in Strings : p \in S => Append(p, "/") \in S,
           \A base, text \in Strings :
               base \in S /\ Ending(base) /\ text # <<>> /\ NoSlash(text) => base \o text \in S
    PROVE  \A p \in Strings : /\ p \in S
                              /\ \E base, text \in Strings : p = base \o text /\ Ending(base) /\ NoSlash(text)
<1> DEFINE T == {p \in Strings : /\ p \in S
                                 /\ \E base, text \in Strings : /\ p = base \o text /\ base \in S
                                                                /\ Ending(base) /\ NoSlash(text)}
<1>0. <<>> \in Strings /\ NoSlash(<<>>) /\ \A q \in Strings : q \o <<>> = q
  BY ConcatEmptySeq DEF Strings, NoSlash
<1>1. <<>> \in T
  BY <1>0 DEF Ending
<1>2. ASSUME NEW p \in Strings, NEW ch \in Chars, p \in T PROVE Append(p, ch) \in T
  <2>1. Append(p, ch) \in Strings /\ Last(Append(p, ch)) = ch /\ p \in S
    BY <1>2, FrontLast DEF Strings
  <2>2. CASE ch = "/"
    <3>1. Append(p, ch) \in S /\ Ending(Append(p, ch))
      BY <2>1, <2>2 DEF Ending
    <3>2. Append(p, ch) \o <<>> = Append(p, ch)
      BY <1>0, <2>1
    <3> HIDE DEF Ending
    <3> QED
      BY <1>0, <2>1, <3>1, <3>2
  <2>3. CASE ch # "/"
    <3>1. PICK base, text \in Strings : p = base \o text /\ base \in S /\ Ending(base) /\ NoSlash(text)
      BY <1>2
    <3>2. PICK more \in Strings : /\ more = Append(text, ch) /\ more # <<>>
                                 /\ base \o more = Append(base \o text, ch)
      <4>1. Append(text, ch) \in Strings /\ Append(text, ch) # <<>>
        BY FrontLast DEF Strings
      <4>2. base \o Append(text, ch) = Append(base \o text, ch)
        BY ConcatAppend DEF Strings
      <4> QED
        BY <4>1, <4>2
    <3>3. NoSlash(more)
      <4>1. /\ Len(Append(text, ch)) = Len(text) + 1
            /\ \A j \in 1 .. Len(text) : Append(text, ch)[j] = text[j]
            /\ Append(text, ch)[Len(text) + 1] = ch
        BY AppendProperties DEF Strings
      <4>2. PICK m \in Nat : m = Len(text)
        BY DEF Strings
      <4>3. ASSUME NEW j \in 1 .. m + 1 PROVE more[j] # "/"
        <5>1. j \in 1 .. m \/ j = m + 1
          OBVIOUS
        <5>2. \A k \in 1 .. m : text[k] # "/"
          BY <3>1, <4>2 DEF NoSlash
        <5> QED
          BY <2>3, <3>2, <4>1, <4>2, <5>1, <5>2
      <4> QED
        BY <3>2, <4>1, <4>2, <4>3 DEF NoSlash
    <3>4. Append(p, ch) = base \o more /\ base \o more \in S
      BY <3>1, <3>2, <3>3
    <3> QED
      BY <2>1, <3>1, <3>2, <3>3, <3>4
  <2> QED
    BY <2>2, <2>3
<1>3. \A p \in Seq(Chars) : p \in T
  <2> HIDE DEF T
  <2>1. \A p \in Seq(Chars), ch \in Chars : p \in T => Append(p, ch) \in T
    BY <1>2 DEF Strings
  <2> QED
    BY <1>1, <2>1, SequenceInduction
<1> QED
  BY <1>3 DEF Strings

LEMMA NamesType ==
    ASSUME NEW p \in Strings
    PROVE  /\ NamesOf(p) = Named(Segments(p)) /\ NamesOf(p) \in Places /\ NamesOf(<<>>) = <<>>
           /\ Segments(p) \in Seq(SegmentSet) /\ Segments(<<>>) = <<>>
<1>1. Segments(<<>>) = <<>> /\ Segments(p) \in Seq(SegmentSet)
  BY SegmentsAppend, MaxPathType
<1>2. PICK x \in SegmentSet : x = [slash |-> TRUE, text |-> <<>>]
  <2>1. <<>> \in Strings
    BY DEF Strings
  <2> QED
    BY <2>1 DEF SegmentSet
<1>3. Named(<<>>) = <<>> /\ Named(Segments(p)) \in Places
  BY <1>1, NamedAppend
<1> QED
  BY <1>1, <1>3 DEF NamesOf, Named

LEMMA NamesEndIn ==
    ASSUME NEW p \in Strings, NEW front \in Strings, NEW x \in SegmentSet, Segments(p) = Append(Segments(front), x)
    PROVE  NamesOf(p) = WithName(NamesOf(front), x.text)
BY NamesType, NamedAppend

LEMMA NamesSlash ==
    ASSUME NEW p \in Strings
    PROVE  Append(p, "/") \in Strings /\ NamesOf(Append(p, "/")) = NamesOf(p)
<1>1. PICK w \in Strings : w = Append(p, "/")
  BY AppendFacts, MaxPathType DEF Strings
<1>2. PICK before : Segments(w) = WithChar(Segments(p), before, "/")
  BY <1>1, SegmentsAppend, MaxPathType
<1>3. CASE before = "/"
  <2>1. Segments(w) = Segments(p)
    BY <1>2, <1>3 DEF WithChar
  <2> QED
    BY <1>1, <2>1, NamesType
<1>4. CASE before # "/"
  <2>1. PICK x \in SegmentSet : x = [slash |-> TRUE, text |-> <<>>]
    <3>1. <<>> \in Strings
      BY DEF Strings
    <3> QED
      BY <3>1 DEF SegmentSet
  <2>2. Segments(w) = Append(Segments(p), x)
    BY <1>2, <1>4, <2>1 DEF WithChar
  <2>3. NamesOf(w) = WithName(NamesOf(p), x.text)
    BY <2>2, NamesEndIn
  <2> QED
    BY <1>1, <2>1, <2>3 DEF WithName
<1> QED
  BY <1>3, <1>4

(* A name behind a slash, or at the start, is one more name.               *)
LEMMA NamesText ==
    ASSUME NEW base \in Strings, Ending(base), NEW text \in Strings, NoSlash(text)
    PROVE  base \o text \in Strings /\ NamesOf(base \o text) = WithName(NamesOf(base), text)
<1>1. \A t \in Strings : base \o t \in Strings
  BY ConcatProperties DEF Strings
<1>2. PICK segs \in Seq(SegmentSet) :
          /\ Named(segs) = NamesOf(base)
          /\ \A before, ch \in Chars \cup {Nul} : ch \in Chars /\ ch # "/" =>
                 \E x \in SegmentSet : x.text = <<ch>> /\ WithChar(Segments(base), before, ch) = Append(segs, x)
  <2>1. CASE base = <<>>
    <3>1. Segments(base) = <<>> /\ <<>> \in Seq(SegmentSet) /\ Named(<<>>) = NamesOf(base)
      BY <2>1, NamesType
    <3>2. ASSUME NEW before, NEW ch \in Chars, ch # "/"
          PROVE  \E x \in SegmentSet : x.text = <<ch>> /\ WithChar(<<>>, before, ch) = Append(<<>>, x)
      <4>1. <<ch>> \in Strings
        BY DEF Strings
      <4>2. PICK x \in SegmentSet : x = [slash |-> FALSE, text |-> <<ch>>]
        BY <4>1 DEF SegmentSet
      <4>3. WithChar(<<>>, before, ch) = <<x>>
        BY <3>2, <4>2 DEF WithChar
      <4>4. <<x>> = Append(<<>>, x)
        OBVIOUS
      <4>5. x.text = <<ch>>
        BY <4>2
      <4> QED
        BY <4>3, <4>4, <4>5
    <3> QED
      BY <3>1, <3>2
  <2>2. CASE base # <<>>
    <3>1. PICK front \in Strings, x \in SegmentSet : EndsIn(base, front, x)
      BY <2>2, LastSegment
    <3>2. PICK segs \in Seq(SegmentSet) : segs = Segments(front) /\ Segments(base) = Append(segs, x)
      BY <3>1, NamesType DEF EndsIn
    <3>3. x.text = <<>>
      BY <2>2, <3>1 DEF Ending, EndsIn
    <3>4. Named(segs) = NamesOf(base)
      <4>1. NamesOf(base) = WithName(NamesOf(front), x.text)
        BY <3>1, NamesEndIn DEF EndsIn
      <4> QED
        BY <3>2, <3>3, <4>1, NamesType DEF WithName
    <3>5. Segments(base) # <<>> /\ Front(Segments(base)) = segs /\ Last(Segments(base)) = x
      BY <3>2, FrontLast
    <3>6. ASSUME NEW before, NEW ch \in Chars, ch # "/"
          PROVE  \E y \in SegmentSet : y.text = <<ch>> /\ WithChar(Segments(base), before, ch) = Append(segs, y)
      <4>1. PICK y \in SegmentSet : y = Longer(x, ch) /\ y.text = Append(x.text, ch)
        BY LongerFacts
      <4>2. WithChar(Segments(base), before, ch) = Append(segs, y)
        BY <3>5, <3>6, <4>1 DEF WithChar
      <4>3. Append(<<>>, ch) = <<ch>>
        OBVIOUS
      <4> QED
        BY <3>3, <4>1, <4>2, <4>3
    <3> QED
      BY <3>4, <3>6
  <2> QED
    BY <2>1, <2>2
<1> DEFINE S == {t \in Strings : NoSlash(t) /\ t # <<>> =>
                     \E x \in SegmentSet : x.text = t /\ Segments(base \o t) = Append(segs, x)}
<1>3. <<>> \in S
  BY DEF Strings
<1>4. ASSUME NEW t \in Strings, NEW ch \in Chars, t \in S PROVE Append(t, ch) \in S
  <2>1. PICK more \in Strings : /\ more = Append(t, ch)
                               /\ base \o more = Append(base \o t, ch)
    <3>1. Append(t, ch) \in Strings
      BY FrontLast DEF Strings
    <3>2. base \o Append(t, ch) = Append(base \o t, ch)
      BY ConcatAppend DEF Strings
    <3> QED
      BY <3>1, <3>2
  <2> SUFFICES ASSUME NoSlash(more)
               PROVE  \E x \in SegmentSet : x.text = more /\ Segments(base \o more) = Append(segs, x)
    BY <2>1
  <2>2. NoSlash(t) /\ ch # "/"
    <3>1. /\ Len(Append(t, ch)) = Len(t) + 1 /\ Len(t) \in Nat
          /\ \A j \in 1 .. Len(t) : Append(t, ch)[j] = t[j]
          /\ Append(t, ch)[Len(t) + 1] = ch
      BY AppendProperties DEF Strings
    <3>2. PICK m \in Nat : m = Len(t)
      BY <3>1
    <3>3. m + 1 \in 1 .. m + 1 /\ \A j \in 1 .. m : j \in 1 .. m + 1
      OBVIOUS
    <3>4. \A j \in 1 .. m + 1 : more[j] # "/"
      BY <2>1, <3>1, <3>2 DEF NoSlash
    <3> QED
      BY <2>1, <3>1, <3>2, <3>3, <3>4 DEF NoSlash
  <2>3. PICK before \in Chars \cup {Nul} : Segments(base \o more) = WithChar(Segments(base \o t), before, ch)
    <3>1. PICK w \in Strings : w = base \o t
      BY <1>1
    <3>2. w # <<>> => Last(w) \in Chars
      <4>1. ASSUME w # <<>> PROVE Last(w) \in Chars
        <5>1. PICK v \in Seq(Chars), c \in Chars : w = Append(v, c)
          BY <4>1, SequenceEmptyOrAppend DEF Strings
        <5> QED
          BY <5>1, FrontLast
      <4> QED
        BY <4>1
    <3>3. Segments(Append(w, ch)) = WithChar(Segments(w), IF w = <<>> THEN Nul ELSE Last(w), ch)
      BY SegmentsAppend
    <3>4. (IF w = <<>> THEN Nul ELSE Last(w)) \in Chars \cup {Nul}
      BY <3>2
    <3> QED
      BY <2>1, <3>1, <3>3, <3>4
  <2>4. CASE t = <<>>
    <3>1. base \o t = base /\ more = <<ch>>
      <4>1. Append(<<>>, ch) = <<ch>>
        OBVIOUS
      <4> QED
        BY <2>1, <2>4, <4>1, ConcatEmptySeq DEF Strings
    <3> QED
      BY <1>2, <2>2, <2>3, <3>1
  <2>5. CASE t # <<>>
    <3>1. PICK x \in SegmentSet : x.text = t /\ Segments(base \o t) = Append(segs, x)
      BY <1>4, <2>2, <2>5
    <3>2. Append(segs, x) # <<>> /\ Front(Append(segs, x)) = segs /\ Last(Append(segs, x)) = x
      BY FrontLast
    <3>3. PICK y \in SegmentSet : y = Longer(x, ch) /\ y.text = Append(x.text, ch)
      BY LongerFacts
    <3>4. WithChar(Append(segs, x), before, ch) = Append(segs, y)
      BY <2>2, <3>2, <3>3 DEF WithChar
    <3> QED
      BY <2>1, <2>3, <3>1, <3>3, <3>4
  <2> QED
    BY <2>4, <2>5
<1>5. text \in S
  <2> HIDE DEF S
  <2>1. \A t \in Seq(Chars), ch \in Chars : t \in S => Append(t, ch) \in S
    BY <1>4 DEF Strings
  <2>2. \A t \in Seq(Chars) : t \in S
    BY <1>3, <2>1, SequenceInduction
  <2> QED
    BY <2>2 DEF Strings
<1>6. CASE text = <<>>
  <2>1. base \o text = base
    BY <1>6, ConcatEmptySeq DEF Strings
  <2> QED
    BY <1>6, <2>1 DEF WithName
<1>7. CASE text # <<>>
  <2>1. PICK x \in SegmentSet : x.text = text /\ Segments(base \o text) = Append(segs, x)
    BY <1>5, <1>7
  <2>2. NamesOf(base \o text) = Named(Append(segs, x))
    BY <1>1, <2>1, NamesType
  <2>3. Named(Append(segs, x)) = WithName(Named(segs), text)
    BY <2>1, NamedAppend
  <2> QED
    BY <1>1, <1>2, <2>2, <2>3
<1> QED
  BY <1>6, <1>7


LEMMA EndingConcat ==
    ASSUME NEW front \in Strings, Ending(front), NEW base \in Strings, Ending(base)
    PROVE  Ending(front \o base)
<1>1. CASE base = <<>>
  <2>1. front \o base = front
    BY <1>1, ConcatEmptySeq DEF Strings
  <2> QED
    BY <2>1
<1>2. CASE base # <<>>
  <2>1. PICK b \in Seq(Chars), ch \in Chars : base = Append(b, ch)
    BY <1>2, SequenceEmptyOrAppend DEF Strings
  <2>2. ch = "/"
    BY <1>2, <2>1, FrontLast DEF Ending
  <2>3. front \o base = Append(front \o b, ch) /\ front \o b \in Seq(Chars)
    BY <2>1, ConcatAppend DEF Strings
  <2>4. Last(Append(front \o b, ch)) = ch
    BY <2>3, FrontLast
  <2> QED
    BY <2>2, <2>3, <2>4 DEF Ending
<1> QED
  BY <1>1, <1>2

LEMMA NamesConcat ==
    ASSUME NEW front \in Strings, Ending(front), NEW p \in Strings
    PROVE  front \o p \in Strings /\ NamesOf(front \o p) = NamesOf(front) \o NamesOf(p)
<1> DEFINE S == {q \in Strings : NamesOf(front \o q) = NamesOf(front) \o NamesOf(q)}
<1>0. \A q \in Strings : front \o q \in Strings
  BY ConcatProperties DEF Strings
<1>1. <<>> \in S
  <2>1. front \o <<>> = front /\ NamesOf(front) \o <<>> = NamesOf(front) /\ NamesOf(<<>>) = <<>> /\ <<>> \in Strings
    BY ConcatEmptySeq, NamesType DEF Strings, Places
  <2> QED
    BY <2>1
<1>2. ASSUME NEW q \in Strings, q \in S PROVE Append(q, "/") \in S
  <2>1. Append(q, "/") \in Strings /\ NamesOf(Append(q, "/")) = NamesOf(q)
    BY NamesSlash
  <2>2. front \o Append(q, "/") = Append(front \o q, "/")
    BY ConcatAppend, MaxPathType DEF Strings
  <2>3. NamesOf(Append(front \o q, "/")) = NamesOf(front \o q)
    BY <1>0, NamesSlash
  <2> QED
    BY <1>2, <2>1, <2>2, <2>3
<1>3. ASSUME NEW base \in Strings, NEW text \in Strings, base \in S, Ending(base), text # <<>>, NoSlash(text)
      PROVE  base \o text \in S
  <2>1. base \o text \in Strings /\ NamesOf(base \o text) = WithName(NamesOf(base), text)
    BY <1>3, NamesText
  <2>2. front \o (base \o text) = (front \o base) \o text
    BY ConcatAssociative DEF Strings
  <2>3. front \o base \in Strings /\ Ending(front \o base)
    BY <1>0, <1>3, EndingConcat
  <2>4. NamesOf((front \o base) \o text) = WithName(NamesOf(front \o base), text)
    BY <1>3, <2>3, NamesText
  <2>5. NamesOf(front \o base) = NamesOf(front) \o NamesOf(base)
    BY <1>3
  <2>6. Append(NamesOf(front) \o NamesOf(base), text) = NamesOf(front) \o Append(NamesOf(base), text)
    <3>1. PICK a \in Seq(Strings), b \in Seq(Strings) : a = NamesOf(front) /\ b = NamesOf(base)
      BY NamesType DEF Places
    <3>2. a \o Append(b, text) = Append(a \o b, text)
      BY ConcatAppend
    <3> QED
      BY <3>1, <3>2
  <2> QED
    BY <1>3, <2>1, <2>2, <2>4, <2>5, <2>6 DEF WithName
<1>4. p \in S
  <2> HIDE DEF S
  <2>1. \A q \in Strings : q \in S => Append(q, "/") \in S
    BY <1>2
  <2>2. \A base, text \in Strings :
            base \in S /\ Ending(base) /\ text # <<>> /\ NoSlash(text) => base \o text \in S
    BY <1>3
  <2> QED
    BY <1>1, <2>1, <2>2, PathInduction
<1> QED
  BY <1>0, <1>4

(* A path is names behind slashes.                                         *)
LEMMA Split ==
    ASSUME NEW p \in Strings
    PROVE  \E base, text \in Strings : p = base \o text /\ Ending(base) /\ NoSlash(text)
<1>1. \A q \in Strings : Append(q, "/") \in Strings
  BY NamesSlash
<1>2. \A base, text \in Strings : base \o text \in Strings
  BY ConcatProperties DEF Strings
<1>3. <<>> \in Strings
  BY DEF Strings
<1> QED
  BY <1>1, <1>2, <1>3, PathInduction

-----------------------------------------------------------------------------
(* What normalize_path() has in its buffer leads where the path leads.     *)

NoDouble(text) == \A j \in 1 .. Len(text) - 1 : text[j] = "/" => text[j + 1] # "/"

Held(s, text) ==
    /\ ~ s.under /\ s.idx = Len(text) /\ NoDouble(text)
    /\ \A j \in 1 .. Len(text) : s.out[j - 1] = text[j]

Ended(s) == s.out[s.idx] = Nul

LEMMA ConcatValues ==
    ASSUME NEW text \in Strings, NEW more \in Strings, NEW n \in Nat, NEW m \in Nat,
           n = Len(text), m = Len(more)
    PROVE  /\ text \o more \in Strings /\ Len(text \o more) = n + m
           /\ \A j \in 1 .. n + m : (text \o more)[j] = IF j <= n THEN text[j] ELSE more[j - n]
<1>1. PICK w : w = text \o more
  OBVIOUS
<1>2. /\ w \in Seq(Chars) /\ Len(w) = Len(text) + Len(more)
      /\ \A j \in 1 .. Len(text) + Len(more) : w[j] = IF j <= Len(text) THEN text[j] ELSE more[j - Len(text)]
  BY <1>1, ConcatProperties DEF Strings
<1>3. w \in Strings /\ Len(w) = n + m
  BY <1>2 DEF Strings
<1>4. ASSUME NEW j \in 1 .. n + m PROVE w[j] = IF j <= n THEN text[j] ELSE more[j - n]
  BY <1>2
<1> QED
  BY <1>1, <1>3, <1>4

LEMMA NoDoubleText ==
    ASSUME NEW text \in Strings, NEW more \in Strings, NoDouble(text),
           NoSlash(more) \/ (more = <<"/">> /\ (text = <<>> \/ Last(text) # "/"))
    PROVE  text \o more \in Strings /\ NoDouble(text \o more)
<1>1. PICK n \in Nat, m \in Nat : n = Len(text) /\ m = Len(more) /\ (text = <<>> <=> n = 0)
  BY EmptySeq DEF Strings
<1>2. PICK w \in Strings : /\ w = text \o more /\ Len(w) = n + m
                           /\ \A j \in 1 .. n + m : w[j] = IF j <= n THEN text[j] ELSE more[j - n]
  <2>1. /\ text \o more \in Strings /\ Len(text \o more) = n + m
        /\ \A j \in 1 .. n + m : (text \o more)[j] = IF j <= n THEN text[j] ELSE more[j - n]
    BY <1>1, ConcatValues
  <2> QED
    BY <2>1
<1>3. ASSUME NEW j \in 1 .. n + m - 1, w[j] = "/", w[j + 1] = "/" PROVE FALSE
  <2>1. CASE j + 1 <= n
    <3>1. text[j] = "/" /\ text[j + 1] = "/" /\ j \in 1 .. n - 1
      BY <1>2, <1>3, <2>1
    <3> QED
      BY <1>1, <3>1 DEF NoDouble
  <2>2. CASE j + 1 > n
    <3>1. more[j + 1 - n] = "/" /\ j + 1 - n \in 1 .. m
      BY <1>2, <1>3, <2>2
    <3>2. more = <<"/">> /\ (text = <<>> \/ Last(text) # "/") /\ m = 1
      BY <1>1, <3>1 DEF NoSlash
    <3>3. j = n /\ n # 0
      BY <1>1, <2>2, <3>2
    <3>4. w[j] = text[n] /\ Last(text) # "/"
      BY <1>1, <1>2, <3>2, <3>3
    <3> QED
      BY <1>1, <1>3, <3>4 DEF Last
  <2> QED
    BY <2>1, <2>2
<1> QED
  BY <1>2, <1>3 DEF NoDouble

LEMMA AppendHeld ==
    ASSUME NEW s \in PathStates, NEW t \in PathStates, NEW text \in Strings, NEW more \in Strings,
           Held(s, text), Len(text) + Len(more) < MaxPath, NoDouble(text \o more),
           ~ t.under, t.idx = Len(text) + Len(more), t.out[t.idx] = Nul,
           \A o \in Offsets : t.out[o] = IF o \in s.idx .. s.idx + Len(more) - 1 THEN more[o - s.idx + 1]
                                          ELSE IF o = s.idx + Len(more) THEN Nul ELSE s.out[o]
    PROVE  text \o more \in Strings /\ Held(t, text \o more) /\ Ended(t)
<1>1. PICK n \in Nat, m \in Nat : n = Len(text) /\ m = Len(more) /\ s.idx = n /\ t.idx = n + m /\ n + m < MaxPath
  BY DEF Strings, Held
<1>2. PICK w \in Strings : /\ w = text \o more /\ Len(w) = n + m
                           /\ \A j \in 1 .. n + m : w[j] = IF j <= n THEN text[j] ELSE more[j - n]
  <2>1. /\ text \o more \in Strings /\ Len(text \o more) = n + m
        /\ \A j \in 1 .. n + m : (text \o more)[j] = IF j <= n THEN text[j] ELSE more[j - n]
    BY <1>1, ConcatValues
  <2> QED
    BY <2>1
<1>3. ASSUME NEW j \in 1 .. n + m PROVE t.out[j - 1] = w[j]
  <2>1. j - 1 \in Offsets
    BY <1>1, MaxPathType DEF Offsets
  <2>2. t.out[j - 1] = IF j - 1 \in n .. n + m - 1 THEN more[(j - 1) - n + 1]
                       ELSE IF j - 1 = n + m THEN Nul ELSE s.out[j - 1]
    BY <1>1, <2>1
  <2>3. CASE j <= n
    <3>1. j - 1 \notin n .. n + m - 1 /\ j - 1 # n + m /\ j \in 1 .. n
      BY <2>3
    <3>2. s.out[j - 1] = text[j]
      BY <1>1, <3>1 DEF Held
    <3> QED
      BY <1>2, <2>2, <2>3, <3>1, <3>2
  <2>4. CASE j > n
    <3>1. j - 1 \in n .. n + m - 1 /\ (j - 1) - n + 1 = j - n /\ ~ (j <= n)
      BY <2>4
    <3> QED
      BY <1>2, <2>2, <3>1
  <2> QED
    BY <2>3, <2>4
<1> QED
  BY <1>1, <1>2, <1>3 DEF Held, Ended


LEMMA SlashedHeld ==
    ASSUME NEW s \in PathStates, NEW text \in Strings, Held(s, text), text # <<>> => Ended(s),
           NEW x \in SegmentSet, x.slash, Len(text) + 1 < MaxPath
    PROVE  \E y \in Strings : /\ Slashed(s, x) \in PathStates /\ Held(Slashed(s, x), Append(y, "/"))
                              /\ Ended(Slashed(s, x)) /\ NamesOf(y) = NamesOf(text)
                              /\ Len(y) <= Len(text) /\ (y = <<>> \/ Last(y) # "/")
<1>1. PICK n \in Nat : n = Len(text) /\ s.idx = n /\ (text = <<>> <=> n = 0) /\ n + 1 < MaxPath
  BY EmptySeq DEF Strings, Held
<1>2. n # 0 => s.out[n - 1] = Last(text) /\ Last(text) = text[n]
  <2>1. n # 0 => n \in 1 .. n
    OBVIOUS
  <2> QED
    BY <1>1, <2>1 DEF Held, Last
<1>3. CASE s.idx = 0 \/ s.out[s.idx - 1] # "/"
  <2>1. text = <<>> \/ Last(text) # "/"
    BY <1>1, <1>2, <1>3
  <2>2. PICK slash \in Strings : slash = <<"/">> /\ Len(slash) = 1
    <3>1. <<"/">> \in Seq(Chars) /\ Len(<<"/">>) = 1
      BY MaxPathType
    <3> QED
      BY <3>1 DEF Strings
  <2>3. text \o slash = Append(text, "/") /\ NoDouble(text \o slash)
    <3>1. text \o slash = Append(text, "/")
      BY <2>2, AppendIsConcat, MaxPathType DEF Strings
    <3>2. NoDouble(text)
      BY DEF Held
    <3> QED
      BY <2>1, <2>2, <3>1, <3>2, NoDoubleText
  <2>4. PICK size \in Int : size = MaxPath - s.idx /\ size > 1
    BY <1>1, MaxPathType
  <2>5. PICK t \in PathStates : t = Slashed(s, x) /\ t = Put(s, slash, size)
    <3>1. Slashed(s, x) = Put(s, slash, size)
      BY <1>3, <2>2, <2>4 DEF Slashed
    <3>2. Put(s, slash, size) \in PathStates
      BY PutFacts
    <3> QED
      BY <3>1, <3>2
  <2>6. PICK m \in Nat :
            /\ m = Len(slash) /\ t.idx = s.idx + m /\ t.under = s.under
            /\ \A o \in Offsets : t.out[o] = IF o \in s.idx .. s.idx + m - 1 THEN slash[o - s.idx + 1]
                                              ELSE IF o = s.idx + m THEN Nul ELSE s.out[o]
    <3>1. PICK m : m = Len(Copied(slash, size))
      OBVIOUS
    <3>2. /\ m \in Nat /\ (Len(slash) < size => m = Len(slash))
          /\ Put(s, slash, size).idx = s.idx + m /\ Put(s, slash, size).under = s.under
          /\ \A o \in Offsets : Put(s, slash, size).out[o] =
                 IF o \in s.idx .. s.idx + m - 1 THEN slash[o - s.idx + 1]
                 ELSE IF o = s.idx + m THEN Nul ELSE s.out[o]
      BY <2>4, <3>1, PutValues
    <3>3. Len(slash) < size
      BY <2>2, <2>4
    <3> QED
      BY <2>5, <3>2, <3>3
  <2>7. m = 1 /\ t.idx = n + 1 /\ t.idx \in Offsets /\ t.idx \notin s.idx .. s.idx + m - 1
    BY <1>1, <2>2, <2>6, MaxPathType DEF Offsets
  <2>8. t.out[t.idx] = Nul /\ ~ t.under
    BY <2>6, <2>7 DEF Held
  <2>9. Held(t, text \o slash) /\ Ended(t)
    <3>1. Len(text) + Len(slash) < MaxPath /\ t.idx = Len(text) + Len(slash)
      BY <1>1, <2>2, <2>7
    <3> QED
      BY <2>3, <2>6, <2>8, <3>1, AppendHeld
  <2>10. Held(Slashed(s, x), Append(text, "/")) /\ Ended(Slashed(s, x)) /\ Slashed(s, x) \in PathStates
    BY <2>3, <2>5, <2>9
  <2> QED
    BY <1>1, <2>1, <2>10
<1>4. CASE ~ (s.idx = 0 \/ s.out[s.idx - 1] # "/")
  <2>1. Slashed(s, x) = s
    BY <1>4 DEF Slashed
  <2>2. text # <<>> /\ Last(text) = "/" /\ n # 0 /\ text[n] = "/"
    BY <1>1, <1>2, <1>4
  <2>3. PICK y \in Strings : text = Append(y, "/")
    <3>1. PICK y \in Seq(Chars), ch \in Chars : text = Append(y, ch)
      BY <2>2, SequenceEmptyOrAppend DEF Strings
    <3>2. Last(text) = ch
      BY <3>1, FrontLast
    <3> QED
      BY <2>2, <3>1, <3>2 DEF Strings
  <2>4. PICK k \in Nat : k = Len(y) /\ n = k + 1 /\ (y = <<>> <=> k = 0) /\ \A j \in 1 .. k : y[j] = text[j]
    <3>1. PICK k \in Nat : k = Len(y) /\ (y = <<>> <=> k = 0)
      BY EmptySeq DEF Strings
    <3>2. /\ Len(Append(y, "/")) = Len(y) + 1
          /\ \A j \in 1 .. Len(y) : Append(y, "/")[j] = y[j]
      BY AppendProperties, MaxPathType DEF Strings
    <3> QED
      BY <1>1, <2>3, <3>1, <3>2
  <2>5. y = <<>> \/ Last(y) # "/"
    <3> SUFFICES ASSUME k # 0 PROVE Last(y) # "/"
      BY <2>4
    <3>1. k \in 1 .. n - 1 /\ k + 1 = n /\ k \in 1 .. k
      BY <2>4
    <3>2. text[k] # "/"
      BY <1>1, <2>2, <3>1 DEF Held, NoDouble
    <3> QED
      BY <2>4, <3>1, <3>2 DEF Last
  <2>6. NamesOf(y) = NamesOf(text) /\ Len(y) <= Len(text)
    BY <1>1, <2>3, <2>4, NamesSlash
  <2> QED
    BY <2>1, <2>2, <2>3, <2>5, <2>6
<1> QED
  BY <1>3, <1>4

LEMMA TextHeld ==
    ASSUME NEW s \in PathStates, NEW base \in Strings, Held(s, base), Ending(base),
           NEW text \in Strings, text \notin Dots, NoSlash(text), Len(base) + Len(text) < MaxPath
    PROVE  /\ WithText(s, text) \in PathStates /\ base \o text \in Strings
           /\ Held(WithText(s, text), base \o text) /\ Ended(WithText(s, text))
<1>1. PICK n \in Nat, m \in Nat : n = Len(base) /\ m = Len(text) /\ s.idx = n /\ n + m < MaxPath
  BY DEF Strings, Held
<1>2. PICK size \in Int : size = m + 1 /\ Lesser(m + 1, MaxPath - s.idx) = size
  <2>1. m + 1 <= MaxPath - n /\ m + 1 \in Int /\ MaxPath - n \in Int
    BY <1>1, MaxPathType
  <2> QED
    BY <1>1, <2>1 DEF Lesser
<1>3. PICK t \in PathStates : t = WithText(s, text) /\ t = Put(s, text, size)
  <2>1. WithText(s, text) = Put(s, text, size)
    BY <1>1, <1>2 DEF WithText, Dots
  <2>2. Put(s, text, size) \in PathStates
    BY PutFacts
  <2> QED
    BY <2>1, <2>2
<1>4. /\ t.idx = s.idx + m /\ t.under = s.under
      /\ \A o \in Offsets : t.out[o] = IF o \in s.idx .. s.idx + m - 1 THEN text[o - s.idx + 1]
                                        ELSE IF o = s.idx + m THEN Nul ELSE s.out[o]
  <2>1. PICK k : k = Len(Copied(text, size))
    OBVIOUS
  <2>2. size >= 1
    BY <1>2
  <2>3. /\ k \in Nat /\ (Len(text) < size => k = Len(text))
        /\ Put(s, text, size).idx = s.idx + k /\ Put(s, text, size).under = s.under
        /\ \A o \in Offsets : Put(s, text, size).out[o] =
               IF o \in s.idx .. s.idx + k - 1 THEN text[o - s.idx + 1]
               ELSE IF o = s.idx + k THEN Nul ELSE s.out[o]
    BY <2>1, <2>2, PutValues
  <2>4. k = m
    BY <1>1, <1>2, <2>3
  <2> QED
    BY <1>3, <2>3, <2>4
<1>5. t.idx = n + m /\ t.idx \in Offsets /\ t.idx \notin s.idx .. s.idx + m - 1
  BY <1>1, <1>4, MaxPathType DEF Offsets
<1>6. t.out[t.idx] = Nul /\ ~ t.under
  BY <1>4, <1>5 DEF Held
<1>7. NoDouble(base \o text) /\ base \o text \in Strings
  BY NoDoubleText DEF Held
<1>8. Held(t, base \o text) /\ Ended(t)
  <2>1. Len(base) + Len(text) < MaxPath /\ t.idx = Len(base) + Len(text)
    BY <1>1, <1>5
  <2>2. \A o \in Offsets : t.out[o] = IF o \in s.idx .. s.idx + Len(text) - 1 THEN text[o - s.idx + 1]
                                       ELSE IF o = s.idx + Len(text) THEN Nul ELSE s.out[o]
    BY <1>1, <1>4
  <2> QED
    BY <1>6, <1>7, <2>1, <2>2, AppendHeld
<1> QED
  BY <1>3, <1>7, <1>8


(* Going back stops at the last slash on the way.                          *)
LEMMA BackFromStops ==
    ASSUME NEW out, NEW i \in Nat, NEW k \in 0 .. i, k = 0 \/ out[k] = "/",
           \A j \in k + 1 .. i : out[j] # "/"
    PROVE  BackFrom(out, i) = k
<1>1. CASE i = 0
  BY <1>1 DEF BackFrom
<1>2. CASE i # 0
  <2> DEFINE T == {0} \cup {j \in 1 .. i : out[j] = "/"}
  <2>1. BackFrom(out, i) = Max(T)
    BY <1>2 DEF BackFrom
  <2>2. T \subseteq 0 .. i /\ 0 \in T /\ k \in T
    OBVIOUS
  <2>3. \A t \in T : t <= k
    <3> SUFFICES ASSUME NEW t \in T, t > k PROVE FALSE
      OBVIOUS
    <3>1. t \in 1 .. i /\ out[t] = "/" /\ t \in k + 1 .. i
      OBVIOUS
    <3> QED
      BY <3>1
  <2> HIDE DEF T
  <2>4. Max(T) \in T /\ \A t \in T : Max(T) >= t
    BY <2>2, MaxFacts
  <2>5. Max(T) \in 0 .. i /\ Max(T) <= k /\ Max(T) >= k
    BY <2>2, <2>3, <2>4
  <2> QED
    BY <2>1, <2>5
<1> QED
  BY <1>1, <1>2

(* "..": back over a name to what is in front of it.                       *)
LEMMA UpHeld ==
    ASSUME NEW s \in PathStates, NEW y \in Strings, y # <<>>, Last(y) # "/",
           Held(s, Append(y, "/")), Ended(s), Len(y) + 1 < MaxPath
    PROVE  /\ Up(s) \in PathStates /\ NamesOf(y) # <<>>
           /\ \E c \in Strings : /\ Held(Up(s), c) /\ Ended(Up(s)) /\ Len(c) <= Len(y)
                                 /\ NamesOf(c) = Front(NamesOf(y))
<1>1. PICK n \in Nat : n = Len(y) /\ n >= 1 /\ n + 1 < MaxPath
  BY EmptySeq DEF Strings
<1>2. PICK w \in Strings : /\ w = Append(y, "/") /\ Len(w) = n + 1 /\ w[n + 1] = "/"
                           /\ \A j \in 1 .. n : w[j] = y[j]
  <2>1. /\ Append(y, "/") \in Seq(Chars) /\ Len(Append(y, "/")) = Len(y) + 1
        /\ \A j \in 1 .. Len(y) : Append(y, "/")[j] = y[j]
        /\ Append(y, "/")[Len(y) + 1] = "/"
    BY AppendProperties, MaxPathType DEF Strings
  <2> QED
    BY <1>1, <2>1 DEF Strings
<1>3. /\ s.idx = n + 1 /\ s.out[n + 1] = Nul /\ ~ s.under /\ NoDouble(w)
      /\ \A j \in 1 .. n + 1 : s.out[j - 1] = w[j]
  BY <1>2 DEF Held, Ended
<1>4. PICK base \in Strings, text \in Strings : y = base \o text /\ Ending(base) /\ NoSlash(text)
  BY Split
<1>5. PICK b \in Nat, m \in Nat : /\ b = Len(base) /\ m = Len(text) /\ n = b + m
                                  /\ \A j \in 1 .. b + m : y[j] = IF j <= b THEN base[j] ELSE text[j - b]
  <2>1. PICK b \in Nat, m \in Nat : b = Len(base) /\ m = Len(text)
    BY DEF Strings
  <2>2. /\ Len(base \o text) = b + m
        /\ \A j \in 1 .. b + m : (base \o text)[j] = IF j <= b THEN base[j] ELSE text[j - b]
    BY <2>1, ConcatValues
  <2> QED
    BY <1>1, <1>4, <2>1, <2>2
<1>6. text # <<>>
  <2> SUFFICES ASSUME text = <<>> PROVE FALSE
    OBVIOUS
  <2>1. y = base
    BY <1>4, ConcatEmptySeq DEF Strings
  <2> QED
    BY <1>4, <2>1 DEF Ending
<1>7. PICK c \in Strings, k \in Nat :
          /\ k = Len(c) /\ NamesOf(c) = NamesOf(base) /\ k <= b /\ b <= k + 1
          /\ (k = 0 \/ w[k + 1] = "/") /\ \A j \in 1 .. k : c[j] = w[j]
  <2>1. CASE base = <<>>
    <3>1. b = 0
      BY <1>5, <2>1
    <3>2. 0 = Len(base) /\ 0 <= b /\ b <= 0 + 1 /\ 0 = 0 /\ \A j \in 1 .. 0 : base[j] = w[j]
      BY <1>5, <3>1
    <3> QED
      BY <3>2
  <2>2. CASE base # <<>>
    <3>1. PICK c \in Strings : base = Append(c, "/")
      <4>1. PICK c \in Seq(Chars), ch \in Chars : base = Append(c, ch)
        BY <2>2, SequenceEmptyOrAppend DEF Strings
      <4>2. Last(base) = ch
        BY <4>1, FrontLast
      <4> QED
        BY <1>4, <2>2, <4>1, <4>2 DEF Strings, Ending
    <3>2. PICK k \in Nat : /\ k = Len(c) /\ b = k + 1 /\ base[k + 1] = "/" /\ \A j \in 1 .. k : c[j] = base[j]
      <4>1. PICK k \in Nat : k = Len(c)
        BY DEF Strings
      <4>2. /\ Len(Append(c, "/")) = Len(c) + 1
            /\ \A j \in 1 .. Len(c) : Append(c, "/")[j] = c[j]
            /\ Append(c, "/")[Len(c) + 1] = "/"
        BY AppendProperties, MaxPathType DEF Strings
      <4> QED
        BY <1>5, <3>1, <4>1, <4>2
    <3>3. w[k + 1] = "/" /\ \A j \in 1 .. k : c[j] = w[j]
      <4>1. ASSUME NEW j \in 1 .. k + 1 PROVE w[j] = base[j]
        <5>1. j \in 1 .. n /\ j \in 1 .. b + m /\ j <= b
          BY <1>5, <3>2
        <5> QED
          BY <1>2, <1>5, <5>1
      <4> QED
        BY <3>2, <4>1
    <3>4. NamesOf(c) = NamesOf(base)
      BY <3>1, NamesSlash
    <3> QED
      BY <3>2, <3>3, <3>4
  <2> QED
    BY <2>1, <2>2
<1>8. NamesOf(y) = Append(NamesOf(base), text) /\ NamesOf(y) # <<>> /\ NamesOf(c) = Front(NamesOf(y))
  <2>1. NamesOf(y) = Append(NamesOf(base), text)
    BY <1>4, <1>6, NamesText DEF WithName
  <2>2. PICK names \in Places : names = NamesOf(base)
    BY NamesType
  <2>3. Append(names, text) # <<>> /\ Front(Append(names, text)) = names
    BY FrontLast DEF Places
  <2> QED
    BY <1>7, <2>1, <2>2, <2>3
<1>9. BackFrom(s.out, SkipSlash(s.out, BackFrom(s.out, SkipSlash(s.out, s.idx)))) = k
  <2>1. SkipSlash(s.out, s.idx) = n + 1
    BY <1>3, MaxPathType DEF SkipSlash, Chars
  <2>2. BackFrom(s.out, n + 1) = n
    <3>1. s.out[n] = "/" /\ s.out[n + 1] # "/"
      <4>1. n + 1 \in 1 .. n + 1 /\ (n + 1) - 1 = n
        BY <1>1
      <4> QED
        BY <1>2, <1>3, <4>1 DEF Nul
    <3>2. n + 1 \in Nat /\ n \in 0 .. n + 1 /\ \A j \in n + 1 .. n + 1 : s.out[j] # "/"
      BY <1>1, <3>1
    <3> QED
      BY <3>1, <3>2, BackFromStops
  <2>3. SkipSlash(s.out, n) = n - 1
    <3>1. s.out[n] = "/"
      <4>1. n + 1 \in 1 .. n + 1 /\ (n + 1) - 1 = n
        BY <1>1
      <4> QED
        BY <1>2, <1>3, <4>1
    <3> QED
      BY <3>1 DEF SkipSlash
  <2>4. BackFrom(s.out, n - 1) = k
    <3>1. m >= 1
      BY <1>5, <1>6, EmptySeq DEF Strings
    <3>2. n - 1 \in Nat /\ k \in 0 .. n - 1
      BY <1>1, <1>5, <1>7, <3>1
    <3>3. k = 0 \/ s.out[k] = "/"
      <4>1. k + 1 \in 1 .. n + 1 /\ (k + 1) - 1 = k
        BY <3>2
      <4> QED
        BY <1>3, <1>7, <4>1
    <3>4. ASSUME NEW j \in k + 1 .. n - 1 PROVE s.out[j] # "/"
      <4>1. j + 1 \in 1 .. n + 1 /\ j + 1 \in 1 .. n /\ (j + 1) - 1 = j /\ j + 1 \in 1 .. b + m
            /\ ~ (j + 1 <= b) /\ j + 1 - b \in 1 .. m
        BY <1>5, <1>7, <3>2
      <4>2. s.out[j] = y[j + 1]
        BY <1>2, <1>3, <4>1
      <4>3. y[j + 1] = text[j + 1 - b]
        BY <1>5, <4>1
      <4> QED
        BY <1>4, <1>5, <4>1, <4>2, <4>3 DEF NoSlash
    <3> QED
      BY <3>2, <3>3, <3>4, BackFromStops
  <2> QED
    BY <2>1, <2>2, <2>3, <2>4
<1>10. PICK t \in PathStates : t = Up(s)
  BY UpFacts
<1>11. t.idx = k /\ ~ t.under /\ t.out = [s.out EXCEPT ![k] = Nul]
  <2>1. PICK out : out = [s.out EXCEPT ![k] = Nul]
    OBVIOUS
  <2>2. PICK under \in BOOLEAN : under = (s.under \/ k < 0)
    OBVIOUS
  <2>3. ~ under
    <3>1. ~ (k < 0)
      OBVIOUS
    <3> QED
      BY <1>3, <2>2, <3>1, Zenon
  <2>4. Up(s) = [s EXCEPT !.idx = k, !.out = out, !.under = under]
    BY <1>9, <2>1, <2>2 DEF Up
  <2>5. Up(s).idx = k /\ Up(s).out = out /\ Up(s).under = under
    BY <2>4 DEF PathStates
  <2> QED
    BY <1>10, <2>1, <2>3, <2>5
<1>12. k \in Offsets /\ s.out \in [Offsets -> Letters] /\ k <= n
  <2>1. k <= n
    BY <1>5, <1>7
  <2>2. k \in 0 .. MaxPath - 1
    BY <1>1, <2>1, MaxPathType
  <2> QED
    BY <2>1, <2>2, MaxPathType DEF PathStates
<1>13. t.out[k] = Nul /\ \A o \in Offsets : o # k => t.out[o] = s.out[o]
  BY <1>11, <1>12
<1>14. Held(t, c)
  <2>1. ASSUME NEW j \in 1 .. k PROVE t.out[j - 1] = c[j]
    <3>1. j \in 1 .. n + 1 /\ j - 1 \in 0 .. MaxPath - 1 /\ j - 1 # k
      BY <1>1, <1>12, MaxPathType
    <3> QED
      BY <1>3, <1>7, <1>13, <3>1, MaxPathType
  <2>2. NoDouble(c)
    <3>1. ASSUME NEW j \in 1 .. k - 1, c[j] = "/" PROVE c[j + 1] # "/"
      <4>1. j \in 1 .. n /\ j \in 1 .. k /\ j + 1 \in 1 .. k /\ j \in 1 .. (n + 1) - 1
        BY <1>12
      <4> QED
        BY <1>2, <1>3, <1>7, <3>1, <4>1 DEF NoDouble
    <3> QED
      BY <1>7, <3>1 DEF NoDouble
  <2> QED
    BY <1>7, <1>11, <2>1, <2>2 DEF Held
<1> QED
  BY <1>1, <1>7, <1>8, <1>10, <1>11, <1>12, <1>13, <1>14 DEF Ended


(* A turn of the loop: the names in the buffer follow the segment.         *)
LEMMA TurnHeld ==
    ASSUME NEW s \in PathStates, NEW held \in Strings, Held(s, held), held # <<>> => Ended(s),
           NEW x \in SegmentSet, NoSlash(x.text), x.slash \/ (held = <<>> /\ x.text \notin Dots),
           NEW limit \in Nat, limit < MaxPath, Len(held) + Len(x.text) <= limit,
           x.slash => Len(held) + 1 + Len(x.text) <= limit,
           x.text = <<".", ".">> => NamesOf(held) # <<>>
    PROVE  \E c \in Strings :
               /\ Turn(s, x) \in PathStates /\ Held(Turn(s, x), c) /\ Ended(Turn(s, x)) /\ Len(c) <= limit
               /\ NamesOf(c) = IF x.text = <<>> THEN NamesOf(held) ELSE Enter(NamesOf(held), x.text)
<1>1. PICK text \in Strings, n \in Nat, m \in Nat : text = x.text /\ n = Len(held) /\ m = Len(text)
  <2>1. x.text \in Strings /\ Len(held) \in Nat /\ Len(x.text) \in Nat
    BY DEF SegmentSet, Strings
  <2> QED
    BY <2>1
<1>2. PICK names \in Places : names = NamesOf(held)
  BY NamesType
<1>3. ASSUME NEW t \in PathStates, NEW base \in Strings, Held(t, base), Ending(base), NamesOf(base) = names,
             text \notin Dots, Len(base) + m <= limit
      PROVE  /\ WithText(t, text) \in PathStates /\ Held(WithText(t, text), base \o text)
             /\ Ended(WithText(t, text)) /\ base \o text \in Strings /\ Len(base \o text) <= limit
             /\ NamesOf(base \o text) = IF text = <<>> THEN names ELSE Enter(names, text)
  <2>1. Len(base) \in Nat /\ Len(base) + Len(text) < MaxPath
    BY <1>1, <1>3, MaxPathType DEF Strings
  <2>2. /\ WithText(t, text) \in PathStates /\ base \o text \in Strings
        /\ Held(WithText(t, text), base \o text) /\ Ended(WithText(t, text))
    BY <1>1, <1>3, <2>1, TextHeld
  <2>3. Len(base \o text) <= limit
    <3>1. Len(base \o text) = Len(base) + m
      BY <1>1, <2>1, ConcatValues
    <3> QED
      BY <1>3, <3>1
  <2>4. NamesOf(base \o text) = WithName(names, text)
    BY <1>1, <1>3, NamesText
  <2>5. text # <<>> => Enter(names, text) = Append(names, text)
    BY <1>3, EnterType
  <2> QED
    BY <2>2, <2>3, <2>4, <2>5 DEF WithName
<1>4. CASE x.slash
  <2>1. n + 1 + m <= limit
    BY <1>1, <1>4
  <2>2. PICK y \in Strings : /\ Slashed(s, x) \in PathStates /\ Held(Slashed(s, x), Append(y, "/"))
                             /\ Ended(Slashed(s, x)) /\ NamesOf(y) = names
                             /\ Len(y) <= n /\ (y = <<>> \/ Last(y) # "/")
    <3>0. n + 1 < MaxPath
      BY <2>1, MaxPathType
    <3>1. Len(held) + 1 < MaxPath
      BY <1>1, <3>0
    <3> QED
      BY <1>1, <1>2, <1>4, <3>1, SlashedHeld
  <2>3. PICK t \in PathStates : t = Slashed(s, x) /\ Turn(s, x) = WithText(t, text)
    BY <1>1, <2>2 DEF Turn
  <2>4. PICK base \in Strings : /\ base = Append(y, "/") /\ Len(base) = Len(y) + 1 /\ Len(y) \in Nat
                               /\ Last(base) = "/" /\ Ending(base) /\ NamesOf(base) = names
    <3>1. /\ Append(y, "/") \in Strings /\ Len(Append(y, "/")) = Len(y) + 1 /\ Last(Append(y, "/")) = "/"
          /\ Len(y) \in Nat
      BY FrontLast, MaxPathType DEF Strings
    <3>2. NamesOf(Append(y, "/")) = names
      BY <2>2, NamesSlash
    <3> QED
      BY <3>1, <3>2 DEF Ending
  <2>5. Len(base) + m <= limit /\ Len(base) <= limit /\ Len(y) <= limit
    BY <2>1, <2>2, <2>4
  <2>6. CASE text = <<".">>
    <3>1. WithText(t, text) = t /\ text # <<>>
      BY <2>6 DEF WithText
    <3>2. Enter(names, text) = names
      BY <2>6, EnterType
    <3> QED
      BY <1>1, <1>2, <2>2, <2>3, <2>4, <2>5, <3>1, <3>2
  <2>7. CASE text = <<".", ".">>
    <3>1. WithText(t, text) = Up(t) /\ text # <<>>
      <4>1. <<".", ".">> # <<".">> /\ <<".", ".">> # <<>>
        OBVIOUS
      <4> QED
        BY <2>7, <4>1 DEF WithText
    <3>2. names # <<>>
      BY <1>1, <1>2, <2>7
    <3>3. y # <<>> /\ Last(y) # "/"
      BY <2>2, <3>2, NamesType
    <3>4. Len(y) + 1 < MaxPath
      BY <2>4, <2>5, MaxPathType
    <3>5. /\ Up(t) \in PathStates
          /\ \E c \in Strings : /\ Held(Up(t), c) /\ Ended(Up(t)) /\ Len(c) <= Len(y)
                                /\ NamesOf(c) = Front(NamesOf(y))
      BY <2>2, <2>3, <3>3, <3>4, UpHeld
    <3>6. PICK c \in Strings : /\ Held(Up(t), c) /\ Ended(Up(t)) /\ Len(c) <= Len(y)
                               /\ NamesOf(c) = Front(NamesOf(y))
      BY <3>5
    <3>7. Enter(names, text) = Front(names)
      BY <2>7, <3>2, EnterType
    <3>8. Len(c) <= limit
      <4>1. Len(c) \in Nat
        BY DEF Strings
      <4> QED
        BY <2>4, <2>5, <3>6, <4>1
    <3>9. NamesOf(c) = Enter(names, text)
      BY <2>2, <3>6, <3>7
    <3> QED
      BY <1>1, <1>2, <2>3, <3>1, <3>5, <3>6, <3>8, <3>9
  <2>8. CASE text \notin Dots
    <3>1. /\ WithText(t, text) \in PathStates /\ Held(WithText(t, text), base \o text)
          /\ Ended(WithText(t, text)) /\ base \o text \in Strings /\ Len(base \o text) <= limit
          /\ NamesOf(base \o text) = IF text = <<>> THEN names ELSE Enter(names, text)
      BY <1>3, <2>2, <2>3, <2>4, <2>5, <2>8
    <3> QED
      BY <1>1, <1>2, <2>3, <3>1
  <2> QED
    BY <2>6, <2>7, <2>8 DEF Dots
<1>5. CASE ~ x.slash
  <2>1. held = <<>> /\ text \notin Dots /\ n + m <= limit
    BY <1>1, <1>5
  <2>2. Turn(s, x) = WithText(s, text)
    <3>1. Slashed(s, x) = s
      BY <1>5 DEF Slashed
    <3> QED
      BY <1>1, <3>1 DEF Turn
  <2>3. Ending(held)
    BY <2>1 DEF Ending
  <2>4. /\ WithText(s, text) \in PathStates /\ Held(WithText(s, text), held \o text)
        /\ Ended(WithText(s, text)) /\ held \o text \in Strings /\ Len(held \o text) <= limit
        /\ NamesOf(held \o text) = IF text = <<>> THEN names ELSE Enter(names, text)
    BY <1>1, <1>2, <1>3, <2>1, <2>3
  <2> QED
    BY <1>1, <1>2, <2>2, <2>4
<1> QED
  BY <1>4, <1>5

(* No ".." on the way from a place asks for the parent of the root.        *)
NoClimb(place, names) == \A n \in 1 .. Len(names) :
                             names[n] = <<".", ".">> => Walk(place, SubSeq(names, 1, n - 1)) # <<>>

LEMMA NoClimbAppend ==
    ASSUME NEW place, NEW names \in Places, NEW name \in Strings
    PROVE  NoClimb(place, Append(names, name)) <=>
               NoClimb(place, names) /\ (name = <<".", ".">> => Walk(place, names) # <<>>)
<1>1. PICK n \in Nat : n = Len(names)
  BY DEF Places
<1>2. PICK w \in Places : /\ w = Append(names, name) /\ Len(w) = n + 1 /\ w[n + 1] = name
                          /\ (\A i \in 1 .. n : w[i] = names[i]) /\ Front(w) = names
  <2>1. /\ Append(names, name) \in Places /\ Len(Append(names, name)) = Len(names) + 1
        /\ \A i \in 1 .. Len(names) : Append(names, name)[i] = names[i]
        /\ Append(names, name)[Len(names) + 1] = name
    BY AppendProperties DEF Places
  <2>2. Front(Append(names, name)) = names
    BY FrontLast DEF Places
  <2> QED
    BY <1>1, <2>1, <2>2
<1>3. ASSUME NEW i \in 1 .. n PROVE SubSeq(w, 1, i - 1) = SubSeq(names, 1, i - 1)
  <2>1. PICK k \in Nat : k = i - 1 /\ k <= n /\ i \in 1 .. n
    BY <1>3
  <2>2. 1 \in Int /\ k \in Int
    OBVIOUS
  <2>3. \A j \in 1 .. k : names[j] \in Strings /\ w[j] = names[j]
    <3>1. \A j \in 1 .. k : j \in 1 .. n
      BY <2>1
    <3>2. \A j \in 1 .. n : names[j] \in Strings
      BY <1>1, ElementOfSeq DEF Places
    <3> QED
      BY <1>2, <3>1, <3>2
  <2>4. /\ SubSeq(names, 1, k) \in Seq(Strings)
        /\ Len(SubSeq(names, 1, k)) = IF 1 <= k THEN k - 1 + 1 ELSE 0
        /\ \A j \in 1 .. k - 1 + 1 : SubSeq(names, 1, k)[j] = names[1 + j - 1]
    BY <2>2, <2>3, SubSeqProperties
  <2>5. /\ SubSeq(w, 1, k) \in Seq(Strings)
        /\ Len(SubSeq(w, 1, k)) = IF 1 <= k THEN k - 1 + 1 ELSE 0
        /\ \A j \in 1 .. k - 1 + 1 : SubSeq(w, 1, k)[j] = w[1 + j - 1]
    <3>1. \A j \in 1 .. k : w[j] \in Strings
      BY <2>3
    <3> QED
      BY <2>2, <3>1, SubSeqProperties
  <2>6. k - 1 + 1 = k /\ \A j \in 1 .. k : 1 + j - 1 = j
    OBVIOUS
  <2>7. PICK a \in Seq(Strings), b \in Seq(Strings) :
            /\ a = SubSeq(w, 1, k) /\ b = SubSeq(names, 1, k) /\ Len(a) = k /\ Len(b) = k
            /\ \A j \in 1 .. k : a[j] = b[j]
    <3>1. PICK a \in Seq(Strings), b \in Seq(Strings) : a = SubSeq(w, 1, k) /\ b = SubSeq(names, 1, k)
      BY <2>4, <2>5
    <3>2. Len(a) = k /\ Len(b) = k
      BY <2>4, <2>5, <3>1
    <3>3. ASSUME NEW j \in 1 .. k PROVE a[j] = b[j]
      BY <2>3, <2>4, <2>5, <2>6, <3>1
    <3> QED
      BY <3>1, <3>2, <3>3
  <2>8. a = b
    BY <2>7, SeqEqual
  <2> QED
    BY <2>1, <2>7, <2>8
<1>4. SubSeq(w, 1, (n + 1) - 1) = names
  <2>1. (n + 1) - 1 = Len(w) - 1
    BY <1>2
  <2> QED
    BY <1>2, <2>1 DEF Front
<1>5. ASSUME NoClimb(place, w)
      PROVE  NoClimb(place, names) /\ (name = <<".", ".">> => Walk(place, names) # <<>>)
  <2>1. ASSUME NEW i \in 1 .. n, names[i] = <<".", ".">>
        PROVE  Walk(place, SubSeq(names, 1, i - 1)) # <<>>
    <3>1. i \in 1 .. n + 1 /\ w[i] = <<".", ".">>
      BY <1>2, <2>1
    <3>2. Walk(place, SubSeq(w, 1, i - 1)) # <<>>
      BY <1>2, <1>5, <3>1 DEF NoClimb
    <3> QED
      BY <1>3, <3>2
  <2>2. ASSUME name = <<".", ".">> PROVE Walk(place, names) # <<>>
    <3>1. n + 1 \in 1 .. n + 1 /\ w[n + 1] = <<".", ".">>
      BY <1>2, <2>2
    <3>2. Walk(place, SubSeq(w, 1, (n + 1) - 1)) # <<>>
      BY <1>2, <1>5, <3>1 DEF NoClimb
    <3> QED
      BY <1>4, <3>2
  <2> QED
    BY <1>1, <2>1, <2>2 DEF NoClimb
<1>6. ASSUME NoClimb(place, names), name = <<".", ".">> => Walk(place, names) # <<>>
      PROVE  NoClimb(place, w)
  <2>1. ASSUME NEW i \in 1 .. n + 1, w[i] = <<".", ".">>
        PROVE  Walk(place, SubSeq(w, 1, i - 1)) # <<>>
    <3>1. CASE i \in 1 .. n
      <4>1. Walk(place, SubSeq(names, 1, i - 1)) # <<>>
        BY <1>1, <1>2, <1>6, <2>1, <3>1 DEF NoClimb
      <4> QED
        BY <1>3, <3>1, <4>1
    <3>2. CASE i = n + 1
      <4>1. name = <<".", ".">> /\ SubSeq(w, 1, i - 1) = names
        BY <1>2, <1>4, <2>1, <3>2
      <4> QED
        BY <1>6, <4>1
    <3> QED
      BY <3>1, <3>2
  <2> QED
    BY <1>2, <2>1 DEF NoClimb
<1> QED
  BY <1>2, <1>5, <1>6

(* Nor does one on the way there, from the root.                           *)
LEMMA NoClimbConcat ==
    ASSUME NEW place \in Dotless, NEW names \in Places, NoClimb(place, names)
    PROVE  NoClimb(<<>>, place \o names)
<1> DEFINE S == {n \in Places : NoClimb(place, n) => NoClimb(<<>>, place \o n)}
<1>0. place \in Places /\ <<>> \in Places /\ Walk(<<>>, place) = place
  BY DotlessFacts, WalkToPlace DEF Places
<1>1. <<>> \in S
  <2>1. place \o <<>> = place
    BY <1>0, ConcatEmptySeq DEF Places
  <2>2. \A i \in 1 .. Len(place) : place[i] \notin Dots
    BY ElementOfSeq DEF Dotless
  <2>3. NoClimb(<<>>, place)
    BY <2>2 DEF NoClimb, Dots
  <2> QED
    BY <1>0, <2>1, <2>3
<1>2. ASSUME NEW n \in Places, NEW name \in Strings, n \in S PROVE Append(n, name) \in S
  <2>1. Append(n, name) \in Places
    BY AppendFacts DEF Places
  <2>2. place \o Append(n, name) = Append(place \o n, name) /\ place \o n \in Places
    BY <1>0, ConcatAppend DEF Places
  <2>3. Walk(<<>>, place \o n) = Walk(place, n)
    BY <1>0, WalkConcat
  <2>4. NoClimb(place, Append(n, name)) <=>
            NoClimb(place, n) /\ (name = <<".", ".">> => Walk(place, n) # <<>>)
    BY NoClimbAppend
  <2>5. NoClimb(<<>>, Append(place \o n, name)) <=>
            NoClimb(<<>>, place \o n) /\ (name = <<".", ".">> => Walk(<<>>, place \o n) # <<>>)
    BY <2>2, NoClimbAppend
  <2> QED
    BY <1>2, <2>1, <2>2, <2>3, <2>4, <2>5
<1>3. names \in S
  <2> HIDE DEF S
  <2>1. \A n \in Seq(Strings), name \in Strings : n \in S => Append(n, name) \in S
    BY <1>2 DEF Places
  <2>2. \A n \in Seq(Strings) : n \in S
    BY <1>1, <2>1, SequenceInduction
  <2> QED
    BY <2>2 DEF Places
<1> QED
  BY <1>3

(* What normalize_path() leaves of a path: its string names the place the  *)
(* path leads to from the root.                                            *)
Leads(path, out) ==
    /\ Normalized(Segments(path), out) \in PathStates
    /\ \E held \in Strings :
           /\ Held(Normalized(Segments(path), out), held) /\ Ended(Normalized(Segments(path), out))
           /\ Len(held) <= Len(path) /\ NamesOf(held) = Walk(<<>>, NamesOf(path))

Fair(path) == path # <<>> /\ Opens(path) /\ Len(path) < MaxPath /\ NoClimb(<<>>, NamesOf(path))

LEMMA FrontFair ==
    ASSUME NEW path \in Strings, Fair(path), NEW front \in Strings, NEW x \in SegmentSet, EndsIn(path, front, x)
    PROVE  /\ Len(front) < Len(path) /\ Len(front) \in Nat /\ Len(path) \in Nat
           /\ front # <<>> => Fair(front)
           /\ front = <<>> => x.slash \/ x.text \notin Dots
           /\ x.text = <<".", ".">> => Walk(<<>>, NamesOf(front)) # <<>>
<1>1. PICK n \in Nat, k \in Nat, m \in Nat, text \in Strings :
          /\ n = Len(path) /\ k = Len(front) /\ text = x.text /\ m = Len(text) /\ (text = <<>> <=> m = 0)
  <2>1. x.text \in Strings
    BY DEF SegmentSet
  <2> QED
    BY <2>1, EmptySeq DEF Strings
<1>2. k < n
  <2>1. CASE x.slash
    <3>1. k + 1 + m <= n
      BY <1>1, <2>1 DEF EndsIn
    <3> QED
      BY <3>1
  <2>2. CASE ~ x.slash
    <3>1. text # <<>> /\ k + m <= n
      BY <1>1, <2>2 DEF EndsIn
    <3>2. m # 0
      BY <1>1, <3>1
    <3> QED
      BY <3>1, <3>2
  <2> QED
    BY <2>1, <2>2
<1>3. NoClimb(<<>>, NamesOf(front)) /\ (text = <<".", ".">> => Walk(<<>>, NamesOf(front)) # <<>>)
  <2>1. NamesOf(path) = WithName(NamesOf(front), text) /\ NamesOf(front) \in Places
    BY <1>1, NamesEndIn, NamesType DEF EndsIn
  <2>2. CASE text = <<>>
    <3>1. NamesOf(path) = NamesOf(front)
      BY <2>1, <2>2 DEF WithName
    <3>2. <<>> # <<".", ".">>
      OBVIOUS
    <3> QED
      BY <2>2, <3>1, <3>2 DEF Fair
  <2>3. CASE text # <<>>
    <3>1. NamesOf(path) = Append(NamesOf(front), text)
      BY <2>1, <2>3 DEF WithName
    <3> QED
      BY <2>1, <3>1, NoClimbAppend DEF Fair
  <2> QED
    BY <2>2, <2>3
<1>4. PICK segs \in Seq(SegmentSet) : segs = Segments(front) /\ Segments(path) = Append(segs, x)
  BY NamesType DEF EndsIn
<1>5. front # <<>> => Opens(front)
  <2> SUFFICES ASSUME front # <<>> PROVE Opens(front)
    OBVIOUS
  <2>1. PICK before \in Strings, y \in SegmentSet : segs = Append(Segments(before), y)
    BY <1>4, LastSegment DEF EndsIn
  <2>2. segs # <<>>
    BY <2>1, NamesType, FrontLast
  <2>3. Len(segs) >= 1 /\ 1 \in 1 .. Len(segs)
    BY <2>2, EmptySeq
  <2>4. Segments(path)[1] = segs[1]
    BY <1>4, <2>3, AppendProperties
  <2> QED
    BY <1>4, <2>3, <2>4 DEF Fair, Opens
<1>6. front = <<>> => x.slash \/ x.text \notin Dots
  <2> SUFFICES ASSUME front = <<>> PROVE x.slash \/ x.text \notin Dots
    OBVIOUS
  <2>1. segs = <<>>
    BY <1>4, NamesType
  <2>2. Append(<<>>, x) = <<x>> /\ <<x>>[1] = x
    OBVIOUS
  <2>3. Segments(path)[1] = x
    BY <1>4, <2>1, <2>2
  <2> QED
    BY <2>3 DEF Fair, Opens
<1>7. front # <<>> => Fair(front)
  <2>1. k < MaxPath
    BY <1>1, <1>2, MaxPathType DEF Fair
  <2> QED
    BY <1>1, <1>3, <1>5, <2>1 DEF Fair
<1> QED
  BY <1>1, <1>2, <1>3, <1>6, <1>7

LEMMA NormalizedLeads ==
    ASSUME NEW path \in Strings, Fair(path), NEW out \in [Offsets -> Letters]
    PROVE  Leads(path, out)
<1>1. PICK N \in Nat : N = Len(path)
  BY DEF Strings
<1> DEFINE S == {n \in 0 .. N : \A p \in Strings : Fair(p) /\ Len(p) <= n => Leads(p, out)}
<1>2. 0 \in S
  <2>1. ASSUME NEW p \in Strings, Fair(p), Len(p) <= 0 PROVE FALSE
    <3>1. Len(p) \in Nat /\ p # <<>>
      BY <2>1 DEF Strings, Fair
    <3>2. Len(p) = 0
      BY <2>1, <3>1
    <3> QED
      BY <3>1, <3>2, EmptySeq DEF Strings
  <2> QED
    BY <2>1
<1>3. \A n \in 0 .. N - 1 : n \in S => n + 1 \in S
  <2> TAKE n \in 0 .. N - 1
  <2> HAVE n \in S
  <2>1. n + 1 \in 0 .. N /\ n \in Nat /\ \A p \in Strings : Fair(p) /\ Len(p) <= n => Leads(p, out)
    BY <1>1
  <2> HIDE DEF S
  <2>2. ASSUME NEW p \in Strings, Fair(p), Len(p) <= n + 1 PROVE Leads(p, out)
    <3>1. PICK front \in Strings, x \in SegmentSet : EndsIn(p, front, x)
      BY <2>2, LastSegment DEF Fair
    <3>2. /\ Len(front) < Len(p) /\ Len(front) \in Nat /\ Len(p) \in Nat
          /\ front # <<>> => Fair(front)
          /\ front = <<>> => x.slash \/ x.text \notin Dots
          /\ x.text = <<".", ".">> => Walk(<<>>, NamesOf(front)) # <<>>
      BY <2>2, <3>1, FrontFair
    <3>3. Len(front) <= n
      BY <2>1, <2>2, <3>2
    <3>4. PICK s \in PathStates, held \in Strings :
              /\ s = Normalized(Segments(front), out) /\ Held(s, held) /\ (held # <<>> => Ended(s))
              /\ Len(held) <= Len(front) /\ NamesOf(held) = Walk(<<>>, NamesOf(front))
              /\ x.slash \/ (held = <<>> /\ x.text \notin Dots)
      <4>1. CASE front = <<>>
        <5>0. PICK fresh : fresh = AtStart(out)
          OBVIOUS
        <5>00. fresh \in PathStates
          BY <5>0 DEF PathStates, AtStart
        <5>1. PICK s \in PathStates : s = AtStart(out)
          BY <5>0, <5>00
        <5>2. Normalized(Segments(front), out) = s
          <6>1. Segments(front) = <<>> /\ <<>> \in Seq(SegmentSet)
            BY <4>1, NamesType
          <6>2. PICK y \in SegmentSet : TRUE
            OBVIOUS
          <6>3. Normalized(<<>>, out) = AtStart(out)
            BY <6>1, <6>2, NormalizedAppend
          <6> QED
            BY <5>1, <6>1, <6>3
        <5>3. Held(s, <<>>) /\ <<>> \in Strings
          <6>1. s.idx = 0 /\ ~ s.under
            BY <5>1 DEF AtStart
          <6>2. Len(<<>>) = 0
            OBVIOUS
          <6> QED
            BY <6>1, <6>2 DEF Held, NoDouble, Strings
        <5>4. NamesOf(front) = <<>> /\ Walk(<<>>, <<>>) = <<>>
          <6>1. <<>> \in Places
            BY DEF Places
          <6> QED
            BY <4>1, <6>1, NamesType, WalkFacts
        <5>5. x.slash \/ x.text \notin Dots
          BY <3>2, <4>1
        <5>6. NamesOf(<<>>) = <<>> /\ Len(<<>>) <= Len(front)
          BY <4>1, <5>4
        <5> QED
          BY <5>2, <5>3, <5>4, <5>5, <5>6
      <4>2. CASE front # <<>>
        <5>1. Leads(front, out)
          BY <2>1, <3>2, <3>3, <4>2
        <5>2. x.slash
          BY <3>1, <4>2 DEF EndsIn
        <5> QED
          BY <5>1, <5>2 DEF Leads
      <4> QED
        BY <4>1, <4>2
    <3>0. PICK limit \in Nat : limit = Len(p)
      BY <3>2
    <3>5. /\ limit < MaxPath /\ Len(held) + Len(x.text) <= limit
          /\ x.slash => Len(held) + 1 + Len(x.text) <= limit
      <4>1. PICK a \in Nat, b \in Nat, c \in Nat, m \in Nat :
                a = Len(held) /\ b = Len(front) /\ c = Len(p) /\ m = Len(x.text) /\ a <= b
        <5>1. x.text \in Strings
          BY DEF SegmentSet
        <5>2. Len(held) \in Nat /\ Len(front) \in Nat /\ Len(p) \in Nat /\ Len(x.text) \in Nat
          BY <5>1 DEF Strings
        <5> QED
          BY <3>4, <5>2
      <4>2. b + m <= c /\ (x.slash => b + 1 + m <= c)
        BY <3>1, <4>1 DEF EndsIn
      <4>3. a + m <= c
        BY <4>1, <4>2
      <4>4. x.slash => a + 1 + m <= c
        <5>0. a <= b
          BY <4>1
        <5>1. b + 1 + m <= c => a + 1 + m <= c
          BY <5>0
        <5> QED
          BY <4>2, <5>1
      <4>5. c < MaxPath
        BY <2>2, <4>1 DEF Fair
      <4> QED
        BY <3>0, <4>1, <4>3, <4>4, <4>5
    <3>6. NoSlash(x.text) /\ (x.text = <<".", ".">> => NamesOf(held) # <<>>)
      BY <3>1, <3>2, <3>4 DEF EndsIn
    <3>7. PICK c \in Strings :
               /\ Turn(s, x) \in PathStates /\ Held(Turn(s, x), c) /\ Ended(Turn(s, x)) /\ Len(c) <= limit
               /\ NamesOf(c) = IF x.text = <<>> THEN NamesOf(held) ELSE Enter(NamesOf(held), x.text)
      <4>1. /\ Held(s, held) /\ (held # <<>> => Ended(s)) /\ NoSlash(x.text)
            /\ (x.slash \/ (held = <<>> /\ x.text \notin Dots)) /\ limit < MaxPath
            /\ Len(held) + Len(x.text) <= limit
            /\ (x.slash => Len(held) + 1 + Len(x.text) <= limit)
            /\ (x.text = <<".", ".">> => NamesOf(held) # <<>>)
        BY <3>4, <3>5, <3>6
      <4> QED
        BY <4>1, TurnHeld, Zenon
    <3>8. Normalized(Segments(p), out) = Turn(s, x)
      <4>1. PICK segs \in Seq(SegmentSet) : segs = Segments(front) /\ Segments(p) = Append(segs, x)
        BY <3>1, NamesType DEF EndsIn
      <4> QED
        BY <3>4, <4>1, NormalizedAppend
    <3>9. NamesOf(c) = Walk(<<>>, NamesOf(p))
      <4>1. PICK names \in Places, text \in Strings :
                names = NamesOf(front) /\ text = x.text /\ NamesOf(p) = WithName(names, text)
        <5>1. NamesOf(front) \in Places /\ x.text \in Strings
          BY NamesType DEF SegmentSet
        <5>2. NamesOf(p) = WithName(NamesOf(front), x.text)
          BY <3>1, NamesEndIn DEF EndsIn
        <5> QED
          BY <5>1, <5>2
      <4>2. <<>> \in Places
        BY DEF Places
      <4>3. Walk(<<>>, Append(names, text)) = Enter(Walk(<<>>, names), text)
        BY <4>2, WalkAppend
      <4> QED
        BY <3>4, <3>7, <4>1, <4>3 DEF WithName
    <3>10. Len(c) <= Len(p)
      BY <3>0, <3>7
    <3> QED
      BY <3>7, <3>8, <3>9, <3>10 DEF Leads
  <2> QED
    BY <2>1, <2>2 DEF S
<1>4. N \in S
  <2> HIDE DEF S
  <2>1. \A n \in 0 .. N : n \in S
    BY <1>2, <1>3, IntervalInduction
  <2> QED
    BY <2>1
<1> QED
  BY <1>1, <1>4


-----------------------------------------------------------------------------
(* The path a command works on is the one that was asked for.              *)

LEMMA HeldString ==
    ASSUME NEW out \in [Offsets -> Letters], NEW text \in Strings, Len(text) < MaxPath,
           \A j \in 1 .. Len(text) : out[j - 1] = text[j], out[Len(text)] = Nul
    PROVE  StringIn(out) = text
<1>1. PICK n \in Nat : n = Len(text) /\ n < MaxPath /\ \A j \in 1 .. n : out[j - 1] = text[j]
  BY DEF Strings
<1>2. \A j \in 1 .. n : text[j] \in Chars /\ text[j] # Nul
  BY <1>1, ElementOfSeq DEF Strings, Chars
<1>3. n \in 0 .. MaxPath - 1 /\ out[n] = Nul
  BY <1>1, MaxPathType
<1>4. Ends(out)
  BY <1>3 DEF Ends
<1>5. PICK s \in Strings, m \in Nat :
          /\ s = StringIn(out) /\ m = Len(s) /\ m \in 0 .. MaxPath - 1 /\ out[m] = Nul
          /\ \A i \in 1 .. m : s[i] = out[i - 1]
  <2>1. 0 .. MaxPath - 1 \subseteq Nat
    BY MaxPathType
  <2> QED
    BY <1>4, <2>1, StringInFacts
<1>6. \A j \in 1 .. m : s[j] \in Chars /\ s[j] # Nul
  BY <1>5, ElementOfSeq DEF Strings, Chars
<1>7. ~ (m < n)
  <2>1. m < n => m + 1 \in 1 .. n /\ (m + 1) - 1 = m
    OBVIOUS
  <2> QED
    BY <1>1, <1>2, <1>5, <2>1
<1>8. ~ (n < m)
  <2>1. n < m => n + 1 \in 1 .. m /\ (n + 1) - 1 = n
    OBVIOUS
  <2> QED
    BY <1>3, <1>5, <1>6, <2>1
<1>9. m = n
  BY <1>7, <1>8
<1>10. \A j \in 1 .. n : s[j] = text[j]
  BY <1>1, <1>5, <1>9
<1>11. s = text
  BY <1>1, <1>5, <1>9, <1>10, SeqEqual DEF Strings
<1> QED
  BY <1>5, <1>11

(* A path that is not cut is whole.                                        *)
LEMMA FullPathWhole ==
    ASSUME NEW c \in Strings, Len(c) < MaxPath, NEW path \in Strings, ~ IsCut(c, path)
    PROVE  /\ path # <<>> /\ path[1] = "/" => FullPath(c, path) = path
           /\ ~ (path # <<>> /\ path[1] = "/") => FullPath(c, path) = Append(c, "/") \o path
           /\ Len(FullPath(c, path)) < MaxPath /\ FullPath(c, path) # <<>>
<1>1. PICK N \in Nat, M \in Nat : N = Len(c) /\ M = Len(path) /\ N < MaxPath
  BY DEF Strings
<1>2. CASE path # <<>> /\ path[1] = "/"
  <2>1. FullPath(c, path) = path /\ Len(path) < MaxPath
    BY <1>1, <1>2, MaxPathType DEF FullPath, IsCut
  <2> QED
    BY <1>2, <2>1
<1>3. CASE ~ (path # <<>> /\ path[1] = "/")
  <2>1. N + 1 + M < MaxPath
    BY <1>1, <1>3, MaxPathType DEF IsCut
  <2>2. AddTo(<<>>, c) = c
    <3>1. MaxPath - Len(<<>>) = MaxPath /\ MaxPath \in Int
      BY MaxPathType
    <3>2. Copied(c, MaxPath) = c
      BY <3>1, CopiedFacts
    <3>3. <<>> \o c = c
      BY DEF Strings
    <3> QED
      BY <3>1, <3>2, <3>3 DEF AddTo
  <2>3. PICK slash \in Strings : slash = <<"/">> /\ Len(slash) = 1
    <3>1. <<"/">> \in Strings /\ Len(<<"/">>) = 1
      BY MaxPathType DEF Strings
    <3> QED
      BY <3>1
  <2>4. Copied(slash, MaxPath - N) = slash
    <3>1. MaxPath - N \in Int /\ Len(slash) < MaxPath - N
      BY <1>1, <2>1, <2>3, MaxPathType
    <3> QED
      BY <3>1, CopiedFacts
  <2>5. PICK b \in Strings : b = c \o slash /\ b = AddTo(c, <<"/">>) /\ Len(b) = N + 1
    BY <1>1, <2>3, <2>4, ConcatFacts DEF AddTo
  <2>6. Copied(path, MaxPath - (N + 1)) = path
    <3>1. MaxPath - (N + 1) \in Int /\ Len(path) < MaxPath - (N + 1)
      BY <1>1, <2>1, MaxPathType
    <3> QED
      BY <3>1, CopiedFacts
  <2>7. FullPath(c, path) = b \o path
    BY <1>3, <2>2, <2>5, <2>6 DEF FullPath, AddTo
  <2>8. b = Append(c, "/")
    BY <2>3, <2>5, AppendIsConcat, MaxPathType DEF Strings
  <2>9. Len(b \o path) = N + 1 + M
    BY <1>1, <2>5, ConcatFacts
  <2>10. N + 1 + M # 0 /\ Len(<<>>) = 0
    OBVIOUS
  <2> QED
    BY <1>3, <2>1, <2>7, <2>8, <2>9, <2>10
<1> QED
  BY <1>2, <1>3


(* The conditions of PathIsRight, for the place and the path asked for.    *)
Start(place, path) == IF path # <<>> /\ path[1] = "/" THEN <<>> ELSE place

LEMMA StaysBelow ==
    ASSUME NEW place \in Dotless, NEW path \in Strings, ~ Climbs(place, path)
    PROVE  /\ Start(place, path) \in Dotless /\ NoClimb(Start(place, path), NamesOf(path))
           /\ Follow(place, path) = Walk(Start(place, path), NamesOf(path))
<1>1. Start(place, path) \in Dotless
  BY DotlessFacts DEF Start
<1>2. Follow(place, path) = Walk(Start(place, path), NamesOf(path))
  BY DEF Follow, Start
<1>3. PICK names \in Places : names = NamesOf(path) /\ (path = <<>> => names = <<>>)
  BY NamesType
<1>4. NoClimb(Start(place, path), names)
  <2>1. CASE path = <<>>
    <3>1. Len(names) = 0
      BY <1>3, <2>1
    <3> QED
      BY <3>1 DEF NoClimb
  <2>2. CASE path # <<>>
    <3>1. PICK start : start = Start(place, path) /\ start = IF path[1] = "/" THEN <<>> ELSE place
      BY <2>2 DEF Start
    <3>2. DOMAIN names = 1 .. Len(names)
      BY DEF Places
    <3>3. \A n \in DOMAIN names : names[n] = <<".", ".">> => Walk(start, SubSeq(names, 1, n - 1)) # <<>>
      BY <1>3, <3>1 DEF Climbs
    <3> QED
      BY <3>1, <3>2, <3>3 DEF NoClimb
  <2> QED
    BY <2>1, <2>2
<1> QED
  BY <1>1, <1>2, <1>3, <1>4

(* The names of the whole path are those of the place and of the path.     *)
LEMMA FullNames ==
    ASSUME NEW c \in Strings, Len(c) < MaxPath, NEW path \in Strings, ~ IsCut(c, path)
    PROVE  NamesOf(FullPath(c, path)) = Start(NamesOf(c), path) \o NamesOf(path)
<1>1. CASE path # <<>> /\ path[1] = "/"
  <2>1. FullPath(c, path) = path /\ Start(NamesOf(c), path) = <<>>
    BY <1>1, FullPathWhole DEF Start
  <2>2. <<>> \o NamesOf(path) = NamesOf(path)
    BY NamesType, ConcatEmptySeq DEF Places
  <2> QED
    BY <2>1, <2>2
<1>2. CASE ~ (path # <<>> /\ path[1] = "/")
  <2>1. FullPath(c, path) = Append(c, "/") \o path /\ Start(NamesOf(c), path) = NamesOf(c)
    BY <1>2, FullPathWhole DEF Start
  <2>2. PICK b \in Strings : b = Append(c, "/") /\ NamesOf(b) = NamesOf(c)
    BY NamesSlash
  <2>3. Last(b) = "/"
    BY <2>2, FrontLast, MaxPathType DEF Strings
  <2>4. NamesOf(b \o path) = NamesOf(b) \o NamesOf(path)
    BY <2>3, NamesConcat DEF Ending
  <2> QED
    BY <2>1, <2>2, <2>4
<1> QED
  BY <1>1, <1>2

LEMMA PathRight ==
    ASSUME NEW c \in Strings, Len(c) < MaxPath, NamesOf(c) \in Dotless, NEW path \in Strings, NEW junk \in Junk,
           ~ IsCut(c, path), ~ Climbs(NamesOf(c), path)
    PROVE  /\ ~ NormalizePath(FullPath(c, path), junk).under
           /\ NamesOf(StringIn(NormalizePath(FullPath(c, path), junk).out)) = Follow(NamesOf(c), path)
<1>1. PICK place \in Dotless : place = NamesOf(c)
  OBVIOUS
<1>2. PICK start \in Dotless : start = Start(place, path) /\ NoClimb(start, NamesOf(path))
                               /\ Follow(place, path) = Walk(start, NamesOf(path))
  BY <1>1, StaysBelow
<1>3. c = <<>> \/ Opens(c)
  <2>1. place # <<>> => place[1] \notin Dots
    <3> SUFFICES ASSUME place # <<>> PROVE place[1] \notin Dots
      OBVIOUS
    <3>1. 1 \in 1 .. Len(place)
      BY EmptySeq DEF Dotless
    <3> QED
      BY <3>1, ElementOfSeq DEF Dotless
  <2> QED
    BY <1>1, <2>1, NameOpens
<1>4. PICK full \in Strings : full = FullPath(c, path) /\ Opens(full) /\ Len(full) < MaxPath /\ full # <<>>
  BY <1>3, FullPathOpens, FullPathWhole
<1>5. NamesOf(full) = start \o NamesOf(path)
  BY <1>1, <1>2, <1>4, FullNames
<1>6. NoClimb(<<>>, NamesOf(full))
  BY <1>2, <1>5, NamesType, NoClimbConcat
<1>7. Walk(<<>>, NamesOf(full)) = Walk(start, NamesOf(path))
  <2>1. start \in Places /\ NamesOf(path) \in Places /\ <<>> \in Places
    BY DotlessFacts, NamesType DEF Places
  <2>2. Walk(<<>>, start \o NamesOf(path)) = Walk(Walk(<<>>, start), NamesOf(path))
    BY <2>1, WalkConcat
  <2> QED
    BY <1>5, <2>2, WalkToPlace
<1>8. junk \in [Offsets -> Letters]
  BY JunkType
<1>9. Leads(full, junk)
  BY <1>4, <1>6, <1>8, NormalizedLeads DEF Fair
<1>10. PICK s \in PathStates, held \in Strings :
           /\ s = NormalizePath(full, junk) /\ Held(s, held) /\ Ended(s)
           /\ Len(held) <= Len(full) /\ NamesOf(held) = Walk(<<>>, NamesOf(full))
  BY <1>9 DEF Leads, Normalized, NormalizePath
<1>11. PICK out \in [Offsets -> Letters] : out = s.out
  BY DEF PathStates
<1>12. Len(held) < MaxPath
  <2>1. Len(held) \in Nat /\ Len(full) \in Nat
    BY DEF Strings
  <2> QED
    BY <1>4, <1>10, <2>1, MaxPathType
<1>13. (\A j \in 1 .. Len(held) : out[j - 1] = held[j]) /\ out[Len(held)] = Nul
  BY <1>10, <1>11 DEF Held, Ended
<1>14. StringIn(out) = held
  BY <1>12, <1>13, HeldString
<1>15. ~ s.under
  BY <1>10, Zenon DEF Held
<1> QED
  BY <1>1, <1>2, <1>4, <1>7, <1>10, <1>11, <1>14, <1>15


(* The names in the current directory are the place itself: none is dots.  *)
CwdOK == cwd \in Strings /\ Len(cwd) < MaxPath /\ NamesOf(cwd) \in Dotless

(* Either no volume lists dots, or no cd goes to a path that is cut or     *)
(* that climbs above the root.                                             *)
TreesWithoutDots == \A tree \in Trees : \A names \in DOMAIN tree : Range(names) \cap Dots = {}

MovesFit == last.op = "cd" /\ last.found => ~ IsCut(last.from, last.asked) /\ ~ Climbs(NamesOf(last.from), last.asked)

LEMMA InitCwd == Init => CwdOK /\ PathIsRight
<1>1. <<>> \in Strings /\ Len(<<>>) = 0 /\ <<>> \in Dotless
  BY DEF Strings, Dotless
<1>2. NamesOf(<<>>) = <<>>
  BY <1>1, NamesType
<1> QED
  BY <1>1, <1>2, MaxPathType DEF Init, CwdOK, PathIsRight

(* Without an argument a command works on the current directory.           *)
LEMMA CwdTarget ==
    ASSUME Inv, CwdOK, NEW junk, ~ HasArg
    PROVE  /\ ~ Target(junk).under /\ StringIn(Target(junk).out) = cwd
           /\ Follow(NamesOf(cwd), <<>>) = NamesOf(cwd)
<1>1. PICK text \in Strings : text = cwd /\ Len(text) < MaxPath
  BY DEF CwdOK
<1>2. PICK n \in Nat : n = Len(text) /\ n < MaxPath /\ DOMAIN text = 1 .. n
  BY <1>1 DEF Strings
<1>3. PICK out : out = [o \in Offsets |-> IF o + 1 \in DOMAIN text THEN text[o + 1] ELSE Nul]
  OBVIOUS
<1>4. Target(junk) = [out |-> out, idx |-> Len(cwd), under |-> FALSE]
  BY <1>1, <1>3 DEF Target
<1>5. \A i \in 1 .. n : text[i] \in Letters
  BY <1>1, <1>2, ElementOfSeq DEF Strings, Chars
<1>6. out \in [Offsets -> Letters]
  BY <1>2, <1>3, <1>5, MaxPathType
<1>7. \A j \in 1 .. n : out[j - 1] = text[j]
  <2> SUFFICES ASSUME NEW j \in 1 .. n PROVE out[j - 1] = text[j]
    OBVIOUS
  <2>1. PICK o \in Int : o = j - 1 /\ o + 1 = j /\ o \in 0 .. MaxPath - 1
    BY <1>2, MaxPathType
  <2>2. o \in Offsets /\ o + 1 \in DOMAIN text
    BY <1>2, <2>1, MaxPathType
  <2>3. out[o] = text[o + 1]
    BY <1>3, <2>2
  <2> QED
    BY <2>1, <2>3
<1>8. out[n] = Nul
  <2>1. n \in Offsets /\ n + 1 \notin 1 .. n
    BY <1>2, MaxPathType DEF Offsets
  <2> QED
    BY <1>2, <1>3, <2>1
<1>9. StringIn(out) = text
  BY <1>1, <1>2, <1>6, <1>7, <1>8, HeldString
<1>10. Follow(NamesOf(cwd), <<>>) = NamesOf(cwd)
  <2>1. NamesOf(cwd) \in Places /\ NamesOf(<<>>) = <<>>
    BY NamesType DEF CwdOK
  <2>2. <<>> \in Places
    BY DEF Places
  <2> QED
    BY <2>1, <2>2, WalkFacts DEF Follow
<1> QED
  BY <1>1, <1>4, <1>9, <1>10

LEMMA OutcomeRight ==
    ASSUME Inv, CwdOK, NEW junk \in Junk, NEW op, NEW found, last' = Outcome(op, Target(junk), found)
    PROVE  PathIsRight'
<1>1. PICK t : t = Target(junk)
  OBVIOUS
<1>2. PICK asked : asked = IF HasArg THEN typed.args[2] ELSE <<>>
  OBVIOUS
<1>3. last'.from = cwd /\ last'.asked = asked /\ last'.path = StringIn(t.out) /\ last'.under = t.under
  BY <1>1, <1>2 DEF Outcome
<1>4. ASSUME ~ IsCut(cwd, asked), ~ Climbs(NamesOf(cwd), asked)
      PROVE  NamesOf(StringIn(t.out)) = Follow(NamesOf(cwd), asked) /\ ~ t.under
  <2>1. CASE HasArg
    <3>1. asked \in Strings /\ asked = typed.args[2] /\ t = NormalizePath(FullPath(cwd, asked), junk)
      BY <1>1, <1>2, <2>1, ArgumentFacts DEF Target
    <3> QED
      BY <1>4, <3>1, PathRight DEF CwdOK
  <2>2. CASE ~ HasArg
    <3>1. asked = <<>>
      BY <1>2, <2>2
    <3>2. ~ t.under /\ StringIn(t.out) = cwd /\ Follow(NamesOf(cwd), <<>>) = NamesOf(cwd)
      BY <1>1, <2>2, CwdTarget
    <3> QED
      BY <3>1, <3>2
  <2> QED
    BY <2>1, <2>2
<1>5. PathIsRight' <=> (last' # NoOutcome /\ ~ IsCut(last'.from, last'.asked) /\ ~ Climbs(NamesOf(last'.from), last'.asked) =>
                            NamesOf(last'.path) = Follow(NamesOf(last'.from), last'.asked) /\ ~ last'.under)
  BY DEF PathIsRight
<1> QED
  BY <1>3, <1>4, <1>5

(* A command that has an outcome has one of a path it works on.            *)
LEMMA StepKeepsPathRight ==
    ASSUME Inv, CwdOK, PathIsRight, [Next]_vars
    PROVE  PathIsRight'
<1>1. CASE last' = last
  BY <1>1 DEF PathIsRight
<1>2. CASE last' = NoOutcome
  BY <1>2 DEF PathIsRight
<1>3. CASE last' # last /\ last' # NoOutcome
  <2>1. PICK junk \in Junk : Cd(junk) \/ Dir(junk) \/ Readf(junk)
    BY <1>3 DEF Next, vars, MenuKey, Prompt, ReadLine, SetVol, Exit, Other, OpenProgram,
                PrintLine, MoreKey, PrintPortion, DumpKey, CloseProgram
  <2>2. \E op, found : last' = Outcome(op, Target(junk), found)
    <3>1. CASE Cd(junk)
      BY <1>3, <3>1 DEF Cd
    <3>2. CASE Dir(junk)
      BY <1>3, <3>2 DEF Dir
    <3>3. CASE Readf(junk)
      BY <1>3, <3>3 DEF Readf
    <3> QED
      BY <2>1, <3>1, <3>2, <3>3
  <2> QED
    BY <2>2, OutcomeRight
<1> QED
  BY <1>1, <1>2, <1>3

LEMMA StepKeepsCwd ==
    ASSUME Inv, CwdOK, PathIsRight', [Next]_vars, TreesWithoutDots \/ MovesFit'
    PROVE  CwdOK'
<1>1. CASE cwd' = cwd
  BY <1>1 DEF CwdOK
<1>2. CASE cwd' # cwd
  <2>1. PICK junk \in Junk : Cd(junk)
    BY <1>2 DEF Next, vars, MenuKey, Prompt, ReadLine, Dir, Readf, SetVol, Exit, Other, OpenProgram,
                PrintLine, MoreKey, PrintPortion, DumpKey, CloseProgram
  <2>2. PICK path : path = StringIn(Target(junk).out)
    OBVIOUS
  <2>3. /\ HasArg /\ IsMounted /\ Exists(path) /\ cwd' = path
        /\ last' = Outcome("cd", Target(junk), Exists(path))
    BY <1>2, <2>1, <2>2 DEF Cd
  <2>4. PICK asked \in Strings : asked = typed.args[2] /\ Target(junk) = NormalizePath(FullPath(cwd, asked), junk)
    BY <2>3, ArgumentFacts DEF Target
  <2>5. NamesOf(cwd) \in Places /\ NamesOf(asked) \in Places
    BY NamesType DEF CwdOK
  <2>6. cwd = <<>> \/ Opens(cwd)
    <3>1. NamesOf(cwd) # <<>> => NamesOf(cwd)[1] \notin Dots
      <4> SUFFICES ASSUME NamesOf(cwd) # <<>> PROVE NamesOf(cwd)[1] \notin Dots
        OBVIOUS
      <4>1. PICK place \in Dotless : place = NamesOf(cwd)
        BY DEF CwdOK
      <4>2. 1 \in 1 .. Len(place)
        BY <4>1, EmptySeq DEF Dotless
      <4> QED
        BY <4>1, <4>2, ElementOfSeq DEF Dotless
    <3> QED
      BY <3>1, NameOpens DEF CwdOK
  <2>7. path \in Strings /\ Len(path) < MaxPath
    BY <2>2, <2>4, <2>6, NormalizedFits DEF CwdOK
  <2>8. NamesOf(path) \in Dotless
    <3>1. CASE TreesWithoutDots
      <4>1. mounted[selected + 1] \in Trees
        <5>1. mounted \in Seq(Trees) /\ selected \in Nat /\ selected < Len(mounted)
          BY <2>3, MountsAssumption DEF Inv, VolumeOK, IsMounted
        <5>2. selected + 1 \in 1 .. Len(mounted)
          BY <5>1
        <5> QED
          BY <5>1, <5>2, ElementOfSeq
      <4>2. NamesOf(path) \in DOMAIN mounted[selected + 1]
        BY <2>3 DEF Exists
      <4>3. PICK names \in Places : names = NamesOf(path) /\ Range(names) \cap Dots = {}
        BY <2>7, <3>1, <4>1, <4>2, NamesType DEF TreesWithoutDots
      <4>4. PICK n \in Nat : n = Len(names) /\ DOMAIN names = 1 .. n /\ \A i \in 1 .. n : names[i] \in Strings
        BY ElementOfSeq DEF Places
      <4>5. \A i \in 1 .. n : names[i] \notin Dots
        BY <4>3, <4>4 DEF Range
      <4>6. names = [i \in 1 .. n |-> names[i]]
        BY <4>4 DEF Places
      <4>7. PICK kept : kept = Strings \ Dots /\ \A i \in 1 .. n : names[i] \in kept
        BY <4>4, <4>5
      <4>8. names \in Seq(kept)
        BY <4>6, <4>7
      <4> QED
        BY <4>3, <4>7, <4>8 DEF Dotless
    <3>2. CASE MovesFit'
      <4>1. /\ last'.op = "cd" /\ last'.found /\ last'.from = cwd /\ last'.asked = asked /\ last'.path = path
            /\ last' # NoOutcome
        BY <2>2, <2>3, <2>4 DEF Outcome, NoOutcome
      <4>2. ~ IsCut(cwd, asked) /\ ~ Climbs(NamesOf(cwd), asked)
        BY <3>2, <4>1 DEF MovesFit
      <4>3. NamesOf(path) = Follow(NamesOf(cwd), asked)
        BY <4>1, <4>2 DEF PathIsRight
      <4>4. PICK place \in Dotless : place = NamesOf(cwd)
        BY DEF CwdOK
      <4>5. Follow(place, asked) = Walk(Start(place, asked), NamesOf(asked)) /\ Start(place, asked) \in Dotless
        BY <4>2, <4>4, StaysBelow
      <4> QED
        BY <2>5, <4>3, <4>4, <4>5, WalkDotless
    <3> QED
      BY <3>1, <3>2
  <2> QED
    BY <2>3, <2>7, <2>8 DEF CwdOK
<1> QED
  BY <1>1, <1>2

(* Where no volume lists "." or "..", the path a command works on is the   *)
(* one that was asked for and building it stays within its buffer, unless  *)
(* it is too long or climbs above the root (get_fullpath(), set_cwd(),     *)
(* normalize_path()).                                                      *)
THEOREM AlwaysPathIsRight == ASSUME TreesWithoutDots PROVE Spec => []PathIsRight
<1>1. Init => CwdOK /\ PathIsRight
  BY InitCwd
<1>2. Inv /\ CwdOK /\ PathIsRight /\ [Next]_vars => PathIsRight'
  BY StepKeepsPathRight
<1>3. Inv /\ CwdOK /\ PathIsRight' /\ [Next]_vars => CwdOK'
  BY StepKeepsCwd
<1> QED
  BY <1>1, <1>2, <1>3, AlwaysInv, PTL DEF Spec

(* The same for every volume, as long as every cd that moves was asked for *)
(* a path that fits and stays below the root.                              *)
THEOREM PathIsRightWhenMovesFit == Spec /\ []MovesFit => []PathIsRight
<1>1. Init => CwdOK /\ PathIsRight
  BY InitCwd
<1>2. Inv /\ CwdOK /\ PathIsRight /\ [Next]_vars => PathIsRight'
  BY StepKeepsPathRight
<1>3. Inv /\ CwdOK /\ PathIsRight' /\ [Next]_vars /\ MovesFit' => CwdOK'
  BY StepKeepsCwd
<1> QED
  BY <1>1, <1>2, <1>3, AlwaysInv, PTL DEF Spec

=============================================================================
