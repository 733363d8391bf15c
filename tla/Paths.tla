------------------------------- MODULE Paths --------------------------------
(***************************************************************************)
(* Paths as the shell handles them: characters in buffers of a fixed size. *)
(* A string is a sequence of characters, a buffer a function from offsets  *)
(* to characters in which Nul ends the string.  normalize_path() can go    *)
(* below its buffer, so the two bytes in front of it are modelled too.     *)
(***************************************************************************)
EXTENDS Integers, SequencesExt, FiniteSetsExt

CONSTANT MaxPath    \* MAX_FILENAME_SIZE: 256

ASSUME PathAssumption == MaxPath \in Nat /\ MaxPath > 3

Nul == "nul"
Offsets == -2 .. MaxPath - 1

Lesser(a, b) == IF a < b THEN a ELSE b

(* strlcpy(): the characters that fit with the terminator, and how many.   *)
Copied(source, maxSize) == IF maxSize < 1 THEN <<>> ELSE SubSeq(source, 1, Lesser(Len(source), maxSize - 1))

Put(s, source, maxSize) ==
    LET text == Copied(source, maxSize) \o <<Nul>>
    IN IF maxSize < 1 THEN s ELSE
       [s EXCEPT !.idx = @ + Len(text) - 1,
                 !.out = [o \in Offsets |-> IF o - s.idx + 1 \in DOMAIN text THEN text[o - s.idx + 1] ELSE @[o]]]

StringIn(out) ==
    LET end == Min({MaxPath} \cup {o \in 0 .. MaxPath - 1 : out[o] = Nul}) IN [i \in 1 .. end |-> out[i - 1]]

(* The segments of a path, each with whether slashes come before it, when  *)
(* ch follows `before`.                                                    *)
Longer(segment, ch) == [segment EXCEPT !.text = Append(@, ch)]

WithChar(segments, before, ch) ==
    CASE ch = "/" /\ before = "/" -> segments
      [] ch = "/" /\ before # "/" -> Append(segments, [slash |-> TRUE, text |-> <<>>])
      [] ch # "/" /\ segments = <<>> -> <<[slash |-> FALSE, text |-> <<ch>>]>>
      [] ch # "/" /\ segments # <<>> -> Append(Front(segments), Longer(Last(segments), ch))

(* The segments of the first i characters of a path, and of all.           *)
Segmenting(path) ==
    LET f[i \in 0 .. Len(path)] ==
            IF i = 0 THEN <<>> ELSE WithChar(f[i - 1], IF i = 1 THEN Nul ELSE path[i - 1], path[i])
    IN  f

Segments(path) == Segmenting(path)[Len(path)]

-----------------------------------------------------------------------------
(* normalize_path()                                                        *)

(* Back to the slash at or before i, or to the start.                      *)
BackFrom(out, i) == IF i <= 0 THEN i ELSE Max({0} \cup {j \in 1 .. i : out[j] = "/"})
SkipSlash(out, i) == IF out[i] = "/" THEN i - 1 ELSE i

MutUp(s) ==
    LET i == BackFrom(s.out, SkipSlash(s.out, s.idx))
    IN [s EXCEPT !.idx = i, !.out[i] = Nul]

(* "..": over the slash written for it and the segment in front.           *)
Up(s) ==
    LET i == BackFrom(s.out, SkipSlash(s.out, BackFrom(s.out, SkipSlash(s.out, s.idx))))
    IN [s EXCEPT !.idx = i, !.out[i] = Nul, !.under = @ \/ i < 0]

(* A turn of the loop: the slash of a segment, and its text.               *)
Slashed(s, segment) ==
    IF segment.slash /\ (s.idx = 0 \/ s.out[s.idx - 1] # "/") THEN Put(s, <<"/">>, MaxPath - s.idx) ELSE s

WithText(s, text) ==
    CASE text = <<".">> -> s
      [] text = <<".", ".">> -> Up(s)
      [] OTHER -> Put(s, text, Lesser(Len(text) + 1, MaxPath - s.idx))

Turn(s, segment) == WithText(Slashed(s, segment), segment.text)

(* `out` is what the buffer and the bytes before it held.                  *)
AtStart(out) == [out |-> out, idx |-> 0, under |-> FALSE]

Normalizing(segments, out) ==
    LET f[i \in 0 .. Len(segments)] == IF i = 0 THEN AtStart(out) ELSE Turn(f[i - 1], segments[i]) IN f

NormalizePath(path, out) == Normalizing(Segments(path), out)[Len(Segments(path))]

(* The path that set_cwd() and get_fullpath() normalise.                   *)
AddTo(s, part) == s \o Copied(part, MaxPath - Len(s))

FullPath(cwd, path) == IF path # <<>> /\ path[1] = "/" THEN path
                       ELSE AddTo(AddTo(AddTo(<<>>, cwd), <<"/">>), path)

IsCut(cwd, path) == IF path # <<>> /\ path[1] = "/" THEN Len(path) >= MaxPath
                    ELSE Len(cwd) + 1 + Len(path) >= MaxPath

(* The names in a path.                                                    *)
WithName(names, text) == IF text = <<>> THEN names ELSE Append(names, text)

Naming(segments) ==
    LET f[i \in 0 .. Len(segments)] == IF i = 0 THEN <<>> ELSE WithName(f[i - 1], segments[i].text) IN f

NamesOf(path) == Naming(Segments(path))[Len(Segments(path))]

(* What a path means: its names applied to the place one is at.            *)
Enter(place, name) == CASE name = <<".">> -> place
                        [] name = <<".", ".">> -> IF place = <<>> THEN <<>> ELSE Front(place)
                        [] OTHER -> Append(place, name)

Walking(place, names) ==
    LET f[i \in 0 .. Len(names)] == IF i = 0 THEN place ELSE Enter(f[i - 1], names[i]) IN f

Walk(place, names) == Walking(place, names)[Len(names)]

Follow(place, path) == Walk(IF path # <<>> /\ path[1] = "/" THEN <<>> ELSE place, NamesOf(path))

=============================================================================
