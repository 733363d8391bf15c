------------------------------ MODULE MCShell -------------------------------
(***************************************************************************)
(* The shell with none, one or two volumes, every short path, and every    *)
(* short line of spaces, quotes, backslashes and letters.                  *)
(***************************************************************************)
EXTENDS Shell

ShortStrings(chars, n) == UNION {[1 .. k -> chars] : k \in 0 .. n}

Folder(rows) == [kind |-> "dir", rows |-> rows, portions |-> 1]
File(portions) == [kind |-> "file", portions |-> portions]

(* Directories with more entries than a page, with a name that wraps, and  *)
(* with one that wraps twice.                                              *)
FirstTree == <<>> :> Folder(<<1, 1, 1, 1, 2, 1, 1>>) @@ << <<"d">> >> :> Folder(<<1, 3, 1>>)
             @@ << <<"d">>, <<"d">> >> :> Folder(<<>>)
             @@ << <<"d">>, <<"f">> >> :> File(1) @@ << <<"f">> >> :> File(3)

(* A disc, whose directories also list themselves and their parents.       *)
SecondTree == <<>> :> Folder(<<1, 1, 1>>) @@ << <<"d">> >> :> File(2)
              @@ << <<".">> >> :> Folder(<<1, 1, 1>>) @@ << <<".", ".">> >> :> Folder(<<1, 1, 1>>)

MCMounts == {<<>>, <<FirstTree>>, <<FirstTree, SecondTree>>}

(* A line without special characters, and one that quotes its words.       *)
Plain(words) == [words |-> words, line |-> Spelled(words, [i \in DOMAIN words |-> FALSE])]
Quoted(words) == [words |-> words, line |-> Spelled(words, [i \in DOMAIN words |-> TRUE])]

PathLines == {Plain(<< <<"cd">>, path>>) : path \in ShortStrings({"/", ".", "d", "f"}, 4) \ {<<>>}}
             \cup {Plain(<< <<name>>, path>>) : name \in {"dir", "readf"},
                                                path \in ShortStrings({"/", "d", "f"}, 3) \ {<<>>}}
Commands == {Plain(<< <<name>> >>) : name \in {"cd", "dir", "readf", "setvol", "exit", "esc", "memdump",
                                               "debugger", "hello"}}
            \cup {Plain(<< <<"setvol">>, <<number>> >>) : number \in {"0", "1", "2"}}

Special == {"space", "quote", "backslash", "x"}
Words(n) == ShortStrings(Special, n) \ {<<>>}
WordLines == {Quoted(<<a, b>>) : a, b \in Words(2)} \cup {Quoted(<<a, b, c>>) : a, b, c \in Words(1)}
RawLines == {[words |-> <<>>, line |-> line] : line \in ShortStrings(Special, 4)}

MCTyped == PathLines \cup Commands \cup WordLines \cup RawLines

MCJunk == {[o \in Offsets |-> ch] : ch \in {"?", "/"}}

=============================================================================
