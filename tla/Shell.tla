------------------------------- MODULE Shell --------------------------------
(***************************************************************************)
(* The shell, core/shell.cpp: its menu, the console with its command line, *)
(* the current volume and directory, and the memory dumper.  The volumes   *)
(* are trees (Storage has the drivers); the name of a command is one       *)
(* character here, and the commands that only print are one, "other".      *)
(* The log viewer is in Syslog; the shell only waits for it to end.        *)
(***************************************************************************)
EXTENDS Paths

CONSTANTS
    MaxArgv,        \* MAX_CONSOLE_PARSED_ARGV: 60
    Height,         \* lines of the screen: 25
    MappedPages,    \* the memory mapped from address 0 on, in the dumper's pages of 0x100 bytes
    Jump,           \* pages in a jump: 0x1000 / 0x100
    Mounts,         \* the volumes that can be mounted, each a tree
    Typed,          \* lines that can be typed: the words meant, or none, and the line
    Junk            \* what is in a buffer on the stack before its first use

ASSUME ShellAssumption == /\ {MaxArgv, MappedPages, Jump} \subseteq Nat \ {0}
                          /\ Height \in Nat /\ Height > 2

(* Volumes have a number, and a directory the rows that each of its        *)
(* entries takes on the screen: one, unless its name wraps at the right.   *)
(* A line is a string, and has no Nul.                                     *)
Trees == UNION {Range(volumes) : volumes \in Mounts}

ASSUME MountsAssumption ==
    /\ Mounts \subseteq Seq(Trees)
    /\ \A tree \in Trees : \A names \in DOMAIN tree :
           tree[names].kind = "dir" => tree[names].rows \in Seq(Nat \ {0})

(* How words are typed: with a space between them, and each as it is or in *)
(* quotes, with a backslash before what needs one.                         *)
Hidden(word) == FlattenSeq([i \in DOMAIN word |->
                    IF word[i] \in {"quote", "backslash"} THEN <<"backslash", word[i]>> ELSE <<word[i]>>])
Spelling(word, quoted) == IF quoted THEN <<"quote">> \o Hidden(word) \o <<"quote">> ELSE word
Spelled(words, quoted) == FlattenSeq([i \in DOMAIN words |->
                              (IF i = 1 THEN <<>> ELSE <<"space">>) \o Spelling(words[i], quoted[i])])

Means(line, words) ==
    /\ words \in Seq(Seq(Range(line)))
    /\ \E quoted \in [DOMAIN words -> BOOLEAN] :
           /\ line = Spelled(words, quoted)
           /\ \A i \in DOMAIN words :
                  words[i] # <<>> /\ (quoted[i] \/ Range(words[i]) \cap {"space", "quote", "backslash"} = {})

ASSUME InputAssumption ==
    /\ \A input \in Typed :
           /\ input.line \in Seq(Range(input.line)) /\ Nul \notin Range(input.line)
           /\ input.words # <<>> => Means(input.line, input.words)
    /\ \A junk \in Junk : junk \in [Offsets -> Range(junk)]

VARIABLES
    mounted,    \* kstorage::volumes
    mode,       \* what has the keyboard
    back,       \* where a program opened from here returns to
    menuPos,
    cwd, selected,
    typed,      \* the line read and its arguments
    work,       \* what a command that waits for keys has left to print
    memPtr,     \* the dumper's page
    last        \* the outcome of the last command

vars == <<mounted, mode, back, menuPos, cwd, selected, typed, work, memPtr, last>>

NoLine == [args |-> <<>>]
NoWork == [op |-> "none"]
NoOutcome == [op |-> "none"]
Programs == <<"console", "memdump", "syslogs", "debugger">>

Init ==
    /\ mounted \in Mounts
    /\ mode = "menu" /\ back = "menu" /\ menuPos = 0
    /\ cwd = <<>> /\ selected = 0
    /\ typed = NoLine /\ work = NoWork /\ memPtr = 0 /\ last = NoOutcome

-----------------------------------------------------------------------------
(* The menu: make_menu() and open_menu()                                   *)

MoveMenu(step) == menuPos' = (menuPos + step + Len(Programs)) % Len(Programs)

MenuKey ==
    /\ mode = "menu"
    /\ \/ \E step \in {-1, 1} : MoveMenu(step) /\ UNCHANGED <<mode, back, memPtr>>
       \/ /\ mode' = Programs[menuPos + 1] /\ back' = "menu" /\ memPtr' = 0
          /\ UNCHANGED menuPos
    /\ UNCHANGED <<mounted, cwd, selected, typed, work, last>>

-----------------------------------------------------------------------------
(* parse_args()                                                            *)

(* curArg: no argument, or the one so far.                                 *)
Text(cur) == IF cur = <<>> THEN <<>> ELSE cur[1]

MutTakeChar(s, ch) ==
    CASE s.stop -> s
      [] ~s.stop /\ ch = "space" /\ ~s.quoted ->
             IF s.cur = <<>> THEN s
             ELSE IF Len(s.args) >= MaxArgv - 1 THEN [s EXCEPT !.stop = TRUE]
             ELSE [s EXCEPT !.args = Append(@, Text(s.cur)), !.cur = <<>>]
      [] ~s.stop /\ ch = "quote" -> [s EXCEPT !.quoted = ~@]
      [] OTHER -> [s EXCEPT !.cur = <<Append(Text(@), ch)>>]

(* A backslash hides what follows it, and only a quote or a backslash      *)
(* that is hidden reaches the argument.                                    *)
TakeChar(s, ch) ==
    CASE s.stop -> s
      [] ~s.stop /\ s.hide -> [s EXCEPT !.hide = FALSE,
                                        !.cur = IF ch \in {"quote", "backslash"} THEN <<Append(Text(@), ch)>> ELSE @]
      [] ~s.stop /\ ~s.hide /\ ch = "space" /\ ~s.quoted ->
             IF s.cur = <<>> THEN s
             ELSE IF Len(s.args) >= MaxArgv - 1 THEN [s EXCEPT !.stop = TRUE]
             ELSE [s EXCEPT !.args = Append(@, Text(s.cur)), !.cur = <<>>]
      [] ~s.stop /\ ~s.hide /\ ch = "quote" -> [s EXCEPT !.quoted = ~@]
      [] ~s.stop /\ ~s.hide /\ ch = "backslash" -> [s EXCEPT !.hide = TRUE, !.cur = <<Text(@)>>]
      [] OTHER -> [s EXCEPT !.cur = <<Append(Text(@), ch)>>]

(* What parse_args() has after each character of the line.                 *)
NothingParsed == [args |-> <<>>, cur |-> <<>>, quoted |-> FALSE, hide |-> FALSE, stop |-> FALSE]

Parsing(line) ==
    LET f[i \in 0 .. Len(line)] == IF i = 0 THEN NothingParsed ELSE TakeChar(f[i - 1], line[i]) IN f

MutParseArgs(line) ==
    LET s == Parsing(line)[Len(line)]
    IN IF s.cur # <<>> THEN Append(s.args, Text(s.cur)) ELSE s.args

ParseArgs(line) ==
    LET s == Parsing(line)[Len(line)]
    IN IF s.cur # <<>> /\ Len(s.args) < MaxArgv - 1 THEN Append(s.args, Text(s.cur)) ELSE s.args

(* A turn of open_console(): an empty line, or an empty first argument,    *)
(* only prompts again.                                                     *)
ReadLine(input) ==
    /\ mode = "console"
    /\ LET args == ParseArgs(input.line)
       IN  /\ typed' = [words |-> input.words, args |-> args]
           /\ mode' = IF args = <<>> \/ args[1] = <<>> THEN "done" ELSE "command"
    /\ UNCHANGED <<mounted, back, menuPos, cwd, selected, work, memPtr, last>>

Prompt ==
    /\ mode = "done"
    /\ mode' = "console" /\ typed' = NoLine /\ last' = NoOutcome
    /\ UNCHANGED <<mounted, back, menuPos, cwd, selected, work, memPtr>>

-----------------------------------------------------------------------------
(* Commands.                                                               *)

Given(name) == mode = "command" /\ typed.args[1] = <<name>>
HasArg == Len(typed.args) > 1

Node(text) == mounted[selected + 1][NamesOf(text)]

(* resolve_path() on the current volume: a slash only follows a directory. *)
Exists(text) ==
    /\ NamesOf(text) \in DOMAIN mounted[selected + 1]
    /\ NamesOf(text) # <<>> /\ Last(text) = "/" => Node(text).kind = "dir"

IsMounted == selected < Len(mounted)

(* What the path commands work on: the argument under the current          *)
(* directory, or without one the directory itself (get_fullpath()).        *)
Target(junk) == IF HasArg THEN NormalizePath(FullPath(cwd, typed.args[2]), junk)
                ELSE [out |-> [o \in Offsets |-> IF o + 1 \in DOMAIN cwd THEN cwd[o + 1] ELSE Nul],
                      idx |-> Len(cwd), under |-> FALSE]

Outcome(op, target, found) ==
    [op |-> op, from |-> cwd, asked |-> IF HasArg THEN typed.args[2] ELSE <<>>,
     path |-> StringIn(target.out), under |-> target.under, found |-> found]

(* cd: set_cwd() asks the volume without asking whether there is one.      *)
Cd(junk) ==
    /\ Given("cd")
    /\ LET target == Target(junk)
           path == StringIn(target.out)
       IN  \/ /\ ~HasArg
              /\ mode' = "done" /\ UNCHANGED <<cwd, last>>
           \/ /\ HasArg /\ ~IsMounted
              /\ mode' = "crashed" /\ UNCHANGED <<cwd, last>>
           \/ /\ HasArg /\ IsMounted /\ mode' = "done"
              /\ cwd' = IF Exists(path) THEN path ELSE cwd
              /\ last' = Outcome("cd", target, Exists(path))
    /\ UNCHANGED <<mounted, back, menuPos, selected, typed, work, memPtr>>

(* dir: read_dir() calls back once for every entry.                        *)
Dir(junk) ==
    /\ Given("dir")
    /\ LET target == Target(junk)
           path == StringIn(target.out)
           found == IsMounted /\ Exists(path) /\ Node(path).kind = "dir"
       IN  /\ last' = IF IsMounted THEN Outcome("dir", target, found) ELSE NoOutcome
           /\ mode' = IF found THEN "printing" ELSE "done"
           /\ work' = IF found THEN [op |-> "dir", left |-> Node(path).rows, counter |-> 0,
                                           unseen |-> 0, wrapped |-> 0]
                      ELSE NoWork
    /\ UNCHANGED <<mounted, back, menuPos, cwd, selected, typed, memPtr>>

Readf(junk) ==
    /\ Given("readf")
    /\ LET target == Target(junk)
           path == StringIn(target.out)
           found == IsMounted /\ Exists(path)
       IN  /\ last' = IF IsMounted THEN Outcome("readf", target, found) ELSE NoOutcome
           /\ mode' = IF found THEN "printing" ELSE "done"
           /\ work' = IF found THEN [op |-> "readf", left |-> Node(path).portions] ELSE NoWork
    /\ UNCHANGED <<mounted, back, menuPos, cwd, selected, typed, memPtr>>

MutSelectVolume(number) == selected' = IF number > Len(mounted) THEN selected ELSE number

(* setvol leaves the current directory as it is.                           *)
SelectVolume(number) ==
    selected' = IF number >= Len(mounted) THEN selected ELSE number

Number(text) == CASE text = <<"1">> -> 1 [] text = <<"2">> -> 2 [] OTHER -> 0

SetVol ==
    /\ Given("setvol")
    /\ \/ HasArg /\ SelectVolume(Number(typed.args[2]))
       \/ ~HasArg /\ \E number \in 0 .. 2 : SelectVolume(number)
    /\ mode' = "done"
    /\ UNCHANGED <<mounted, back, menuPos, cwd, typed, work, memPtr, last>>

(* exit, and a line that is the character of the Escape key.               *)
Exit ==
    /\ Given("exit") \/ Given("esc")
    /\ mode' = "menu" /\ typed' = NoLine
    /\ UNCHANGED <<mounted, back, menuPos, cwd, selected, work, memPtr, last>>

OpenProgram(name) ==
    /\ Given(name)
    /\ mode' = name /\ back' = "done" /\ memPtr' = 0
    /\ UNCHANGED <<mounted, menuPos, cwd, selected, typed, work, last>>

Other ==
    /\ mode = "command"
    /\ \A name \in {"cd", "dir", "readf", "setvol", "exit", "esc", "memdump", "debugger"} : ~Given(name)
    /\ mode' = "done"
    /\ UNCHANGED <<mounted, back, menuPos, cwd, selected, typed, work, memPtr, last>>

-----------------------------------------------------------------------------
(* Commands that wait for keys in the middle.                              *)

Finish == mode' = "done" /\ work' = NoWork

(* The rows of an entry of dir: those that nobody was asked to read yet,   *)
(* and of those the ones that wrapped names take beyond the first.         *)
PrintRows(rows) ==
    [work EXCEPT !.left = Tail(@), !.unseen = @ + rows, !.wrapped = @ + rows - 1]

MutIterate == work' = [PrintRows(Head(work.left)) EXCEPT !.counter = 0]

(* An entry, and Paginator::iterate(), which counts it once.               *)
Iterate == work' = [PrintRows(Head(work.left)) EXCEPT !.counter = @ + 1]

PrintLine ==
    /\ mode = "printing" /\ work.op = "dir" /\ work.counter < Height - 2
    /\ \/ work.left # <<>> /\ Iterate /\ UNCHANGED mode
       \/ work.left = <<>> /\ Finish
    /\ UNCHANGED <<mounted, back, menuPos, cwd, selected, typed, memPtr, last>>

MoreKey ==
    /\ mode = "printing" /\ work.op = "dir" /\ work.counter >= Height - 2
    /\ \/ Finish
       \/ work' = [work EXCEPT !.counter = 0, !.unseen = 0, !.wrapped = 0] /\ UNCHANGED mode
    /\ UNCHANGED <<mounted, back, menuPos, cwd, selected, typed, memPtr, last>>

(* A portion of readf, and the key it waits for unless it was the last.    *)
PrintPortion ==
    /\ mode = "printing" /\ work.op = "readf"
    /\ \/ Finish
       \/ work.left > 1 /\ work' = [work EXCEPT !.left = @ - 1] /\ UNCHANGED mode
    /\ UNCHANGED <<mounted, back, menuPos, cwd, selected, typed, memPtr, last>>

-----------------------------------------------------------------------------
(* open_memdumper().  A page that is not mapped is a page fault while it   *)
(* is shown, and stops the kernel; the dumper cannot step over it.         *)

DumpForward(pages) ==
    /\ mode = "memdump"
    /\ memPtr' = memPtr + pages
    /\ mode' = IF memPtr' < MappedPages THEN mode ELSE "faulted"

DumpBack(pages) ==
    /\ mode = "memdump" /\ memPtr - pages >= 0
    /\ memPtr' = memPtr - pages
    /\ UNCHANGED mode

DumpKey ==
    /\ \E pages \in {1, Jump} : DumpForward(pages) \/ DumpBack(pages)
    /\ UNCHANGED <<mounted, back, menuPos, cwd, selected, typed, work, last>>

(* Escape in the dumper, the log viewer or the debugger.                   *)
CloseProgram ==
    /\ mode \in {"memdump", "syslogs", "debugger"}
    /\ mode' = back /\ memPtr' = 0
    /\ UNCHANGED <<mounted, back, menuPos, cwd, selected, typed, work, last>>

-----------------------------------------------------------------------------

Next ==
    \/ MenuKey \/ Prompt
    \/ \E input \in Typed : ReadLine(input)
    \/ \E junk \in Junk : Cd(junk) \/ Dir(junk) \/ Readf(junk)
    \/ SetVol \/ Exit \/ Other
    \/ \E name \in {"memdump", "debugger"} : OpenProgram(name)
    \/ PrintLine \/ MoreKey \/ PrintPortion
    \/ DumpKey \/ CloseProgram

Spec == Init /\ [][Next]_vars

-----------------------------------------------------------------------------

(* Types; whatever is typed, argv[] has room for the null pointer behind   *)
(* the arguments (parse_args()), and the current directory its buffer; a   *)
(* dumper that still runs shows mapped memory.                             *)
TypeOK ==
    /\ mounted \in Mounts
    /\ mode \in {"menu", "console", "memdump", "syslogs", "debugger", "command", "printing", "done",
                "crashed", "faulted"}
    /\ back \in {"menu", "done"} /\ menuPos \in 0 .. Len(Programs) - 1
    /\ Len(typed.args) + 1 <= MaxArgv
    /\ Len(cwd) < MaxPath /\ selected \in Nat
    /\ memPtr \in Nat /\ (mode # "faulted" => memPtr < MappedPages)
    /\ work.op \in {"none", "dir", "readf"} /\ last.op \in {"none", "cd", "dir", "readf"}

(* A line that quotes every word and hides the characters that need it     *)
(* gives back those words, as many as there is room for (parse_args()).    *)
ArgsAreTheWords ==
    typed # NoLine /\ typed.words # <<>> =>
        typed.args = SubSeq(typed.words, 1, Lesser(Len(typed.words), MaxArgv - 1))

(* Some ".." on the way asks for the parent of the root.                   *)
Climbs(place, path) ==
    \E n \in DOMAIN NamesOf(path) :
        /\ NamesOf(path)[n] = <<".", ".">>
        /\ Walk(IF path[1] = "/" THEN <<>> ELSE place, SubSeq(NamesOf(path), 1, n - 1)) = <<>>

(* The path a command works on is the one that was asked for, and building *)
(* it stays within its buffer, unless the path is too long or climbs above *)
(* the root (set_cwd(), get_fullpath(), normalize_path()).                 *)
PathIsRight ==
    last # NoOutcome /\ ~IsCut(last.from, last.asked) /\ ~Climbs(NamesOf(last.from), last.asked) =>
        NamesOf(last.path) = Follow(NamesOf(last.from), last.asked) /\ ~last.under

(* cd moves only to something the current volume holds (set_cwd()), and    *)
(* only on a machine without volumes does it follow a missing one, for     *)
(* setvol never selects any (its check of the number).                     *)
CdFindsThePlace ==
    [][/\ cwd' # cwd => NamesOf(cwd') \in DOMAIN mounted[selected + 1]
       /\ mode' = "crashed" => mounted = <<>>]_vars

(* No row of a listing leaves the screen before the user could read it, as *)
(* long as wrapped names take at most one row more between two prompts:    *)
(* the paginator counts entries, with one row to spare (Paginator).        *)
NothingScrollsAway == work.op = "dir" /\ work.wrapped <= 1 => work.unseen < Height

=============================================================================
