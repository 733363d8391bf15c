------------------------------ MODULE Keyboard ------------------------------
(***************************************************************************)
(* kps2 (core/drivers/ps2.cpp): the keyboard interrupt handler, the one-   *)
(* event buffer `inargs` it shares with the kernel thread, and the calls   *)
(* that wait for a key, read(), read_scancode() and read_ascii().          *)
(*                                                                         *)
(* The handler runs with interrupts off, in one step, between any two      *)
(* instructions of the kernel thread that touch `inargs`.  The copy of     *)
(* `inargs` in read() loads key_pressed, key_scancode and key_char in one  *)
(* instruction.  The 8042 controller holds one byte until the CPU reads    *)
(* port 0x60 and requests IRQ 1 only when that byte arrives; the keyboard  *)
(* keeps later events.  The timer interrupt (core/drivers/pit.cpp) does    *)
(* nothing here but end a hlt.                                             *)
(*                                                                         *)
(* Events are numbered in the order they are typed; Kind says what each    *)
(* is.  key_scancode holds the number of the event, key_char the number of *)
(* the event whose character it holds, 0 when it is the character 0.       *)
(***************************************************************************)
EXTENDS Naturals, Sequences

CONSTANTS
    MaxEvents,  \* bound on the events typed
    Discards    \* the values of discardQueue that callers pass

ASSUME KeyboardAssumption == MaxEvents \in Nat /\ Discards \subseteq BOOLEAN

(* A key with a character, a key without, or one of Shift and Ctrl,        *)
(* pressed or released.  CapsLock is handled as a modifier when pressed    *)
(* and as a key without a character when released.                         *)
Kinds == [key : {"char", "plain", "modifier"}, pressed : BOOLEAN]

VARIABLES
    typed,      \* the events typed so far, a sequence of Kinds
    sent,       \* how many of them the controller has taken
    obf,        \* the event in the controller's output buffer, 0 if none
    irq,        \* IRQ 1 is requested and not yet taken
    ready,      \* kps2::init() has registered keyboard_handler
    full,       \* inargs.full_buffer
    pressed,    \* inargs.key_pressed
    code,       \* inargs.key_scancode
    char,       \* inargs.key_char
    pc,         \* where the kernel thread stands in a call, "idle" outside
    call,       \* "read" or "ascii"
    ignore,     \* ignoreReleases of read()
    args,       \* the copy of read(), as [pressed, code]
    lastCode,   \* the event the last read() returned
    lastChar    \* what the last read_ascii() returned

deviceVars == <<typed, sent, obf, irq, ready>>
bufferVars == <<full, pressed, code, char>>
threadVars == <<pc, call, ignore, args>>
lastVars == <<lastCode, lastChar>>
vars == <<typed, sent, obf, irq, ready, full, pressed, code, char, pc, call, ignore, args,
          lastCode, lastChar>>

NoEvent == 0
Nul == 0

(* Interrupts are on from idt_flush() on; the handler is registered later. *)
Init == /\ typed = <<>> /\ sent = 0 /\ obf = NoEvent /\ irq = FALSE
        /\ ready = FALSE
        /\ full = FALSE /\ pressed = FALSE /\ code = NoEvent /\ char = Nul
        /\ pc = "idle" /\ call = "read" /\ ignore = FALSE
        /\ args = [pressed |-> FALSE, code |-> NoEvent]
        /\ lastCode = NoEvent /\ lastChar = Nul

-----------------------------------------------------------------------------
(* The devices.                                                            *)

Type(kind) ==
    /\ Len(typed) < MaxEvents
    /\ typed' = Append(typed, kind)
    /\ UNCHANGED <<sent, obf, irq, ready, bufferVars, threadVars, lastVars>>

ByteArrives ==
    /\ obf = NoEvent /\ sent < Len(typed)
    /\ sent' = sent + 1
    /\ obf' = sent + 1
    /\ irq' = TRUE
    /\ UNCHANGED <<typed, ready, bufferVars, threadVars, lastVars>>

(* An interrupt ends the hlt of a waiting thread.                          *)
Wake == pc' = IF pc = "halted" THEN "test" ELSE pc

(* timer_handler() counts the tick.                                        *)
MutTick == UNCHANGED vars

Tick == /\ Wake
        /\ UNCHANGED <<deviceVars, bufferVars, call, ignore, args, lastVars>>

(* irq_c_handler() finds no handler: the interrupt is acknowledged and the *)
(* byte stays in the controller.                                           *)
UnhandledIrq ==
    /\ irq /\ ~ ready
    /\ irq' = FALSE
    /\ UNCHANGED <<typed, sent, obf, ready, bufferVars, threadVars, lastVars>>

(* scancode_to_ascii(): a release, or a key without a character, gives 0.  *)
CharOf(e) == IF typed[e].pressed /\ typed[e].key = "char" THEN e ELSE Nul

MutKeyboardHandlerKeepsUnread ==
    /\ irq /\ ready
    /\ irq' = FALSE
    /\ IF full THEN UNCHANGED <<obf, bufferVars>>
       ELSE /\ obf' = NoEvent
            /\ full' = TRUE
            /\ pressed' = typed[obf].pressed
            /\ code' = obf
            /\ char' = CharOf(obf)
    /\ Wake
    /\ UNCHANGED <<typed, sent, ready, call, ignore, args, lastVars>>

(* keyboard_handler(): the modifier keys return before key_char is set.    *)
KeyboardHandler ==
    /\ irq /\ ready
    /\ irq' = FALSE
    /\ obf' = NoEvent                               \* port_read8(0x60)
    /\ full' = TRUE
    /\ pressed' = typed[obf].pressed
    /\ code' = obf
    /\ char' = IF typed[obf].key = "modifier" THEN char ELSE CharOf(obf)
    /\ Wake
    /\ UNCHANGED <<typed, sent, ready, call, ignore, args, lastVars>>

(* kps2::init(), after idt_init() and ktimer::init().                      *)
RegisterHandler ==
    /\ ~ ready
    /\ ready' = TRUE
    /\ UNCHANGED <<typed, sent, obf, irq, bufferVars, threadVars, lastVars>>

-----------------------------------------------------------------------------
(* The kernel thread.                                                      *)

Begin(c, i) == pc = "idle" /\ ready /\ pc' = "test" /\ call' = c /\ ignore' = i

Discard(d) == full' = IF d THEN FALSE ELSE full

CallRead(i, d) ==
    /\ Begin("read", i)
    /\ Discard(d)
    /\ UNCHANGED <<deviceVars, pressed, code, char, args, lastVars>>

CallReadAscii(d) ==
    /\ Begin("ascii", FALSE)
    /\ Discard(d)
    /\ UNCHANGED <<deviceVars, pressed, code, char, args, lastVars>>

(* `if (!inargs.full_buffer)`                                              *)
TestFull ==
    /\ pc = "test"
    /\ pc' = CASE ~ full -> "halt"
               [] full /\ call = "read" -> "clear"
               [] full /\ call = "ascii" -> "char"
    /\ UNCHANGED <<deviceVars, bufferVars, call, ignore, args, lastVars>>

(* hlt, an instruction later: an event that came in between does not end   *)
(* it.                                                                     *)
Halt ==
    /\ pc = "halt"
    /\ pc' = "halted"
    /\ UNCHANGED <<deviceVars, bufferVars, call, ignore, args, lastVars>>

ReadClear ==
    /\ pc = "clear"
    /\ full' = FALSE
    /\ pc' = "copy"
    /\ UNCHANGED <<deviceVars, pressed, code, char, call, ignore, args, lastVars>>

ReadCopy ==
    /\ pc = "copy"
    /\ args' = [pressed |-> pressed, code |-> code]
    /\ pc' = "check"
    /\ UNCHANGED <<deviceVars, bufferVars, call, ignore, lastVars>>

MutReadReturnChecksBuffer ==
    /\ pc = "check"
    /\ IF ignore /\ ~ pressed
       THEN pc' = "test" /\ UNCHANGED lastCode
       ELSE pc' = "idle" /\ lastCode' = args.code
    /\ UNCHANGED <<deviceVars, bufferVars, call, ignore, args, lastChar>>

ReadReturn ==
    /\ pc = "check"
    /\ IF ignore /\ ~ args.pressed
       THEN pc' = "test" /\ UNCHANGED lastCode
       ELSE pc' = "idle" /\ lastCode' = args.code
    /\ UNCHANGED <<deviceVars, bufferVars, call, ignore, args, lastChar>>

(* Neither of the two tests of read_ascii() clears the buffer when it goes *)
(* round again.                                                            *)
AsciiChar ==
    /\ pc = "char"
    /\ pc' = IF char = Nul THEN "test" ELSE "press"
    /\ UNCHANGED <<deviceVars, bufferVars, call, ignore, args, lastVars>>

AsciiPressed ==
    /\ pc = "press"
    /\ pc' = IF pressed THEN "take" ELSE "test"
    /\ UNCHANGED <<deviceVars, bufferVars, call, ignore, args, lastVars>>

(* get_char(): two instructions.                                           *)
AsciiTake ==
    /\ pc = "take"
    /\ full' = FALSE
    /\ pc' = "give"
    /\ UNCHANGED <<deviceVars, pressed, code, char, call, ignore, args, lastVars>>

AsciiReturn ==
    /\ pc = "give"
    /\ lastChar' = char
    /\ pc' = "idle"
    /\ UNCHANGED <<deviceVars, bufferVars, call, ignore, args, lastCode>>

-----------------------------------------------------------------------------
KeyIrq == UnhandledIrq \/ KeyboardHandler

ThreadStep == \/ TestFull \/ Halt \/ ReadClear \/ ReadCopy \/ ReadReturn
              \/ AsciiChar \/ AsciiPressed \/ AsciiTake \/ AsciiReturn

Next == \/ \E kind \in Kinds : Type(kind)
        \/ ByteArrives
        \/ Tick
        \/ KeyIrq
        \/ RegisterHandler
        \/ \E i \in BOOLEAN, d \in Discards : CallRead(i, d)
        \/ \E d \in Discards : CallReadAscii(d)
        \/ ThreadStep

(* The hardware delivers bytes, ticks and requested interrupts, the boot   *)
(* code gets to kps2::init(), and the thread runs on.                      *)
Fairness == /\ WF_vars(ByteArrives) /\ WF_vars(Tick) /\ WF_vars(KeyIrq)
            /\ WF_vars(RegisterHandler) /\ WF_vars(ThreadStep)

Spec == Init /\ [][Next]_vars /\ Fairness

-----------------------------------------------------------------------------
(* Properties                                                              *)

Event == 0 .. MaxEvents

(* read() returns every event at most once and in the order of typing, and *)
(* read(true) never a key release, even when an event arrives between the  *)
(* clearing of full_buffer and the copy, or after the copy.                *)
ScancodesInOrder ==
    [][pc = "check" /\ pc' = "idle" =>
           /\ lastCode' > lastCode
           /\ ignore => typed[lastCode'].pressed]_vars

(* The controller can be left with a byte that no interrupt will fetch     *)
(* only by the first event, taken before the handler was registered: once  *)
(* an event has been handled the keyboard stays alive.                     *)
StuckOnlyFromBoot == obf # NoEvent /\ ~ irq => obf = 1

(* An event in the buffer that a waiting call asks for is returned, unless *)
(* the next event overwrites it, although hlt may be entered just after    *)
(* the event arrived: the next timer interrupt ends it.                    *)
Wanted(e) == /\ pc # "idle" /\ full /\ code = e
             /\ IF call = "read" THEN ignore => pressed ELSE pressed /\ char # Nul

WantedIsReturned == \A e \in Event \ {0} : Wanted(e) ~> pc = "idle" \/ code # e
=============================================================================
