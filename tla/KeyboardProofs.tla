---------------------------- MODULE KeyboardProofs ----------------------------
(***************************************************************************)
(* The keyboard buffer is handed over without a lock; that it still keeps  *)
(* the order of the events, for any number of them and at every            *)
(* interleaving of handler, timer and thread, rests on two facts: the      *)
(* controller's byte is always newer than the buffer, and the buffer of a  *)
(* call under way, once full, is newer than what was last returned.        *)
(***************************************************************************)
EXTENDS Keyboard, TLAPS

Counts ==
    /\ typed \in Seq(Kinds)
    /\ sent \in 0 .. Len(typed)
    /\ obf \in {NoEvent, sent} /\ code \in 0 .. sent
    /\ args.code \in 0 .. sent /\ lastCode \in 0 .. sent

(* The byte that waits in the controller is the last one sent, and newer   *)
(* than the one in inargs.  A request without a byte does not occur.       *)
ByteIsNewer == /\ obf # NoEvent => code < obf
               /\ irq => obf # NoEvent

(* Before the handler is registered nothing fetches a byte, so no second   *)
(* one is sent.                                                            *)
BootByte == ~ ready => sent <= 1 /\ obf = sent

Inv == Counts /\ ByteIsNewer /\ BootByte /\ StuckOnlyFromBoot

(* A call is one of the two.  A full buffer holds an event, and so does    *)
(* what read() has copied; key_pressed and key_scancode, and their copy,   *)
(* are of one event.                                                       *)
OneEvent ==
    /\ call \in {"read", "ascii"}
    /\ full \/ pc \in {"clear", "copy"} => code # NoEvent
    /\ code # NoEvent => pressed = typed[code].pressed
    /\ pc = "check" => args.code # NoEvent /\ args.pressed = typed[args.code].pressed

(* What read() is about to return is newer than what it returned last.     *)
ReadIsNewer ==
    /\ lastCode <= code
    /\ pc # "idle" /\ full => lastCode < code
    /\ pc = "clear" => full
    /\ pc = "copy" => lastCode < code
    /\ pc = "check" => lastCode < args.code /\ args.code <= code

(* Every caller leaves discardQueue at its default.                        *)
AllDiscard == Discards = {TRUE}

OrderInv == Inv /\ OneEvent /\ (AllDiscard => ReadIsNewer)

-----------------------------------------------------------------------------
(* The controller and the handler.                                         *)

LEMMA InitInv == Init => Inv
BY DEF Init, Inv, Counts, ByteIsNewer, BootByte, StuckOnlyFromBoot, NoEvent

LEMMA TypeInv == ASSUME Inv, NEW kind \in Kinds, Type(kind) PROVE Inv'
<1>1. typed' \in Seq(Kinds) /\ Len(typed') = Len(typed) + 1
  BY DEF Inv, Counts, Type
<1> QED
  BY <1>1 DEF Type, Inv, Counts, ByteIsNewer, BootByte, StuckOnlyFromBoot, NoEvent,
              bufferVars, threadVars, lastVars

LEMMA ByteArrivesInv == ASSUME Inv, ByteArrives PROVE Inv'
BY DEF ByteArrives, Inv, Counts, ByteIsNewer, BootByte, StuckOnlyFromBoot, NoEvent,
       bufferVars, threadVars, lastVars

LEMMA UnhandledIrqInv == ASSUME Inv, UnhandledIrq PROVE Inv'
BY DEF UnhandledIrq, Inv, Counts, ByteIsNewer, BootByte, StuckOnlyFromBoot, NoEvent,
       bufferVars, threadVars, lastVars

LEMMA KeyboardHandlerInv == ASSUME Inv, KeyboardHandler PROVE Inv'
BY DEF KeyboardHandler, Inv, Counts, ByteIsNewer, BootByte, StuckOnlyFromBoot, NoEvent, lastVars

LEMMA RegisterHandlerInv == ASSUME Inv, RegisterHandler PROVE Inv'
BY DEF RegisterHandler, Inv, Counts, ByteIsNewer, BootByte, StuckOnlyFromBoot, NoEvent,
       bufferVars, threadVars, lastVars

(* All that a step of the thread can do to the counters is copy one.       *)
ThreadOnly == /\ UNCHANGED <<deviceVars, pressed, code, char>>
              /\ args' = args \/ args' = [pressed |-> pressed, code |-> code]
              /\ lastCode' \in {lastCode, args.code}

LEMMA ThreadOnlyInv == ASSUME Inv, ThreadOnly PROVE Inv'
BY DEF ThreadOnly, Inv, Counts, ByteIsNewer, BootByte, StuckOnlyFromBoot, NoEvent, deviceVars

LEMMA ThreadStepIsThreadOnly ==
    ASSUME ThreadStep \/ Tick \/ \E d \in Discards : CallReadAscii(d) \/ \E i \in BOOLEAN : CallRead(i, d)
    PROVE  ThreadOnly
<1>1. CASE Tick
  BY <1>1 DEF Tick, ThreadOnly, bufferVars, lastVars
<1>2. CASE \E d \in Discards : CallReadAscii(d) \/ \E i \in BOOLEAN : CallRead(i, d)
  BY <1>2 DEF CallRead, CallReadAscii, ThreadOnly, lastVars
<1>3. CASE ThreadStep
  BY <1>3 DEF ThreadStep, TestFull, Halt, ReadClear, ReadCopy, ReadReturn, AsciiChar, AsciiPressed,
              AsciiTake, AsciiReturn, ThreadOnly, bufferVars, lastVars
<1> QED
  BY <1>1, <1>2, <1>3

LEMMA NextInv == Inv /\ [Next]_vars => Inv'
<1> SUFFICES ASSUME Inv, [Next]_vars PROVE Inv'
  OBVIOUS
<1>1. CASE (\E kind \in Kinds : Type(kind)) \/ ByteArrives \/ KeyIrq \/ RegisterHandler
  BY <1>1, TypeInv, ByteArrivesInv, UnhandledIrqInv, KeyboardHandlerInv, RegisterHandlerInv
     DEF KeyIrq
<1>2. CASE ThreadStep \/ Tick \/ \E d \in Discards : CallReadAscii(d) \/ \E i \in BOOLEAN : CallRead(i, d)
  BY <1>2, ThreadStepIsThreadOnly, ThreadOnlyInv
<1>3. CASE UNCHANGED vars
  BY <1>3 DEF vars, Inv, Counts, ByteIsNewer, BootByte, StuckOnlyFromBoot
<1> QED
  BY <1>1, <1>2, <1>3 DEF Next

(* The controller's byte is newer than the buffer, at every interleaving.  *)
THEOREM AlwaysInv == Spec => []Inv
<1>1. Init => Inv
  BY InitInv
<1>2. Inv /\ [Next]_vars => Inv'
  BY NextInv
<1> QED
  BY <1>1, <1>2, PTL DEF Spec

(* Once an event has been handled, the controller never again keeps a byte *)
(* that no interrupt will fetch.                                           *)
THEOREM AlwaysStuckOnlyFromBoot == Spec => []StuckOnlyFromBoot
<1>1. Inv => StuckOnlyFromBoot
  BY DEF Inv
<1> QED
  BY <1>1, AlwaysInv, PTL

-----------------------------------------------------------------------------
(* The thread.                                                             *)

LEMMA InitOrder == Init => OneEvent /\ ReadIsNewer
BY DEF Init, OneEvent, ReadIsNewer, NoEvent

LEMMA TypeKeepsOrder == ASSUME OrderInv, NEW kind \in Kinds, Type(kind) PROVE OrderInv'
<1>1. \A e \in 1 .. Len(typed) : typed'[e] = typed[e]
  BY DEF OrderInv, Inv, Counts, Type
<1>2. UNCHANGED <<sent, full, pressed, code, pc, call, args, lastCode>>
  BY DEF Type, bufferVars, threadVars, lastVars
<1>3. OneEvent'
  BY <1>1, <1>2 DEF OrderInv, OneEvent, Inv, Counts, NoEvent
<1> QED
  BY <1>2, <1>3, TypeInv DEF OrderInv, ReadIsNewer

LEMMA HandlerKeepsOrder == ASSUME OrderInv, KeyboardHandler PROVE OrderInv'
<1>1. obf # NoEvent /\ code < obf /\ code' = obf /\ pressed' = typed[obf].pressed
      /\ UNCHANGED <<typed, call, args, lastCode>>
  BY DEF KeyboardHandler, OrderInv, Inv, ByteIsNewer, lastVars
<1>2. pc' = pc \/ (pc = "halted" /\ pc' = "test")
  BY DEF KeyboardHandler, Wake
<1>3. OneEvent'
  BY <1>1, <1>2 DEF OrderInv, OneEvent
<1>4. full'
  BY DEF KeyboardHandler
<1>5. ReadIsNewer => ReadIsNewer'
  BY <1>1, <1>2, <1>4 DEF ReadIsNewer, OrderInv, Inv, Counts, NoEvent
<1> QED
  BY <1>3, <1>5, KeyboardHandlerInv DEF OrderInv

LEMMA OtherDeviceKeepsOrder ==
    ASSUME OrderInv, ByteArrives \/ UnhandledIrq \/ RegisterHandler \/ Tick PROVE OrderInv'
<1>1. UNCHANGED <<typed, full, pressed, code, call, args, lastCode>>
  BY DEF ByteArrives, UnhandledIrq, RegisterHandler, Tick, deviceVars, bufferVars, threadVars, lastVars
<1>2. pc' = pc \/ (pc = "halted" /\ pc' = "test")
  BY DEF ByteArrives, UnhandledIrq, RegisterHandler, Tick, Wake, threadVars
<1>3. OneEvent' /\ (ReadIsNewer => ReadIsNewer')
  BY <1>1, <1>2 DEF OrderInv, OneEvent, ReadIsNewer
<1>4. Inv'
  BY ByteArrivesInv, UnhandledIrqInv, RegisterHandlerInv, ThreadStepIsThreadOnly, ThreadOnlyInv
     DEF OrderInv
<1> QED
  BY <1>3, <1>4 DEF OrderInv

(* A call that discards starts with an empty buffer.                       *)
LEMMA CallKeepsOrder ==
    ASSUME OrderInv, NEW d \in Discards, CallReadAscii(d) \/ \E i \in BOOLEAN : CallRead(i, d)
    PROVE  OrderInv'
<1>1. UNCHANGED <<typed, pressed, code, args, lastCode>> /\ pc = "idle" /\ pc' = "test"
      /\ call' \in {"read", "ascii"}
      /\ full' = IF d THEN FALSE ELSE full
  BY DEF CallRead, CallReadAscii, Begin, Discard, deviceVars, lastVars
<1>2. full' => full
  BY <1>1, Zenon
<1>3. AllDiscard => ~ full'
  <2>1. AllDiscard => d = TRUE
    BY DEF AllDiscard
  <2> QED
    BY <1>1, <2>1, Zenon
<1>4. OneEvent' /\ (AllDiscard /\ ReadIsNewer => ReadIsNewer')
  BY <1>1, <1>2, <1>3 DEF OrderInv, OneEvent, ReadIsNewer
<1> QED
  BY <1>4, ThreadStepIsThreadOnly, ThreadOnlyInv DEF OrderInv

LEMMA ReadKeepsOrder ==
    ASSUME OrderInv, TestFull \/ ReadClear \/ ReadCopy \/ ReadReturn PROVE OrderInv'
<1>1. UNCHANGED <<typed, pressed, code, call>>
  BY DEF TestFull, ReadClear, ReadCopy, ReadReturn, deviceVars, bufferVars
<1>2. CASE TestFull
  <2>1. pc = "test" /\ pc' \in {"halt", "clear", "char"} /\ (pc' = "clear" => full)
        /\ UNCHANGED <<full, call, args, lastCode>>
    BY <1>2 DEF TestFull, OrderInv, OneEvent, bufferVars, lastVars
  <2>2. OneEvent' /\ (ReadIsNewer => ReadIsNewer')
    BY <1>1, <2>1 DEF OrderInv, OneEvent, ReadIsNewer
  <2> QED
    BY <1>2, <2>2, ThreadStepIsThreadOnly, ThreadOnlyInv DEF ThreadStep, OrderInv
<1>3. CASE ReadClear
  <2>1. ~ full' /\ pc = "clear" /\ pc' = "copy" /\ UNCHANGED <<args, lastCode>>
    BY <1>3 DEF ReadClear, lastVars
  <2> QED
    BY <1>1, <1>3, <2>1, ThreadStepIsThreadOnly, ThreadOnlyInv
       DEF ThreadStep, OrderInv, OneEvent, ReadIsNewer
<1>4. CASE ReadCopy
  <2>1. OneEvent' /\ (ReadIsNewer => ReadIsNewer')
    BY <1>1, <1>4 DEF ReadCopy, OrderInv, Inv, Counts, OneEvent, ReadIsNewer, bufferVars, lastVars
  <2> QED
    BY <1>4, <2>1, ThreadStepIsThreadOnly, ThreadOnlyInv DEF ThreadStep, OrderInv
<1>5. CASE ReadReturn
  <2>1. OneEvent' /\ (ReadIsNewer => ReadIsNewer')
    BY <1>1, <1>5 DEF ReadReturn, OrderInv, Inv, Counts, OneEvent, ReadIsNewer, bufferVars
  <2> QED
    BY <1>5, <2>1, ThreadStepIsThreadOnly, ThreadOnlyInv DEF ThreadStep, OrderInv
<1> QED
  BY <1>2, <1>3, <1>4, <1>5

LEMMA AsciiKeepsOrder ==
    ASSUME OrderInv, Halt \/ AsciiChar \/ AsciiPressed \/ AsciiTake \/ AsciiReturn PROVE OrderInv'
<1>1. UNCHANGED <<typed, pressed, code, call, args, lastCode>>
  BY DEF Halt, AsciiChar, AsciiPressed, AsciiTake, AsciiReturn, deviceVars, bufferVars, lastVars
<1>2. pc \notin {"idle", "clear", "copy", "check"} /\ pc' \notin {"clear", "copy", "check"}
      /\ (full' => full)
  BY DEF Halt, AsciiChar, AsciiPressed, AsciiTake, AsciiReturn, bufferVars
<1>3. OneEvent' /\ (ReadIsNewer => ReadIsNewer')
  BY <1>1, <1>2 DEF OrderInv, OneEvent, ReadIsNewer
<1> QED
  BY <1>3, ThreadStepIsThreadOnly, ThreadOnlyInv DEF ThreadStep, OrderInv

LEMMA NextOrder == OrderInv /\ [Next]_vars => OrderInv'
<1> SUFFICES ASSUME OrderInv, [Next]_vars PROVE OrderInv'
  OBVIOUS
<1>1. CASE (\E kind \in Kinds : Type(kind)) \/ ByteArrives \/ Tick \/ KeyIrq \/ RegisterHandler
  BY <1>1, TypeKeepsOrder, HandlerKeepsOrder, OtherDeviceKeepsOrder DEF KeyIrq
<1>2. CASE \E d \in Discards : CallReadAscii(d) \/ \E i \in BOOLEAN : CallRead(i, d)
  BY <1>2, CallKeepsOrder
<1>3. CASE ThreadStep
  BY <1>3, ReadKeepsOrder, AsciiKeepsOrder DEF ThreadStep
<1>4. CASE UNCHANGED vars
  BY <1>4, NextInv DEF vars, OrderInv, OneEvent, ReadIsNewer
<1> QED
  BY <1>1, <1>2, <1>3, <1>4 DEF Next

(* What a copy or a return of read() takes is one event, and newer than    *)
(* the last.                                                               *)
THEOREM AlwaysOrderInv == Spec => []OrderInv
<1>1. Init => OrderInv
  BY InitInv, InitOrder DEF OrderInv
<1>2. OrderInv /\ [Next]_vars => OrderInv'
  BY NextOrder
<1> QED
  BY <1>1, <1>2, PTL DEF Spec

(* Every caller in the kernel leaves discardQueue at its default; then     *)
(* read() returns no event twice and none out of order, and read(true) no  *)
(* release, whatever the handler does between its instructions.            *)
THEOREM AlwaysScancodesInOrder == ASSUME AllDiscard PROVE Spec => ScancodesInOrder
<1>1. OrderInv /\ [Next]_vars
        => [pc = "check" /\ pc' = "idle" => /\ lastCode' > lastCode
                                            /\ ignore => typed[lastCode'].pressed]_vars
  <2> SUFFICES ASSUME OrderInv, Next, pc = "check", pc' = "idle"
               PROVE  /\ lastCode' > lastCode
                      /\ ignore => typed[lastCode'].pressed
    OBVIOUS
  <2>1. ReadReturn
    BY DEF Next, KeyIrq, ThreadStep, Type, ByteArrives, Tick, Wake, UnhandledIrq, KeyboardHandler,
           RegisterHandler, CallRead, CallReadAscii, Begin, TestFull, Halt, ReadClear, ReadCopy,
           AsciiChar, AsciiPressed, AsciiTake, AsciiReturn, threadVars
  <2>2. lastCode' = args.code /\ (ignore => args.pressed)
    BY <2>1 DEF ReadReturn
  <2>3. lastCode < args.code /\ args.code \in Nat /\ lastCode \in Nat
    BY AllDiscard DEF OrderInv, ReadIsNewer, Inv, Counts
  <2>4. args.pressed = typed[args.code].pressed
    BY DEF OrderInv, OneEvent
  <2> QED
    BY <2>2, <2>3, <2>4
<1> QED
  BY <1>1, AlwaysOrderInv, PTL DEF Spec, ScancodesInOrder

=============================================================================
