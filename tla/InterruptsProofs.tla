--------------------------- MODULE InterruptsProofs ----------------------------
(***************************************************************************)
(* The safety of the interrupt path for every set of lines in use, every   *)
(* set of handlers and any number of events and spurious interrupts.       *)
(*                                                                         *)
(* That nothing is left in service is not inductive: it depends on what    *)
(* the controllers marked when the interrupt was taken, and the end of     *)
(* interrupt undoes exactly that.  Inv says what it was.                   *)
(***************************************************************************)
EXTENDS Interrupts, TLAPS

TypeOK ==
    /\ irr \subseteq Lines /\ due \subseteq Lines
    /\ pc \in {"thread", "eoi", "check", "dispatch", "panic"}
    /\ genuine \in BOOLEAN /\ int_number \in Int
    /\ pc \in {"eoi", "check", "dispatch"} => irqNumber \in (0 .. 15) \ {2}

(* While a handler has not acknowledged, the lines in service are those of *)
(* its own interrupt: for the slave's also the cascade, which is all there *)
(* is for its spurious one.                                                *)
OwnService ==
    pc = "eoi" =>
        isr = (IF genuine THEN {irqNumber} ELSE {}) \cup (IF irqNumber \in Slave THEN {Cascade} ELSE {})

(* Only the two last lines are looked at again.                            *)
ChecksLastLines == pc = "check" => irqNumber \in {7, 15}

(* A device waits for a handler only if it has one.                        *)
DueIsHandled == \A line \in due : Vector(line) \in handlers

Inv == /\ TypeOK
       /\ OwnService
       /\ ChecksLastLines
       /\ DueIsHandled
       /\ NothingLeftInService
       /\ NoEventLost

USE InterruptsAssumption

LEMMA InitInv == Init => Inv
<1> SUFFICES ASSUME Init PROVE Inv
  OBVIOUS
<1>1. TypeOK
  <2>1. genuine \in BOOLEAN
    BY Zenon DEF Init
  <2> QED
    BY <2>1 DEF Init, TypeOK
<1> QED
  BY <1>1 DEF Init, Inv, OwnService, ChecksLastLines, DueIsHandled, NothingLeftInService, NoEventLost

-----------------------------------------------------------------------------
(* Taking an interrupt.                                                    *)

(* The vector of a line gives the line back.                               *)
LEMMA VectorOfLine ==
    ASSUME NEW line \in (0 .. 15) \ {2}
    PROVE  /\ Vector(line) - 32 = line
           /\ line \in Slave <=> line >= 8
           /\ line \in Master <=> line < 8
BY DEF Vector, Master, Slave

LEMMA DeviceEventInv == ASSUME Inv, NEW line \in Lines, DeviceEvent(line) PROVE Inv'
<1>1. TypeOK' /\ DueIsHandled'
  BY DEF Inv, TypeOK, DueIsHandled, DeviceEvent, cpuVars, irqNumber
<1>2. OwnService' /\ ChecksLastLines' /\ NothingLeftInService'
  BY DEF Inv, OwnService, ChecksLastLines, NothingLeftInService, DeviceEvent, cpuVars, irqNumber
<1>3. NoEventLost'
  BY DEF Inv, NoEventLost, DeviceEvent, cpuVars, irqNumber
<1> QED
  BY <1>1, <1>2, <1>3 DEF Inv

LEMMA InterruptInv == ASSUME Inv, NEW line \in Lines, Interrupt(line) PROVE Inv'
<1>1. pc = "thread" /\ pc' = "eoi" /\ irqNumber' = line /\ genuine'
  BY VectorOfLine DEF Interrupt, Enter, irqNumber
<1>2. irr' = irr \ {line} /\ due' = due /\ handlers' = handlers
      /\ isr' = {line} \cup (IF line \in Slave THEN {Cascade} ELSE {})
  BY <1>1 DEF Interrupt, Inv, NothingLeftInService
<1>3. TypeOK' /\ DueIsHandled'
  BY <1>1, <1>2 DEF Inv, TypeOK, DueIsHandled, Interrupt, Enter, Vector
<1>4. OwnService' /\ ChecksLastLines' /\ NothingLeftInService'
  BY <1>1, <1>2 DEF OwnService, ChecksLastLines, NothingLeftInService
<1>5. NoEventLost'
  BY <1>1, <1>2 DEF Inv, NoEventLost
<1> QED
  BY <1>3, <1>4, <1>5 DEF Inv

LEMMA SpuriousInterruptInv ==
    ASSUME Inv, NEW line \in {7, 15}, SpuriousInterrupt(line) PROVE Inv'
<1>1. pc = "thread" /\ pc' = "eoi" /\ irqNumber' = line /\ genuine' = FALSE
  BY VectorOfLine DEF SpuriousInterrupt, Enter, irqNumber
<1>2. irr' = irr /\ due' = due /\ handlers' = handlers
      /\ isr' = IF line \in Slave THEN {Cascade} ELSE {}
  BY <1>1 DEF SpuriousInterrupt, Inv, NothingLeftInService, Slave
<1>3. int_number' \in Int /\ irqNumber' \in (0 .. 15) \ {2}
  BY <1>1 DEF SpuriousInterrupt, Enter, Vector, Master
<1>4. TypeOK' /\ DueIsHandled'
  BY <1>1, <1>2, <1>3 DEF Inv, TypeOK, DueIsHandled
<1>5. OwnService' /\ ChecksLastLines' /\ NothingLeftInService'
  BY <1>1, <1>2 DEF OwnService, ChecksLastLines, NothingLeftInService
<1>6. NoEventLost'
  BY <1>1, <1>2 DEF Inv, NoEventLost
<1> QED
  BY <1>4, <1>5, <1>6 DEF Inv

-----------------------------------------------------------------------------
(* Handling it.                                                            *)

(* A line alone in service is the one that is served.                      *)
LEMMA ServedAlone == ASSUME NEW s, NEW line \in Int, s \subseteq {line} PROVE Served(s) = s
<1>1. \A x, y \in s : x <= y
  OBVIOUS
<1> QED
  BY <1>1, Zenon DEF Served

(* One end of interrupt on each controller concerned clears all that the   *)
(* interrupt marked.                                                       *)
LEMMA EoiClears == ASSUME Inv, pc = "eoi" PROVE AfterEoi(isr, irqNumber >= 8) = {}
<1>1. irqNumber \in (0 .. 15) \ {2}
  BY DEF Inv, TypeOK
<1>2. CASE irqNumber < 8
  <2>1. isr \subseteq {irqNumber} /\ irqNumber \in Master
    BY <1>1, <1>2 DEF Inv, OwnService, Slave, Master
  <2>2. isr \cap Master = isr
    BY <2>1
  <2>3. Served(isr) = isr
    <3>1. irqNumber \in Int
      BY <1>1
    <3> QED
      BY <2>1, <3>1, ServedAlone, Zenon
  <2> QED
    BY <1>1, <1>2, <2>2, <2>3 DEF AfterEoi
<1>3. CASE irqNumber >= 8
  <2>1. isr \subseteq {irqNumber, 2} /\ irqNumber \in Slave /\ irqNumber \notin Master
    BY <1>1, <1>3 DEF Inv, OwnService, Slave, Master, Cascade
  <2>2. isr \cap Master \subseteq {2} /\ isr \cap Slave \subseteq {irqNumber}
        /\ isr \subseteq (isr \cap Master) \cup (isr \cap Slave)
    BY <1>1, <2>1 DEF Slave, Master
  <2>3. Served(isr \cap Master) = isr \cap Master /\ Served(isr \cap Slave) = isr \cap Slave
    BY <1>1, <2>2, ServedAlone
  <2> QED
    BY <1>3, <2>2, <2>3 DEF AfterEoi
<1> QED
  BY <1>1, <1>2, <1>3

LEMMA SendEoiInv == ASSUME Inv, SendEoi PROVE Inv'
<1>1. isr' = {} /\ irqNumber' = irqNumber /\ pc' \in {"check", "dispatch"}
  BY EoiClears DEF SendEoi, irqNumber
<1>2. TypeOK' /\ DueIsHandled'
  BY <1>1 DEF SendEoi, Inv, TypeOK, DueIsHandled
<1>3. OwnService' /\ ChecksLastLines' /\ NothingLeftInService'
  BY <1>1 DEF SendEoi, OwnService, ChecksLastLines, NothingLeftInService
<1>4. NoEventLost'
  BY <1>1 DEF SendEoi, Inv, NoEventLost
<1> QED
  BY <1>2, <1>3, <1>4 DEF Inv

(* With nothing in service, the test finds no bit and goes on to dispatch. *)
LEMMA CheckGoesOn == ASSUME Inv, CheckSpurious PROVE pc' = "dispatch" /\ isr' = isr
BY DEF CheckSpurious, Inv, NothingLeftInService

LEMMA CheckSpuriousInv == ASSUME Inv, CheckSpurious PROVE Inv'
<1>1. isr' = isr /\ irqNumber' = irqNumber /\ pc = "check" /\ pc' = "dispatch"
  BY CheckGoesOn DEF CheckSpurious, irqNumber
<1>2. TypeOK' /\ DueIsHandled' /\ NoEventLost'
  BY <1>1 DEF CheckSpurious, Inv, TypeOK, DueIsHandled, NoEventLost
<1>3. OwnService' /\ ChecksLastLines' /\ NothingLeftInService'
  BY <1>1 DEF Inv, OwnService, ChecksLastLines, NothingLeftInService
<1> QED
  BY <1>2, <1>3 DEF Inv

LEMMA DispatchInv == ASSUME Inv, Dispatch PROVE Inv'
<1>1. irr' = irr /\ isr' = isr /\ handlers' = handlers /\ pc = "dispatch" /\ pc' = "thread"
  BY DEF Dispatch, picVars
<1>2. due' \subseteq due
  BY DEF Dispatch
<1>3. TypeOK' /\ DueIsHandled'
  BY <1>1, <1>2 DEF Dispatch, Inv, TypeOK, DueIsHandled
<1>4. OwnService' /\ ChecksLastLines' /\ NothingLeftInService'
  BY <1>1 DEF Inv, OwnService, ChecksLastLines, NothingLeftInService
<1>5. ASSUME NEW line \in due' PROVE line \in irr
  <2>1. CASE irqNumber = line
    <3>1. line \in due /\ Vector(line) \in handlers /\ line \in (0 .. 15) \ {2} /\ int_number \in Int
      BY <1>2, <1>5 DEF Inv, DueIsHandled, TypeOK
    <3>2. int_number = Vector(line)
      BY <2>1, <3>1 DEF irqNumber, Vector, Master, Slave
    <3> QED
      BY <1>5, <2>1, <3>1, <3>2 DEF Dispatch
  <2>2. CASE irqNumber # line
    BY <1>1, <1>2, <1>5, <2>2 DEF Inv, NoEventLost
  <2> QED
    BY <2>1, <2>2
<1>6. NoEventLost'
  BY <1>1, <1>5 DEF NoEventLost
<1> QED
  BY <1>3, <1>4, <1>6 DEF Inv

-----------------------------------------------------------------------------
LEMMA NextInv == Inv /\ [Next]_vars => Inv'
<1> SUFFICES ASSUME Inv, [Next]_vars PROVE Inv'
  OBVIOUS
<1>1. CASE \E line \in Lines : DeviceEvent(line) \/ Interrupt(line)
  BY <1>1, DeviceEventInv, InterruptInv
<1>2. CASE \E line \in {7, 15} : SpuriousInterrupt(line)
  BY <1>2, SpuriousInterruptInv
<1>3. CASE HandlerStep
  BY <1>3, SendEoiInv, CheckSpuriousInv, DispatchInv DEF HandlerStep
<1>4. CASE \E vector \in Handlers : RegisterHandler(vector)
  <2>1. UNCHANGED <<irr, isr, due, pc, int_number, genuine>> /\ handlers \subseteq handlers'
    BY <1>4 DEF RegisterHandler, picVars, cpuVars
  <2> QED
    BY <2>1 DEF Inv, TypeOK, OwnService, ChecksLastLines, DueIsHandled, NothingLeftInService,
                NoEventLost, irqNumber
<1>5. CASE Exception
  BY <1>5 DEF Exception, picVars, countVars, Inv, TypeOK, OwnService, ChecksLastLines,
              DueIsHandled, NothingLeftInService, NoEventLost
<1>6. CASE UNCHANGED vars
  BY <1>6 DEF vars, Inv, TypeOK, OwnService, ChecksLastLines, DueIsHandled, NothingLeftInService,
              NoEventLost, irqNumber
<1> QED
  BY <1>1, <1>2, <1>3, <1>4, <1>5, <1>6 DEF Next

(* Everywhere in the handler the controllers, the handler and the pending  *)
(* events account for each other.                                          *)
THEOREM AlwaysInv == Spec => []Inv
<1>1. Init => Inv
  BY InitInv
<1>2. Inv /\ [Next]_vars => Inv'
  BY NextInv
<1> QED
  BY <1>1, <1>2, PTL DEF Spec

(* After the end of interrupt of irq_c_handler() no line of either         *)
(* controller is in service, whatever interrupt it was.                    *)
THEOREM AlwaysNothingLeftInService == Spec => []NothingLeftInService
<1>1. Inv => NothingLeftInService
  BY DEF Inv
<1> QED
  BY <1>1, AlwaysInv, PTL

(* No event of a device with a handler is lost between its line, the       *)
(* controllers and handle_isr().                                           *)
THEOREM AlwaysNoEventLost == Spec => []NoEventLost
<1>1. Inv => NoEventLost
  BY DEF Inv
<1> QED
  BY <1>1, AlwaysInv, PTL

(* The test for spurious interrupts never swallows a requested one: it     *)
(* reads the in-service bits that the end of interrupt has just cleared.   *)
THEOREM AlwaysGenuineIsDispatched == Spec => GenuineIsDispatched
<1>1. Inv /\ [Next]_vars => [pc = "check" /\ genuine /\ pc' # "check" => pc' = "dispatch"]_vars
  <2> SUFFICES ASSUME Inv, Next, pc = "check", pc' # "check" PROVE pc' = "dispatch"
    OBVIOUS
  <2>1. CheckSpurious
    BY DEF Next, HandlerStep, DeviceEvent, Interrupt, SpuriousInterrupt, Enter, SendEoi, Dispatch,
           RegisterHandler, Exception, cpuVars
  <2> QED
    BY <2>1, CheckGoesOn
<1> QED
  BY <1>1, AlwaysInv, PTL DEF Spec, GenuineIsDispatched

=============================================================================
