----------------------------- MODULE Interrupts -----------------------------
(***************************************************************************)
(* Hardware interrupts: the two 8259 controllers as pic.cpp sets them up,  *)
(* the stubs of asm/idt.asm and irq_c_handler() of core/isr.cpp.           *)
(*                                                                         *)
(* Every gate is an interrupt gate, so an interrupt is taken only while    *)
(* the kernel thread runs (pc = "thread") and no other until its iret.     *)
(* Devices raise their lines at any time.  A controller that has lost the  *)
(* request when the CPU acknowledges it answers with its last line and     *)
(* marks nothing in service: the spurious interrupts 7 and 15.             *)
(***************************************************************************)
EXTENDS Integers, FiniteSets

CONSTANTS
    Lines,          \* the interrupt lines in use, numbers 0 .. 15 without 2
    Handlers,       \* the vectors that drivers register at boot
    MaxEvents,      \* bound on the device events
    MaxSpurious     \* bound on the spurious interrupts

ASSUME InterruptsAssumption == /\ Lines \subseteq (0 .. 15) \ {2}
                               /\ Handlers \subseteq 32 .. 47
                               /\ MaxEvents \in Nat /\ MaxSpurious \in Nat

VARIABLES
    irr,        \* the lines requested and not yet acknowledged
    isr,        \* the in-service bits of both controllers, 2 the cascade
    due,        \* lines whose device waits for its registered handler
    handlers,   \* the vectors of isr_handlers that are set
    pc,         \* "thread", or where irq_c_handler() stands, or "panic"
    int_number, \* regs.int_number
    genuine,    \* the interrupt being handled was requested by its line
    events, spurious    \* counted for the bounds

picVars == <<irr, isr>>
cpuVars == <<pc, int_number, genuine>>
countVars == <<events, spurious>>
vars == <<irr, isr, due, handlers, pc, int_number, genuine, events, spurious>>

Master == 0 .. 7
Slave == 8 .. 15
Cascade == 2

(* pic_init(32, 40)                                                        *)
Vector(line) == IF line \in Master THEN 32 + line ELSE 40 + (line - 8)
irqNumber == int_number - 32

(* After idt_flush(); initialising a controller clears its requests.       *)
Init == /\ irr = {} /\ isr = {} /\ due = {} /\ handlers = {}
        /\ pc = "thread" /\ int_number = 0 /\ genuine = FALSE
        /\ events = 0 /\ spurious = 0

-----------------------------------------------------------------------------
(* Devices and controllers.                                                *)

DeviceEvent(line) ==
    /\ events < MaxEvents
    /\ events' = events + 1
    /\ irr' = irr \cup {line}
    /\ due' = IF Vector(line) \in handlers THEN due \cup {line} ELSE due
    /\ UNCHANGED <<isr, handlers, cpuVars, spurious>>

(* A line is passed on when no line of its controller with a lower number, *)
(* or itself, is in service; the slave's lines come in at line 2.          *)
Passes(line, requests, chip) ==
    \A other \in (isr \cap chip) \cup (requests \ {line}) : line < other

SlaveRequests == {line \in irr \cap Slave : Passes(line, irr \cap Slave, Slave)}
MasterRequests == (irr \cap Master) \cup (IF SlaveRequests = {} THEN {} ELSE {Cascade})

Delivered(line) ==
    IF line \in Master THEN line \in MasterRequests /\ Passes(line, MasterRequests, Master)
    ELSE line \in SlaveRequests /\ Passes(Cascade, MasterRequests, Master)

Enter(line, isGenuine) == /\ pc = "thread"
                          /\ pc' = "eoi"
                          /\ int_number' = Vector(line)
                          /\ genuine' = isGenuine

Interrupt(line) ==
    /\ Delivered(line)
    /\ Enter(line, TRUE)
    /\ irr' = irr \ {line}
    /\ isr' = isr \cup {line} \cup (IF line \in Slave THEN {Cascade} ELSE {})
    /\ UNCHANGED <<due, handlers, countVars>>

(* The slave's spurious interrupt is a genuine one of line 2 to the master.*)
SpuriousInterrupt(line) ==
    /\ spurious < MaxSpurious
    /\ spurious' = spurious + 1
    /\ IF line = 7 THEN MasterRequests = {} ELSE SlaveRequests = {}
    /\ Passes(IF line = 7 THEN 7 ELSE Cascade, MasterRequests, Master)
    /\ Enter(line, FALSE)
    /\ isr' = IF line = 7 THEN isr ELSE isr \cup {Cascade}
    /\ UNCHANGED <<irr, due, handlers, events>>

-----------------------------------------------------------------------------
(* pic_send_eoi(): each controller told so ends the service of its most    *)
(* important line.                                                         *)
Served(s) == {line \in s : \A other \in s : line <= other}

AfterEoi(s, includingSlave) ==
    s \ (Served(s \cap Master) \cup (IF includingSlave THEN Served(s \cap Slave) ELSE {}))

MutSendEoi == /\ pc = "eoi"
              /\ isr' = AfterEoi(isr, irqNumber > 8)
              /\ pc' = IF irqNumber \in {7, 15} THEN "check" ELSE "dispatch"
              /\ UNCHANGED <<irr, due, handlers, int_number, genuine, countVars>>

MutSendEoiAfterCheck ==
              /\ pc = "eoi"
              /\ isr' = IF irqNumber \in {7, 15} THEN isr ELSE AfterEoi(isr, irqNumber >= 8)
              /\ pc' = IF irqNumber \in {7, 15} THEN "check" ELSE "dispatch"
              /\ UNCHANGED <<irr, due, handlers, int_number, genuine, countVars>>

(* irq_c_handler(): the end of interrupt goes first.                       *)
SendEoi == /\ pc = "eoi"
           /\ isr' = AfterEoi(isr, irqNumber >= 8)
           /\ pc' = IF irqNumber \in {7, 15} THEN "check" ELSE "dispatch"
           /\ UNCHANGED <<irr, due, handlers, int_number, genuine, countVars>>

(* `if (isr & (1 << irqNumber))`, with pic_get_isr()                       *)
CheckSpurious ==
    /\ pc = "check"
    /\ IF irqNumber \in isr
       THEN /\ isr' = IF irqNumber >= 8 THEN AfterEoi(isr, FALSE) ELSE isr
            /\ pc' = "thread"
       ELSE /\ UNCHANGED isr
            /\ pc' = "dispatch"
    /\ UNCHANGED <<irr, due, handlers, int_number, genuine, countVars>>

MutDispatch ==
    /\ pc = "dispatch"
    /\ due' = IF irqNumber \in handlers THEN due \ {irqNumber} ELSE due
    /\ pc' = "thread"
    /\ UNCHANGED <<picVars, handlers, int_number, genuine, countVars>>

(* handle_isr(): a handler serves all that its device has to say.          *)
Dispatch ==
    /\ pc = "dispatch"
    /\ due' = IF int_number \in handlers THEN due \ {irqNumber} ELSE due
    /\ pc' = "thread"
    /\ UNCHANGED <<picVars, handlers, int_number, genuine, countVars>>

(* register_handler()                                                      *)
RegisterHandler(vector) ==
    /\ pc = "thread"
    /\ handlers' = handlers \cup {vector}
    /\ UNCHANGED <<picVars, due, cpuVars, countVars>>

(* isr_c_handler(): the one handler of an exception, the page fault's,      *)
(* panics like those without a handler.                                    *)
Exception ==
    /\ pc \in {"thread", "dispatch"}
    /\ pc' = "panic"
    /\ UNCHANGED <<picVars, due, handlers, int_number, genuine, countVars>>

HandlerStep == SendEoi \/ CheckSpurious \/ Dispatch

Next == \/ \E line \in Lines : DeviceEvent(line)
        \/ \E line \in Lines : Interrupt(line)
        \/ \E line \in {7, 15} : SpuriousInterrupt(line)
        \/ HandlerStep
        \/ \E vector \in Handlers : RegisterHandler(vector)
        \/ Exception

(* The CPU takes interrupts and runs handlers.                             *)
Fairness == /\ \A line \in Lines : WF_vars(Interrupt(line))
            /\ WF_vars(HandlerStep)

Spec == Init /\ [][Next]_vars /\ Fairness

-----------------------------------------------------------------------------
(* Properties                                                              *)

(* Once irq_c_handler() has sent its end of interrupt no line is in        *)
(* service on either controller, whether the interrupt came from the       *)
(* master, from the slave or from neither: nothing stays shut off.         *)
NothingLeftInService == pc \in {"check", "dispatch", "thread"} => isr = {}

(* An event of a device with a handler is either still requested or about  *)
(* to reach the handler, also when it comes while the line is in service.  *)
NoEventLost ==
    pc # "panic" =>
        \A line \in due : line \in irr \/ (pc # "thread" /\ irqNumber = line)

(* Lines 7 and 15 are shared with the spurious interrupts, yet a requested *)
(* interrupt always reaches the dispatch: the in-service bits are read     *)
(* only after the end of interrupt.                                        *)
GenuineIsDispatched == [][pc = "check" /\ genuine /\ pc' # "check" => pc' = "dispatch"]_vars

(* Every requested line is dispatched, however lines of both controllers   *)
(* and spurious interrupts come between, unless the kernel panics.         *)
RequestIsServed ==
    \A line \in Lines : line \in irr ~> (pc = "dispatch" /\ irqNumber = line) \/ pc = "panic"

(* "This is spurious interrupt." (isr.cpp:41): an interrupt that no line   *)
(* requested does not reach a handler.                                     *)
SpuriousIsNotDispatched == [][pc' = "dispatch" /\ pc = "check" => genuine]_vars
=============================================================================
