----------------------------- MODULE DiskProofs ------------------------------
(***************************************************************************)
(* The safety of the disks, from the driver up to the volumes.             *)
(*                                                                         *)
(* The IDE driver, for disks of every size, commands of every length,      *)
(* every split of the sector number over the registers and every order in  *)
(* which the drives work and fail.  The driver and the drive count the     *)
(* sectors of a command each on its own.  The invariant ties the two       *)
(* together: while the driver polls, what the drive has left and where it  *)
(* stands follow from idx, or the drive has failed this very command and   *)
(* its cells are in missed.                                                *)
(*                                                                         *)
(* The volumes, for disks of every content whose cluster chains end: the   *)
(* invariant says that the volumes in the table are ones that probing the  *)
(* drives and their partitions finds, so everything read from them has its *)
(* type whatever the sectors hold.                                         *)
(***************************************************************************)
EXTENDS Ide, Storage, Recursion

-----------------------------------------------------------------------------
(* The IDE driver.                                                         *)

Serving == pc \in {"present", "type", "delay", "poll"}
Transferring == call.op # "identify"
PortionCells == Cell .. done + Portion - 1

(* Where the driver can be, by what it does.                               *)
StepsOK ==
    /\ pc \in {"ready", "flush", "next"} => Transferring
    /\ pc \in {"boot", "present", "type", "analyze", "rejected"} => ~ Transferring
    /\ pc = "flush" => call.op = "write"

(* How far a call has come.                                                *)
CallOK ==
    /\ done \in 0 .. call.count /\ idx \in 0 .. call.count
    /\ ~ Transferring => call.start = 0 /\ call.count = 1 /\ done = 0
    /\ Transferring => kind[call.drive] = "disk" /\ call.start + call.count <= Sectors
    /\ pc # "idle" => done < call.count
    /\ pc \in {"present", "type", "delay"} => idx = 0
    /\ pc \in {"poll", "flush", "next"} => idx <= Portion
    /\ Transferring /\ pc \in {"select", "ready", "command"} => idx = 0
    /\ Transferring /\ pc = "idle" => done = call.count /\ idx = 0

(* The drive at work is one that is there; with sectors left it is in a    *)
(* command that the driver polls for.                                      *)
DriveOK ==
    /\ drive.phase # "idle" => Present
    /\ drive.phase \in {"busy", "data"} => sel \notin err
    /\ drive.phase = "data" => drive.left > 0 /\ Serves
    /\ drive.phase = "idle" => drive.left = 0
    /\ drive.left > 0 => Serving
    /\ ~ Transferring /\ ~ Serving => drive.phase = "idle"
    /\ pc = "command" => drive.phase = "idle"
    /\ Transferring /\ pc \in {"ready", "command"} => Present
    /\ pc \in {"type", "delay", "poll"} => Present
    /\ pc = "poll" => drive.phase # "late"

(* The command under way, as the driver and the drive count it.            *)
InStep == /\ drive.phase # "idle" /\ drive.cmd = call.op
          /\ drive.left > 0 /\ drive.left = Portion - idx
          /\ drive.lba = high * LbaLow + ((call.start + done) % LbaLow) + idx

GaveUp == /\ drive.phase = "idle" /\ sel \in err /\ faulted
          /\ PortionCells \subseteq missed

CommandOK == Serving => InStep \/ (Present /\ GaveUp) \/ (~ Present /\ drive.phase = "idle")

(* The registers hold what the call asked for.                             *)
RegistersOK ==
    /\ heard /\ Transferring /\ pc \in {"ready", "command", "delay", "poll"} =>
           sel = call.drive /\ high = LbaTop
    /\ ~ Transferring /\ (Serving \/ pc \in {"command", "analyze", "rejected"}) => sel = call.drive

(* The cells of a read before Cell are served or missed, the others are    *)
(* not yet touched.                                                        *)
MissedOK ==
    call.op = "read" =>
        IF (Serving /\ drive.phase = "idle") \/ pc = "next"
        THEN PortionCells \subseteq missed /\ missed \subseteq 0 .. done + Portion - 1
        ELSE missed \subseteq 0 .. Cell - 1

CellsOK ==
    call.op = "read" /\ heard =>
        \A c \in 0 .. call.count - 1 :
            out[c] = IF c < Cell /\ c \notin missed THEN <<call.drive, call.start + c>> ELSE NoSector

(* Detection: the drives already asked.                                    *)
Registered(d) == \E i \in 1 .. Len(devices) : devices[i] = d
Settled(d) == kind[d] = "disk" /\ d \notin err => Registered(d)

DetectionOK ==
    /\ \A i \in 1 .. Len(devices) : kind[devices[i]] = "disk"
    /\ ~ Transferring =>
           /\ pc = "boot" => call.drive = "master"
           /\ pc # "idle" => devices \in (IF call.drive = "master" THEN {<<>>} ELSE {<<>>, <<"master">>})
           /\ pc # "idle" /\ call.drive = "slave" => Settled("master")
           /\ pc = "rejected" => kind[call.drive] # "disk" \/ call.drive \in err
           /\ pc = "idle" => \A d \in Drives : Settled(d)

Inv == /\ TypeOK /\ StepsOK /\ CallOK /\ DriveOK /\ CommandOK /\ RegistersOK
       /\ MissedOK /\ CellsOK /\ DetectionOK

-----------------------------------------------------------------------------
(* Numbers.                                                                *)

LEMMA Sizes ==
    /\ LbaLow \in Nat \ {0} /\ LbaHigh \in Nat \ {0} /\ Sectors \in Nat \ {0} /\ MaxPortion \in Nat \ {0}
    /\ Sectors <= LbaLow * LbaHigh
BY IdeAssumption

(* A number split over the registers is put together again, and never      *)
(* exceeds what the registers can express.                                 *)
LEMMA SplitNumber ==
    ASSUME NEW n \in Nat, n < Sectors
    PROVE  /\ (n \div LbaLow) % LbaHigh \in 0 .. LbaHigh - 1
           /\ ((n \div LbaLow) % LbaHigh) * LbaLow + (n % LbaLow) = n
<1>1. n = LbaLow * (n \div LbaLow) + (n % LbaLow) /\ n \div LbaLow \in Nat /\ n % LbaLow \in 0 .. LbaLow - 1
  BY Sizes
<1>2. n \div LbaLow < LbaHigh
  <2>1. CASE n \div LbaLow >= LbaHigh
    <3>1. LbaLow * LbaHigh <= LbaLow * (n \div LbaLow)
      BY <1>1, <2>1, Sizes
    <3> QED
      BY <1>1, <3>1, Sizes
  <2> QED
    BY <1>1, <2>1, Sizes
<1>3. (n \div LbaLow) % LbaHigh = n \div LbaLow
  BY <1>1, <1>2, Sizes
<1> QED
  BY <1>1, <1>2, <1>3, Sizes

LEMMA RegisterNumber ==
    ASSUME NEW h \in 0 .. LbaHigh - 1, NEW n \in Nat
    PROVE  h * LbaLow + (n % LbaLow) \in 0 .. LbaLow * LbaHigh - 1
<1>1. h \in Nat /\ h + 1 <= LbaHigh /\ n % LbaLow \in 0 .. LbaLow - 1
  BY Sizes
<1>2. (h + 1) * LbaLow <= LbaHigh * LbaLow
  BY <1>1, Sizes
<1>3. (h + 1) * LbaLow = h * LbaLow + LbaLow /\ LbaHigh * LbaLow = LbaLow * LbaHigh
      /\ h * LbaLow \in Nat /\ LbaLow * LbaHigh \in Nat
  BY <1>1, Sizes
<1> QED
  BY <1>1, <1>2, <1>3, Sizes

LEMMA PortionOf ==
    ASSUME Inv
    PROVE  /\ call.count \in Nat /\ done \in Nat /\ idx \in Nat /\ call.start \in Nat
           /\ Portion \in 0 .. MaxPortion /\ done + Portion <= call.count
           /\ done < call.count => Portion > 0
           /\ call.start + done < Sectors \/ done = call.count
<1>1. /\ call.count \in Nat \ {0} /\ done \in Nat /\ idx \in Nat /\ call.start \in Nat /\ done <= call.count
      /\ call.start < Sectors
  BY Sizes DEF Inv, TypeOK, CallOK
<1>2. call.start + call.count <= Sectors
  BY <1>1, Sizes DEF Inv, CallOK, Transferring
<1>3. Portion \in 0 .. MaxPortion /\ done + Portion <= call.count /\ (done < call.count => Portion > 0)
  BY <1>1, Sizes DEF Portion
<1> QED
  BY <1>1, <1>2, <1>3, Sizes

(* The number in the registers when they hold what the call asked for.     *)
LEMMA AskedNumber ==
    ASSUME Inv, done < call.count, Transferring
    PROVE  /\ LbaTop \in 0 .. LbaHigh - 1
           /\ LbaTop * LbaLow + ((call.start + done) % LbaLow) = call.start + done
<1>1. call.start + done \in Nat /\ call.start + done < Sectors
  BY PortionOf
<1> QED
  BY <1>1, SplitNumber DEF LbaTop

-----------------------------------------------------------------------------
LEMMA InitInv == Init => Inv
<1> SUFFICES ASSUME Init PROVE Inv
  OBVIOUS
<1>1. {heard, faulted} \subseteq BOOLEAN
  BY DEF Init
<1>2. Cell = 0 /\ Portion \in Nat /\ devices = <<>> /\ Len(devices) = 0
  BY Sizes DEF Init, Cell, Portion
<1>3. LbaLow * LbaHigh \in Nat
  BY Sizes
<1>4. TypeOK
  BY <1>1, <1>2, <1>3, Sizes DEF Init, TypeOK, Drives, Idle
<1>5. StepsOK /\ CallOK /\ RegistersOK /\ MissedOK /\ CellsOK
  BY DEF Init, StepsOK, CallOK, RegistersOK, MissedOK, CellsOK, Transferring, Serving
<1>6. DriveOK /\ CommandOK
  BY DEF Init, DriveOK, CommandOK, Transferring, Serving, Idle
<1>7. DetectionOK
  BY <1>2 DEF Init, DetectionOK, Transferring
<1> QED
  BY <1>4, <1>5, <1>6, <1>7 DEF Inv

(* A step that only moves the driver on.                                   *)
PcOnly == UNCHANGED <<kind, driveVars, devices, callVars, heard, faulted>>

LEMMA PcOnlyKeeps ==
    ASSUME Inv, PcOnly, pc' \in {"select", "command", "type", "delay", "poll", "rejected", "next", "flush", "idle"}
    PROVE  /\ TypeOK' /\ CellsOK'
           /\ UNCHANGED <<kind, sel, high, drive, err, devices, call, done, idx, out, missed, heard, faulted>>
           /\ UNCHANGED <<Portion, Cell, PortionCells, Transferring, Present, Serves, LbaTop>>
           /\ InStep' = InStep /\ GaveUp' = GaveUp
<1>1. UNCHANGED <<kind, sel, high, drive, err, devices, call, done, idx, out, missed, heard, faulted>>
  BY DEF PcOnly, driveVars, callVars
<1>2. UNCHANGED <<Portion, Cell, PortionCells, Transferring, Present, Serves, LbaTop>>
  BY <1>1 DEF Portion, Cell, PortionCells, Transferring, Present, Serves, LbaTop
<1>3. InStep' = InStep /\ GaveUp' = GaveUp
  BY <1>1, <1>2, Zenon DEF InStep, GaveUp
<1>4. TypeOK'
  BY <1>1 DEF Inv, TypeOK, Cell
<1>5. CellsOK'
  BY <1>1 DEF Inv, CellsOK, Cell
<1> QED
  BY <1>1, <1>2, <1>3, <1>4, <1>5

LEMMA BootSteps == ASSUME Inv, FloatingBus \/ FindDrives PROVE Inv'
<1>1. pc = "boot" /\ PcOnly
      /\ \/ pc' = "idle" /\ \A d \in Drives : kind[d] = "none"
         \/ pc' = "select"
  BY DEF FloatingBus, FindDrives, PcOnly
<1>2. /\ TypeOK' /\ CellsOK'
      /\ UNCHANGED <<kind, sel, high, drive, err, devices, call, done, idx, out, missed, heard, faulted>>
      /\ UNCHANGED <<Portion, Cell, PortionCells, Transferring, Present, Serves, LbaTop>>
      /\ InStep' = InStep /\ GaveUp' = GaveUp
  BY <1>1, PcOnlyKeeps
<1>3. ~ Transferring /\ ~ Serving /\ ~ Serving'
  BY <1>1 DEF Inv, StepsOK, Serving
<1>4. StepsOK' /\ CallOK' /\ CommandOK' /\ RegistersOK'
  BY <1>1, <1>2, <1>3 DEF Inv, StepsOK, CallOK, CommandOK, RegistersOK
<1>5. DriveOK'
  BY <1>1, <1>2, <1>3 DEF Inv, DriveOK
<1>6. MissedOK'
  BY <1>1, <1>2, <1>3 DEF MissedOK, Transferring
<1>7. DetectionOK'
  BY <1>1, <1>2, <1>3 DEF Inv, DetectionOK, Settled, Registered, Drives
<1> QED
  BY <1>2, <1>4, <1>5, <1>6, <1>7 DEF Inv

LEMMA WaitSteps == ASSUME Inv, Ready \/ Delay PROVE Inv'
<1>1. PcOnly /\ \/ pc = "ready" /\ pc' = "command" /\ drive.phase \notin {"late", "busy"}
                \/ pc = "delay" /\ pc' = "poll" /\ drive.phase # "late"
  BY DEF Ready, Delay, PcOnly
<1>2. /\ TypeOK' /\ CellsOK'
      /\ UNCHANGED <<kind, sel, high, drive, err, devices, call, done, idx, out, missed, heard, faulted>>
      /\ UNCHANGED <<Portion, Cell, PortionCells, Transferring, Present, Serves, LbaTop>>
      /\ InStep' = InStep /\ GaveUp' = GaveUp
  BY <1>1, PcOnlyKeeps
<1>3. Serving' = Serving
  BY <1>1 DEF Serving
<1>4. pc = "ready" => Transferring /\ drive.phase = "idle"
  BY <1>1 DEF Inv, TypeOK, StepsOK, DriveOK, Serving
<1>5. StepsOK' /\ CallOK'
  BY <1>1, <1>2, <1>4, PortionOf DEF Inv, StepsOK, CallOK
<1>6. CommandOK' /\ RegistersOK'
  BY <1>1, <1>2, <1>3, <1>4 DEF Inv, CommandOK, RegistersOK
<1>7. DriveOK'
  BY <1>1, <1>2, <1>3, <1>4 DEF Inv, DriveOK
<1>8. MissedOK'
  BY <1>1, <1>2, <1>3 DEF Inv, MissedOK
<1>9. DetectionOK'
  BY <1>1, <1>2, <1>4 DEF Inv, DetectionOK, Settled, Registered
<1> QED
  BY <1>2, <1>5, <1>6, <1>7, <1>8, <1>9 DEF Inv

(* The driver leaves the polling with an error only if the drive gave up.  *)
LEMMA ErrorIsReal == ASSUME Inv, PollError PROVE drive.phase = "idle" /\ Present /\ GaveUp /\ sel \in err
<1>1. pc = "poll" /\ drive.phase # "busy" /\ sel \in err
  BY DEF PollError, Busy
<1>2. drive.phase = "idle"
  BY <1>1 DEF Inv, TypeOK, DriveOK
<1>3. Present
  BY <1>1 DEF Inv, DriveOK
<1> QED
  BY <1>1, <1>2, <1>3 DEF Inv, CommandOK, Serving, InStep

LEMMA PollErrorInv == ASSUME Inv, PollError PROVE Inv'
<1>1. drive.phase = "idle" /\ Present /\ GaveUp /\ sel \in err
  BY ErrorIsReal
<1>2. pc = "poll" /\ PcOnly
      /\ \/ call.op = "identify" /\ pc' = "rejected"
         \/ call.op = "read" /\ pc' = "next"
         \/ call.op = "write" /\ pc' = "flush"
  BY DEF PollError, PcOnly, AfterCommand, Inv, TypeOK
<1>3. /\ TypeOK' /\ CellsOK'
      /\ UNCHANGED <<kind, sel, high, drive, err, devices, call, done, idx, out, missed, heard, faulted>>
      /\ UNCHANGED <<Portion, Cell, PortionCells, Transferring, Present, Serves, LbaTop>>
      /\ InStep' = InStep /\ GaveUp' = GaveUp
  BY <1>2, PcOnlyKeeps
<1>4. Serving /\ ~ Serving' /\ drive.left = 0
  BY <1>1, <1>2 DEF Serving, Inv, DriveOK
<1>5. StepsOK' /\ CallOK' /\ CommandOK' /\ RegistersOK'
  BY <1>2, <1>3, <1>4 DEF Inv, StepsOK, CallOK, CommandOK, RegistersOK, Transferring
<1>6. DriveOK'
  BY <1>1, <1>2, <1>3, <1>4 DEF Inv, DriveOK
<1>7. MissedOK'
  BY <1>1, <1>2, <1>3, <1>4 DEF Inv, MissedOK
<1>8. DetectionOK'
  BY <1>1, <1>2, <1>3, <1>4 DEF Inv, DetectionOK, Settled, Registered, RegistersOK, Transferring
<1> QED
  BY <1>3, <1>5, <1>6, <1>7, <1>8 DEF Inv

LEMMA IdentifySteps == ASSUME Inv, CheckPresent \/ ReadDevType PROVE Inv'
<1>1. PcOnly
      /\ \/ pc = "present" /\ Present /\ pc' = "type"
         \/ pc = "present" /\ ~ Present /\ pc' = "rejected"
         \/ pc = "type" /\ kind[sel] = "packet" /\ drive.phase = "idle" /\ pc' = "rejected"
         \/ pc = "type" /\ pc' = "delay"
  BY DEF CheckPresent, ReadDevType, PcOnly
<1>2. /\ TypeOK' /\ CellsOK'
      /\ UNCHANGED <<kind, sel, high, drive, err, devices, call, done, idx, out, missed, heard, faulted>>
      /\ UNCHANGED <<Portion, Cell, PortionCells, Transferring, Present, Serves, LbaTop>>
      /\ InStep' = InStep /\ GaveUp' = GaveUp
  BY <1>1, PcOnlyKeeps
<1>3. ~ Transferring /\ Serving /\ (Serving' <=> pc' # "rejected")
  BY <1>1 DEF Serving, Inv, StepsOK
<1>4. sel = call.drive /\ (pc' = "rejected" => drive.phase = "idle" /\ kind[sel] # "disk" /\ drive.left = 0)
  BY <1>1, <1>3 DEF Inv, DriveOK, RegistersOK, CommandOK, InStep, Present
<1>5. StepsOK' /\ CallOK' /\ RegistersOK'
  BY <1>1, <1>2, <1>3, <1>4 DEF Inv, StepsOK, CallOK, RegistersOK
<1>6. CommandOK'
  BY <1>1, <1>2, <1>3 DEF Inv, CommandOK
<1>7. DriveOK'
  BY <1>1, <1>2, <1>3, <1>4 DEF Inv, DriveOK
<1>8. MissedOK'
  BY <1>2, <1>3 DEF MissedOK, Transferring
<1>9. DetectionOK'
  BY <1>1, <1>2, <1>3, <1>4 DEF Inv, DetectionOK, Settled, Registered
<1> QED
  BY <1>2, <1>5, <1>6, <1>7, <1>8, <1>9 DEF Inv

-----------------------------------------------------------------------------
(* The drives.                                                             *)

(* What a step of a drive leaves to the driver.                            *)
DriverSame == UNCHANGED <<kind, sel, high, devices, pc, call, done, idx, out, heard>>

LEMMA DriverSameKeeps ==
    ASSUME Inv, DriverSame
    PROVE  /\ UNCHANGED <<Portion, Cell, PortionCells, Transferring, Serving, Present, LbaTop>>
           /\ StepsOK' /\ CallOK' /\ RegistersOK'
<1>1. UNCHANGED <<Portion, Cell, PortionCells, Transferring, Serving, Present, LbaTop>>
  BY DEF DriverSame, Portion, Cell, PortionCells, Transferring, Serving, Present, LbaTop
<1>2. StepsOK' /\ RegistersOK'
  BY <1>1 DEF DriverSame, Inv, StepsOK, RegistersOK
<1>3. CallOK'
  BY <1>1 DEF DriverSame, Inv, CallOK
<1> QED
  BY <1>1, <1>2, <1>3

LEMMA AcceptsInv == ASSUME Inv, Accepts PROVE Inv'
<1>1. /\ drive.phase = "late" /\ err' = err \ {sel} /\ missed' = missed /\ DriverSame /\ faulted' = faulted
      /\ drive'.phase = "busy" /\ drive'.cmd = drive.cmd /\ drive'.lba = drive.lba /\ drive'.left = drive.left
  BY DEF Accepts, callVars, DriverSame, Inv, TypeOK
<1>2. /\ UNCHANGED <<Portion, Cell, PortionCells, Transferring, Serving, Present, LbaTop>>
      /\ StepsOK' /\ CallOK' /\ RegistersOK'
  BY <1>1, DriverSameKeeps
<1>3. TypeOK'
  BY <1>1, <1>2 DEF Accepts, DriverSame, Inv, TypeOK
<1>4. DriveOK'
  BY <1>1, <1>2 DEF DriverSame, Inv, DriveOK
<1>5. CommandOK'
  BY <1>1, <1>2 DEF DriverSame, Inv, CommandOK, InStep, GaveUp
<1>6. MissedOK' /\ CellsOK'
  BY <1>1, <1>2 DEF DriverSame, Inv, MissedOK, CellsOK
<1>7. DetectionOK'
  <2>1. ~ Transferring => Serving /\ sel = call.drive
    BY <1>1 DEF Inv, DriveOK, RegistersOK
  <2> QED
    BY <1>1, <1>2, <2>1 DEF DriverSame, Inv, DetectionOK, Settled, Registered, Serving
<1> QED
  BY <1>2, <1>3, <1>4, <1>5, <1>6, <1>7 DEF Inv

LEMMA ProceedsInv == ASSUME Inv, Proceeds PROVE Inv'
<1>1. /\ drive.phase = "busy" /\ Serves /\ DriverSame /\ UNCHANGED <<err, missed, faulted>>
      /\ drive' = IF drive.left > 0 THEN [drive EXCEPT !.phase = "data"] ELSE Idle
  BY DEF Proceeds, Busy, callVars, DriverSame
<1>2. /\ UNCHANGED <<Portion, Cell, PortionCells, Transferring, Serving, Present, LbaTop>>
      /\ StepsOK' /\ CallOK' /\ RegistersOK'
  BY <1>1, DriverSameKeeps
<1>3. TypeOK'
  <2>1. drive' \in [phase : {"idle", "late", "busy", "data"}, left : 0 .. MaxPortion,
                    cmd : {"none", "identify", "read", "write", "flush"}, lba : 0 .. LbaLow * LbaHigh]
    <3>1. CASE drive.left > 0
      BY <1>1, <3>1 DEF Inv, TypeOK
    <3>2. CASE ~ (drive.left > 0)
      <4>1. drive' = Idle /\ 0 \in 0 .. LbaLow * LbaHigh /\ 0 \in 0 .. MaxPortion
        BY <1>1, <3>2, Sizes
      <4> QED
        BY <4>1 DEF Idle
    <3> QED
      BY <3>1, <3>2
  <2> QED
    BY <1>1, <1>2, <2>1 DEF DriverSame, Inv, TypeOK
<1>4. \/ /\ drive.left > 0 /\ drive'.phase = "data" /\ drive'.cmd = drive.cmd /\ drive'.lba = drive.lba
         /\ drive'.left = drive.left
      \/ drive.left = 0 /\ drive'.phase = "idle" /\ drive'.left = 0 /\ ~ Serving
  BY <1>1 DEF Inv, TypeOK, CommandOK, InStep, GaveUp, Idle
<1>5. DriveOK'
  BY <1>1, <1>2, <1>4 DEF DriverSame, Inv, DriveOK, Serves, Serving
<1>6. CommandOK'
  BY <1>1, <1>2, <1>4 DEF DriverSame, Inv, CommandOK, InStep, GaveUp
<1>7. MissedOK' /\ CellsOK'
  BY <1>1, <1>2, <1>4 DEF DriverSame, Inv, MissedOK, CellsOK
<1>8. DetectionOK'
  BY <1>1, <1>2 DEF DriverSame, Inv, DetectionOK, Settled, Registered
<1> QED
  BY <1>2, <1>3, <1>5, <1>6, <1>7, <1>8 DEF Inv

LEMMA FailsInv == ASSUME Inv, Fails PROVE Inv'
<1>1. /\ drive.phase = "busy" /\ DriverSame /\ err' = err \cup {sel} /\ faulted' = TRUE
      /\ drive' = Idle /\ drive'.phase = "idle" /\ drive'.left = 0
      /\ missed' = IF drive.left > 0 THEN missed \cup PortionCells ELSE missed
  BY DEF Fails, Busy, DriverSame, Idle, PortionCells
<1>2. /\ UNCHANGED <<Portion, Cell, PortionCells, Transferring, Serving, Present, LbaTop>>
      /\ StepsOK' /\ CallOK' /\ RegistersOK'
  BY <1>1, DriverSameKeeps
<1>3. Serving <=> drive.left > 0
  BY <1>1 DEF Inv, DriveOK, CommandOK, InStep, GaveUp
<1>4. Serving => idx < Portion
  BY <1>1, PortionOf DEF Inv, CommandOK, InStep, GaveUp, TypeOK
<1>5. PortionCells \subseteq 0 .. call.count - 1
  BY PortionOf DEF PortionCells, Cell
<1>6. TypeOK'
  <2>1. missed' \subseteq 0 .. call.count - 1
    BY <1>1, <1>5 DEF Inv, TypeOK
  <2>2. sel \in Drives
    BY DEF Inv, TypeOK
  <2>3. {heard', faulted'} \subseteq BOOLEAN
    BY <1>1 DEF DriverSame, Inv, TypeOK
  <2> QED
    BY <1>1, <1>2, <2>1, <2>2, <2>3, Sizes DEF DriverSame, Inv, TypeOK, Idle
<1>7. DriveOK'
  BY <1>1, <1>2 DEF DriverSame, Inv, DriveOK
<1>8. CommandOK'
  <2>1. Serving => Present /\ PortionCells \subseteq missed'
    BY <1>1, <1>3 DEF Inv, DriveOK
  <2>2. sel \in err' /\ sel' = sel /\ faulted'
    BY <1>1 DEF DriverSame
  <2> QED
    BY <1>1, <1>2, <2>1, <2>2 DEF CommandOK, GaveUp
<1>9. MissedOK'
  <2> SUFFICES ASSUME call.op = "read" PROVE MissedOK'
    BY <1>1 DEF DriverSame, MissedOK
  <2>1. CASE Serving
    <3>1. missed \subseteq 0 .. Cell - 1
      BY <1>1, <2>1 DEF Inv, MissedOK, Serving
    <3>2. PortionCells \subseteq 0 .. done + Portion - 1 /\ 0 .. Cell - 1 \subseteq 0 .. done + Portion - 1
      BY <1>4, <2>1, PortionOf DEF PortionCells, Cell
    <3>3. PortionCells \subseteq missed' /\ missed' \subseteq 0 .. done + Portion - 1
      BY <1>1, <1>3, <2>1, <3>1, <3>2
    <3> QED
      BY <1>1, <1>2, <2>1, <3>3 DEF DriverSame, MissedOK
  <2>2. CASE ~ Serving
    BY <1>1, <1>2, <1>3, <2>2 DEF DriverSame, Inv, MissedOK
  <2> QED
    BY <2>1, <2>2
<1>10. CellsOK'
  <2>1. \A c \in 0 .. call.count - 1 : c < Cell => (c \in missed' <=> c \in missed)
    BY <1>1, PortionOf DEF PortionCells, Cell
  <2> QED
    BY <1>1, <1>2, <2>1 DEF DriverSame, Inv, CellsOK
<1>11. DetectionOK'
  BY <1>1, <1>2 DEF DriverSame, Inv, DetectionOK, Settled, Registered
<1> QED
  BY <1>2, <1>6, <1>7, <1>8, <1>9, <1>10, <1>11 DEF Inv

-----------------------------------------------------------------------------
(* The driver.                                                             *)

LEMMA SelectDriveInv == ASSUME Inv, SelectDrive PROVE Inv'
<1>1. /\ pc = "select" /\ pc' = (IF Transferring THEN "ready" ELSE "command")
      /\ UNCHANGED <<kind, drive, err, devices, call, done, idx, out, missed, faulted>>
      /\ heard' = (heard /\ <<sel', high'>> = <<call.drive, LbaTop>>)
      /\ \/ drive.phase = "idle" /\ sel' = call.drive /\ high' = LbaTop
         \/ drive.phase # "idle" /\ sel' = sel /\ high' = high
  BY DEF SelectDrive, callVars, Transferring
<1>2. heard' => heard /\ sel' = call.drive /\ high' = LbaTop
  BY <1>1
<1>3. UNCHANGED <<Portion, Cell, PortionCells, Transferring, LbaTop>> /\ ~ Serving /\ ~ Serving' /\ drive.left = 0
  BY <1>1 DEF Portion, Cell, PortionCells, Transferring, Serving, LbaTop, Inv, DriveOK, TypeOK
<1>4. ~ Transferring => drive.phase = "idle" /\ sel' = call.drive
  BY <1>1, <1>3 DEF Inv, DriveOK
<1>5. LbaTop \in 0 .. LbaHigh - 1
  <2>1. call.start + done \in Nat
    BY PortionOf
  <2> QED
    BY <2>1, Sizes DEF LbaTop
<1>6. TypeOK'
  <2>1. {heard', faulted'} \subseteq BOOLEAN
    <3>1. heard' \in BOOLEAN
      BY <1>1, Zenon
    <3>2. faulted' \in BOOLEAN
      BY <1>1 DEF Inv, TypeOK
    <3> QED
      BY <3>1, <3>2
  <2>2. sel' \in Drives /\ high' \in 0 .. LbaHigh - 1
    BY <1>1, <1>5 DEF Inv, TypeOK
  <2> QED
    BY <1>1, <1>3, <2>1, <2>2 DEF Inv, TypeOK
<1>7. StepsOK' /\ CallOK'
  BY <1>1, <1>3 DEF Inv, StepsOK, CallOK, Transferring
<1>8. DriveOK'
  <2>1. drive.phase # "idle" => Present'
    BY <1>1 DEF Inv, DriveOK, Present
  <2>2. Transferring => Present'
    BY <1>1, <2>1 DEF Inv, CallOK, Present
  <2>3. drive.phase \in {"busy", "data"} => sel' \notin err
    BY <1>1 DEF Inv, DriveOK
  <2>4. drive.phase # "data"
    BY <1>3 DEF Inv, DriveOK
  <2> QED
    BY <1>1, <1>3, <1>4, <2>1, <2>2, <2>3, <2>4 DEF DriveOK
<1>9. CommandOK' /\ RegistersOK'
  BY <1>1, <1>2, <1>3, <1>4 DEF CommandOK, RegistersOK
<1>10. MissedOK' /\ CellsOK'
  BY <1>1, <1>2, <1>3 DEF Inv, MissedOK, CellsOK
<1>11. DetectionOK'
  BY <1>1, <1>3 DEF Inv, DetectionOK, Settled, Registered
<1> QED
  BY <1>6, <1>7, <1>8, <1>9, <1>10, <1>11 DEF Inv

LEMMA CommandInv == ASSUME Inv, Command PROVE Inv'
<1>1. /\ pc = "command" /\ drive.phase = "idle" /\ pc' = (IF Transferring THEN "delay" ELSE "present")
      /\ Issue(call.op, (call.start + done) % LbaLow, Portion) /\ idx' = 0
      /\ UNCHANGED <<kind, sel, high, err, devices, call, done, out, heard, missed>>
  BY DEF Command, Transferring, Inv, DriveOK
<1>2. UNCHANGED <<Portion, Transferring, Present, LbaTop>> /\ Serving' /\ ~ Serving
      /\ done \in Nat /\ Cell' = done /\ Portion > 0 /\ Portion \in 0 .. MaxPortion /\ (Transferring => Present /\ idx = 0)
  BY <1>1, PortionOf DEF Portion, Cell, Transferring, Present, Serving, LbaTop, Inv, CallOK, DriveOK
<1>3. \/ /\ Present /\ faulted' = FALSE
         /\ drive' = [phase |-> "late", cmd |-> call.op,
                      lba |-> high * LbaLow + ((call.start + done) % LbaLow), left |-> Portion]
      \/ ~ Present /\ UNCHANGED <<drive, faulted>>
  BY <1>1 DEF Issue
<1>4. high * LbaLow + ((call.start + done) % LbaLow) \in 0 .. LbaLow * LbaHigh - 1
      /\ high * LbaLow + ((call.start + done) % LbaLow) \in Nat
  <2>1. high \in 0 .. LbaHigh - 1 /\ call.start + done \in Nat
    BY PortionOf DEF Inv, TypeOK
  <2> QED
    BY <2>1, RegisterNumber, Sizes
<1>5. Present => InStep'
  <2> SUFFICES ASSUME Present PROVE InStep'
    OBVIOUS
  <2>1. drive'.phase = "late" /\ drive'.cmd = call.op /\ drive'.left = Portion
        /\ drive'.lba = high * LbaLow + ((call.start + done) % LbaLow)
    BY <1>3
  <2>2. Portion - 0 = Portion /\ drive'.lba = drive'.lba + 0
    BY <1>2, <1>4, <2>1
  <2> QED
    BY <1>1, <1>2, <2>1, <2>2 DEF InStep
<1>6. TypeOK'
  <2>1. drive' \in [phase : {"idle", "late", "busy", "data"}, left : 0 .. MaxPortion,
                    cmd : {"none", "identify", "read", "write", "flush"}, lba : 0 .. LbaLow * LbaHigh]
    <3>1. high * LbaLow + ((call.start + done) % LbaLow) \in 0 .. LbaLow * LbaHigh
      BY <1>4, Sizes
    <3> HIDE <1>4
    <3> QED
      BY <1>2, <1>3, <3>1 DEF Inv, TypeOK
  <2>2. {heard', faulted'} \subseteq BOOLEAN
    BY <1>1, <1>3 DEF Inv, TypeOK
  <2>3. Cell' \in 0 .. call.count
    BY <1>2, PortionOf
  <2> QED
    BY <1>1, <2>1, <2>2, <2>3 DEF Inv, TypeOK
<1>7. StepsOK' /\ CallOK'
  BY <1>1, <1>2 DEF Inv, StepsOK, CallOK, Transferring
<1>8. DriveOK'
  BY <1>1, <1>2, <1>3 DEF Inv, DriveOK
<1>9. CommandOK' /\ RegistersOK'
  BY <1>1, <1>2, <1>3, <1>5 DEF Inv, CommandOK, RegistersOK
<1>10. MissedOK' /\ CellsOK'
  <2> SUFFICES ASSUME call.op = "read" PROVE MissedOK' /\ CellsOK'
    BY <1>1 DEF MissedOK, CellsOK
  <2>1. Transferring /\ Cell' = Cell /\ drive'.phase = "late"
    BY <1>2, <1>3 DEF Transferring, Cell
  <2> QED
    BY <1>1, <1>2, <2>1 DEF Inv, MissedOK, CellsOK
<1>11. DetectionOK'
  BY <1>1, <1>2 DEF Inv, DetectionOK, Settled, Registered
<1> QED
  BY <1>6, <1>7, <1>8, <1>9, <1>10, <1>11 DEF Inv

(* A transfer is of the sector the driver counts, from the asked drive if  *)
(* every select was heard.                                                 *)
LEMMA TransferFacts ==
    ASSUME Inv, Transfer
    PROVE  /\ InStep /\ Cell \in 0 .. call.count - 1 /\ idx < Portion /\ done + Portion <= call.count
           /\ drive.lba \in Nat /\ (Transferring => drive.lba < Sectors)
           /\ Transferring /\ heard => sel = call.drive /\ drive.lba = call.start + Cell
<1>1. pc = "poll" /\ drive.phase = "data"
  BY DEF Transfer
<1>2. InStep
  BY <1>1 DEF Inv, CommandOK, Serving, GaveUp
<1>3. idx < Portion /\ done + Portion <= call.count /\ idx \in Nat /\ done \in Nat
  BY <1>2, PortionOf DEF InStep, Inv, TypeOK
<1>4. Cell \in 0 .. call.count - 1
  BY <1>3, PortionOf DEF Cell
<1>5. drive.lba \in Nat
  BY Sizes DEF Inv, TypeOK
<1>6. Transferring => drive.lba < Sectors
  BY <1>1, <1>2 DEF Inv, DriveOK, Serves, InStep, TypeOK, Transferring
<1>7. ASSUME Transferring, heard PROVE sel = call.drive /\ drive.lba = call.start + Cell
  <2>1. sel = call.drive /\ high = LbaTop
    BY <1>1, <1>7 DEF Inv, RegistersOK
  <2>2. high * LbaLow + ((call.start + done) % LbaLow) = call.start + done
    BY <1>3, <1>7, <2>1, AskedNumber, PortionOf
  <2>3. drive.lba = high * LbaLow + ((call.start + done) % LbaLow) + idx
    BY <1>2 DEF InStep
  <2>4. drive.lba = (call.start + done) + idx
    BY <2>2, <2>3
  <2> HIDE <2>2, <2>3
  <2> QED
    BY <1>3, <2>1, <2>4, PortionOf DEF Cell
<1> QED
  BY <1>2, <1>3, <1>4, <1>5, <1>6, <1>7

LEMMA TransferInv == ASSUME Inv, Transfer PROVE Inv'
<1>1. /\ InStep /\ Cell \in 0 .. call.count - 1 /\ idx < Portion /\ done + Portion <= call.count
      /\ drive.lba \in Nat /\ (Transferring => drive.lba < Sectors)
      /\ Transferring /\ heard => sel = call.drive /\ drive.lba = call.start + Cell
  BY TransferFacts
<1>2. /\ pc = "poll" /\ drive.phase = "data" /\ sel \notin err /\ idx' = idx + 1
      /\ UNCHANGED <<kind, sel, high, err, devices, call, done, heard, faulted, missed>>
      /\ out' = (IF call.op = "read" THEN [out EXCEPT ![Cell] = <<sel, drive.lba>>] ELSE out)
      /\ drive' = IF Reading(call.op) /\ drive.left = 1 THEN Idle
                  ELSE [drive EXCEPT !.phase = "busy", !.lba = @ + 1, !.left = @ - 1]
  BY DEF Transfer
<1>3. idx \in Nat /\ done \in Nat /\ call.count \in Nat /\ drive.left = Portion - idx /\ Portion \in 0 .. MaxPortion
  BY <1>1, PortionOf DEF InStep
<1>4. UNCHANGED <<Portion, Transferring, Present, LbaTop>> /\ Cell' = Cell + 1 /\ Cell \in Nat
  BY <1>1, <1>2, <1>3, PortionOf DEF Portion, Transferring, Present, LbaTop, Cell
<1>5. pc' = IF idx' < Portion THEN "poll" ELSE IF call.op = "identify" THEN "analyze" ELSE AfterCommand
  BY <1>4 DEF Transfer
<1>6. call.op \in {"identify", "read", "write"} /\ (call.op = "identify" => Portion = 1)
  <2>1. call.op \in {"identify", "read", "write"}
    BY DEF Inv, TypeOK
  <2>2. call.op = "identify" => call.count = 1 /\ done = 0
    BY DEF Inv, CallOK, Transferring
  <2> QED
    BY <1>1, <1>3, <2>1, <2>2
<1>7. \/ /\ idx + 1 < Portion /\ pc' = "poll" /\ drive.left > 1
      \/ /\ idx + 1 = Portion /\ drive.left = 1
         /\ \/ call.op = "identify" /\ pc' = "analyze"
            \/ call.op = "read" /\ pc' = "next"
            \/ call.op = "write" /\ pc' = "flush"
  BY <1>1, <1>2, <1>3, <1>5, <1>6 DEF AfterCommand
<1>8. \/ /\ drive'.phase = "idle" /\ drive'.left = 0 /\ drive' = Idle /\ pc' \in {"analyze", "next"}
      \/ /\ pc' \in {"poll", "flush"} /\ Transferring
         /\ drive' = [drive EXCEPT !.phase = "busy", !.lba = drive.lba + 1, !.left = drive.left - 1]
         /\ drive'.phase = "busy" /\ drive'.cmd = drive.cmd /\ drive'.lba = drive.lba + 1
         /\ drive'.left = Portion - idx'
  <2>1. CASE Reading(call.op) /\ drive.left = 1
    BY <1>2, <1>3, <1>7, <2>1 DEF Idle, Reading
  <2>2. CASE ~ (Reading(call.op) /\ drive.left = 1)
    <3>1. drive' = [drive EXCEPT !.phase = "busy", !.lba = drive.lba + 1, !.left = drive.left - 1]
      BY <1>2, <2>2
    <3>2. pc' \in {"poll", "flush"} /\ Transferring
      BY <1>3, <1>6, <1>7, <2>2 DEF Reading, Transferring
    <3>3. drive'.phase = "busy" /\ drive'.cmd = drive.cmd /\ drive'.lba = drive.lba + 1
          /\ drive'.left = drive.left - 1
      BY <3>1 DEF Inv, TypeOK
    <3>4. drive.left - 1 = Portion - idx'
      BY <1>2, <1>3
    <3> QED
      BY <3>1, <3>2, <3>3, <3>4
  <2> QED
    BY <2>1, <2>2
<1>9. TypeOK'
  <2>1. drive' \in [phase : {"idle", "late", "busy", "data"}, left : 0 .. MaxPortion,
                    cmd : {"none", "identify", "read", "write", "flush"}, lba : 0 .. LbaLow * LbaHigh]
    <3>1. CASE drive' = Idle
      <4>1. 0 \in 0 .. LbaLow * LbaHigh /\ 0 \in 0 .. MaxPortion
        BY Sizes
      <4> QED
        BY <3>1, <4>1 DEF Idle
    <3>2. CASE Transferring /\ drive' = [drive EXCEPT !.phase = "busy", !.lba = drive.lba + 1, !.left = drive.left - 1]
      <4>1. drive.lba + 1 \in 0 .. LbaLow * LbaHigh /\ drive.left - 1 \in 0 .. MaxPortion
        BY <1>1, <1>3, <3>2, Sizes
      <4> QED
        BY <3>2, <4>1 DEF Inv, TypeOK
    <3> QED
      BY <1>8, <3>1, <3>2
  <2>2. call.op # "identify" => out' \in [0 .. call.count - 1 -> Sector]
    <3>1. CASE call.op = "read"
      <4>1. <<sel, drive.lba>> \in Sector
        BY <1>1, <3>1, Sizes DEF Transferring, Sector, Inv, TypeOK
      <4> QED
        BY <1>1, <1>2, <3>1, <4>1 DEF Inv, TypeOK
    <3>2. CASE call.op # "read"
      BY <1>2, <3>2 DEF Inv, TypeOK
    <3> QED
      BY <3>1, <3>2
  <2>3. Cell' \in 0 .. call.count
    BY <1>1, <1>3, <1>4
  <2>4. {heard', faulted'} \subseteq BOOLEAN
    BY <1>2 DEF Inv, TypeOK
  <2> QED
    BY <1>2, <1>7, <2>1, <2>2, <2>3, <2>4 DEF Inv, TypeOK
<1>10. StepsOK'
  BY <1>2, <1>4, <1>7 DEF Inv, StepsOK, Transferring
<1>11. CallOK'
  <2>1. idx' \in 0 .. call.count /\ idx' <= Portion
    BY <1>1, <1>2, <1>3
  <2> QED
    BY <1>2, <1>4, <1>7, <2>1 DEF Inv, CallOK
<1>12. DriveOK'
  <2>1. Present
    BY <1>2 DEF Inv, DriveOK
  <2>2. pc' = "flush" => drive'.left = 0
    BY <1>2, <1>3, <1>7, <1>8
  <2>3. pc' = "analyze" => drive'.phase = "idle"
    BY <1>8
  <2>4. ~ Transferring => pc' = "analyze"
    BY <1>8, <1>7 DEF Transferring
  <2>5. sel' \notin err' /\ Present'
    BY <1>2, <1>4, <2>1
  <2>6. drive'.phase \in {"idle", "busy"} /\ (drive'.phase = "idle" => drive'.left = 0)
        /\ (pc' \in {"analyze", "next"} => drive'.left = 0)
    BY <1>8
  <2> QED
    BY <1>4, <1>7, <2>2, <2>3, <2>4, <2>5, <2>6 DEF DriveOK, Serving
<1>13. CommandOK'
  <2> SUFFICES ASSUME Serving' PROVE InStep'
    BY DEF CommandOK
  <2>1. pc' = "poll" /\ drive.left > 1 /\ idx + 1 < Portion
    BY <1>7 DEF Serving
  <2>2. drive'.phase = "busy" /\ drive'.cmd = drive.cmd /\ drive'.lba = drive.lba + 1 /\ drive'.left = Portion - idx'
    BY <1>8, <2>1
  <2>3. drive.lba = high * LbaLow + ((call.start + done) % LbaLow) + idx
    BY <1>1 DEF InStep
  <2>4. high * LbaLow + ((call.start + done) % LbaLow) \in Nat
    <3>1. high \in 0 .. LbaHigh - 1 /\ call.start + done \in Nat
      BY PortionOf DEF Inv, TypeOK
    <3> QED
      BY <3>1, RegisterNumber, Sizes
  <2>5. drive'.lba = high * LbaLow + ((call.start + done) % LbaLow) + idx'
    BY <1>2, <1>3, <2>2, <2>3, <2>4
  <2>6. drive'.left > 0 /\ drive.cmd = call.op
    BY <1>1, <1>2, <1>3, <2>1, <2>2 DEF InStep
  <2> HIDE <2>3, <2>4
  <2> QED
    BY <1>2, <1>4, <2>2, <2>5, <2>6 DEF InStep
<1>14. RegistersOK'
  BY <1>2, <1>4, <1>7 DEF Inv, RegistersOK, Serving, Transferring
<1>15. MissedOK'
  <2> SUFFICES ASSUME call.op = "read" PROVE MissedOK'
    BY <1>2 DEF MissedOK
  <2>1. missed \subseteq 0 .. Cell - 1
    BY <1>2 DEF Inv, MissedOK
  <2>2. CASE pc' = "poll"
    <3>1. drive'.phase = "busy"
      BY <1>8, <2>2
    <3>2. missed \subseteq 0 .. Cell' - 1
      BY <1>4, <2>1
    <3> QED
      BY <1>2, <2>2, <3>1, <3>2 DEF MissedOK
  <2>3. CASE pc' = "next"
    <3>1. Cell' = done + Portion
      BY <1>2, <1>3, <1>4, <1>7, <2>3 DEF Cell
    <3>2. PortionCells' = {} /\ missed \subseteq 0 .. done + Portion - 1
      BY <1>1, <1>2, <1>3, <1>4, <2>1, <3>1 DEF PortionCells
    <3> QED
      BY <1>2, <1>4, <2>3, <3>2 DEF MissedOK, Serving
  <2> QED
    BY <1>7, <2>2, <2>3
<1>16. CellsOK'
  <2> SUFFICES ASSUME call.op = "read", heard, NEW c \in 0 .. call.count - 1
               PROVE  out'[c] = IF c < Cell' /\ c \notin missed THEN <<call.drive, call.start + c>> ELSE NoSector
    BY <1>2 DEF CellsOK
  <2>1. out' = [out EXCEPT ![Cell] = <<call.drive, call.start + Cell>>] /\ DOMAIN out = 0 .. call.count - 1
    BY <1>1, <1>2 DEF Transferring, Inv, TypeOK
  <2>2. Cell \notin missed
    <3>1. missed \subseteq 0 .. Cell - 1
      BY <1>2 DEF Inv, MissedOK
    <3> QED
      BY <1>4, <3>1
  <2>3. out[c] = IF c < Cell /\ c \notin missed THEN <<call.drive, call.start + c>> ELSE NoSector
    BY DEF Inv, CellsOK
  <2> QED
    BY <1>1, <1>3, <1>4, <2>1, <2>2, <2>3
<1>17. DetectionOK'
  BY <1>2, <1>4, <1>7 DEF Inv, DetectionOK, Settled, Registered
<1> QED
  BY <1>9, <1>10, <1>11, <1>12, <1>13, <1>14, <1>15, <1>16, <1>17 DEF Inv

LEMMA AppendPair == ASSUME NEW a, NEW b PROVE Append(<<a>>, b) = <<a, b>>
<1>1. <<a>> \in Seq({a, b}) /\ Len(<<a>>) = 1 /\ <<a>>[1] = a
  OBVIOUS
<1>2. /\ Append(<<a>>, b) \in Seq({a, b}) /\ Len(Append(<<a>>, b)) = 2
      /\ Append(<<a>>, b)[1] = a /\ Append(<<a>>, b)[2] = b
  BY <1>1
<1>3. /\ <<a, b>> \in Seq({a, b}) /\ Len(<<a, b>>) = 2
      /\ <<a, b>>[1] = a /\ <<a, b>>[2] = b
  OBVIOUS
<1>4. \A i \in 1 .. 2 : Append(<<a>>, b)[i] = <<a, b>>[i]
  BY <1>2, <1>3
<1> QED
  BY <1>2, <1>3, <1>4, SeqEqual

(* The next drive to ask: what an identification leaves to the boot.       *)
LEMMA RegisterNextInv == ASSUME Inv, AnalyzeIdentify \/ Rejected PROVE Inv'
<1>1. /\ pc \in {"analyze", "rejected"}
      /\ UNCHANGED <<kind, sel, high, drive, err, done, idx, out, heard, faulted, missed>>
      /\ \/ call.drive = "master" /\ call' = [call EXCEPT !.drive = "slave"] /\ pc' = "select"
         \/ call.drive # "master" /\ call' = call /\ pc' = "idle"
      /\ \/ pc = "rejected" /\ devices' = devices
         \/ pc = "analyze" /\ devices' = IF kind[sel] = "disk" THEN Append(devices, call.drive) ELSE devices
  BY DEF AnalyzeIdentify, Rejected, RegisterNext, driveVars
<1>2. call.drive \in {"master", "slave"} /\ call'.op = call.op /\ call'.start = call.start /\ call'.count = call.count
      /\ \/ call.drive = "master" /\ call'.drive = "slave" /\ pc' = "select"
         \/ call.drive = "slave" /\ call'.drive = "slave" /\ pc' = "idle"
  BY <1>1 DEF Inv, TypeOK, Drives
<1>3. ~ Transferring /\ ~ Transferring' /\ ~ Serving /\ ~ Serving' /\ drive.phase = "idle" /\ drive.left = 0
      /\ sel = call.drive
  BY <1>1, <1>2 DEF Inv, StepsOK, Transferring, Serving, DriveOK, RegistersOK
<1>4. \/ devices = <<>>
      \/ call.drive = "slave" /\ devices = <<"master">>
  BY <1>1, <1>2, <1>3 DEF Inv, DetectionOK
<1>5. \/ devices' = devices /\ (kind[call.drive] # "disk" \/ call.drive \in err)
      \/ kind[call.drive] = "disk" /\ devices' = Append(devices, call.drive)
  BY <1>1, <1>3 DEF Inv, DetectionOK
<1>6. \/ devices' = devices /\ (kind[call.drive] # "disk" \/ call.drive \in err)
      \/ kind[call.drive] = "disk" /\ call.drive = "master" /\ devices' = <<"master">>
      \/ kind[call.drive] = "disk" /\ call.drive = "slave" /\ devices = <<>> /\ devices' = <<"slave">>
      \/ /\ kind[call.drive] = "disk" /\ call.drive = "slave" /\ devices = <<"master">>
         /\ devices' = <<"master", "slave">>
  <2>1. Append(<<>>, "master") = <<"master">> /\ Append(<<>>, "slave") = <<"slave">>
    OBVIOUS
  <2>2. Append(<<"master">>, "slave") = <<"master", "slave">>
    BY AppendPair
  <2> QED
    BY <1>2, <1>4, <1>5, <2>1, <2>2
<1>7. TypeOK'
  <2>1. call' \in [op : {"identify", "read", "write"}, drive : Drives, start : 0 .. Sectors - 1, count : 1 .. Sectors]
    BY <1>1 DEF Inv, TypeOK, Drives
  <2>2. devices' \in {<<>>, <<"master">>, <<"slave">>, <<"master", "slave">>}
    BY <1>2, <1>4, <1>6
  <2>3. Cell' = Cell /\ call.op = "identify"
    BY <1>1, <1>3 DEF Cell, Transferring
  <2>4. {heard', faulted'} \subseteq BOOLEAN
    BY <1>1 DEF Inv, TypeOK
  <2> QED
    BY <1>1, <1>2, <2>1, <2>2, <2>3, <2>4 DEF Inv, TypeOK
<1>8. StepsOK' /\ CallOK' /\ CommandOK' /\ RegistersOK'
  BY <1>1, <1>2, <1>3 DEF Inv, StepsOK, CallOK, CommandOK, RegistersOK
<1>9. DriveOK'
  BY <1>1, <1>2, <1>3 DEF Inv, DriveOK
<1>10. MissedOK' /\ CellsOK'
  BY <1>2, <1>3 DEF MissedOK, CellsOK, Transferring
<1>11. DetectionOK'
  <2>1. ASSUME NEW d, d = call.drive PROVE Settled(d)'
    <3>1. CASE devices' = devices
      <4>1. kind[d] # "disk" \/ d \in err \/ d \in {devices[i] : i \in 1 .. Len(devices)}
        BY <1>4, <1>6, <2>1, <3>1
      <4> QED
        BY <1>1, <3>1, <4>1 DEF Settled, Registered
    <3>2. CASE devices' = <<d>>
      BY <3>2 DEF Settled, Registered
    <3>3. CASE devices' = <<"master", d>>
      <4>1. Len(devices') = 2 /\ devices'[2] = d
        BY <3>3
      <4> QED
        BY <4>1 DEF Settled, Registered
    <3> QED
      BY <1>6, <2>1, <3>1, <3>2, <3>3
  <2>2. call.drive = "slave" => Settled("master")'
    <3>1. CASE call.drive = "slave"
      <4>1. kind["master"] = "disk" /\ "master" \notin err => Registered("master")
        BY <1>1, <1>3, <3>1 DEF Inv, DetectionOK, Settled
      <4>2. Registered("master") => Registered("master")'
        BY <1>4, <1>6, <3>1 DEF Registered
      <4> QED
        BY <1>1, <4>1, <4>2 DEF Settled
    <3> QED
      BY <3>1
  <2>3. \A i \in 1 .. Len(devices') : kind[devices'[i]] = "disk"
    BY <1>4, <1>6 DEF Inv, DetectionOK
  <2>4. pc' = "select" => devices' \in {<<>>, <<"master">>}
    BY <1>2, <1>4, <1>6
  <2>5. pc' = "select" => Settled("master")'
    BY <1>2, <2>1
  <2>6. pc' = "idle" => \A d \in Drives : Settled(d)'
    BY <1>2, <2>1, <2>2 DEF Drives
  <2> QED
    BY <1>1, <1>2, <2>3, <2>4, <2>5, <2>6 DEF DetectionOK
<1> QED
  BY <1>7, <1>8, <1>9, <1>10, <1>11 DEF Inv

LEMMA CallAnyInv == ASSUME Inv, CallAny PROVE Inv'
<1>1. PICK op \in {"read", "write"}, i \in 1 .. Len(devices), start \in 0 .. Sectors - 1 :
          \E count \in 1 .. Sectors - start : Call(op, devices[i], start, count)
  BY DEF CallAny
<1>2. PICK count \in 1 .. Sectors - start : Call(op, devices[i], start, count)
  BY <1>1
<1>3. /\ pc = "idle" /\ pc' = "select" /\ done' = 0 /\ idx' = 0 /\ missed' = {}
      /\ call' = [op |-> op, drive |-> devices[i], start |-> start, count |-> count]
      /\ out' = [c \in 0 .. count - 1 |-> NoSector]
      /\ UNCHANGED <<kind, sel, high, drive, err, devices, faulted>>
  BY <1>2 DEF Call, driveVars
<1>4. heard' = TRUE
  BY <1>2 DEF Call
<1>5. devices[i] \in Drives /\ kind[devices[i]] = "disk" /\ count \in 1 .. Sectors /\ start + count <= Sectors
  <2>1. devices[i] \in Drives
    BY DEF Inv, TypeOK, Drives
  <2> QED
    BY <2>1, Sizes DEF Inv, DetectionOK
<1>6. Cell' = 0 /\ Transferring' /\ ~ Serving' /\ drive.left = 0
  BY <1>3 DEF Cell, Transferring, Serving, Inv, DriveOK, TypeOK
<1>7. TypeOK'
  <2>1. {heard', faulted'} \subseteq BOOLEAN
    BY <1>3, <1>4 DEF Inv, TypeOK
  <2>2. call' \in [op : {"identify", "read", "write"}, drive : Drives, start : 0 .. Sectors - 1, count : 1 .. Sectors]
    BY <1>3, <1>5
  <2>3. out' \in [0 .. call'.count - 1 -> Sector] /\ Cell' \in 0 .. call'.count /\ missed' \subseteq 0 .. call'.count - 1
    BY <1>3, <1>5, <1>6, Sizes DEF Sector
  <2> QED
    BY <1>3, <2>1, <2>2, <2>3 DEF Inv, TypeOK
<1>8. StepsOK' /\ CallOK'
  BY <1>3, <1>5, <1>6 DEF StepsOK, CallOK, Transferring
<1>9. DriveOK'
  BY <1>3, <1>6 DEF Inv, DriveOK, Present, Serves, Serving
<1>10. CommandOK' /\ RegistersOK'
  BY <1>3, <1>6 DEF CommandOK, RegistersOK
<1>11. MissedOK' /\ CellsOK'
  BY <1>3, <1>5, <1>6 DEF MissedOK, CellsOK
<1>12. DetectionOK'
  BY <1>3, <1>6 DEF Inv, DetectionOK
<1> QED
  BY <1>7, <1>8, <1>9, <1>10, <1>11, <1>12 DEF Inv

LEMMA FlushInv == ASSUME Inv, Flush PROVE Inv'
<1>1. /\ pc = "flush" /\ pc' = "next" /\ Issue("flush", 0, 0) /\ call.op = "write"
      /\ UNCHANGED <<kind, sel, high, err, devices, call, done, idx, out, missed, heard>>
  BY DEF Flush, callVars, Inv, StepsOK
<1>2. UNCHANGED <<Portion, Cell, Transferring, Present, LbaTop>> /\ Transferring /\ ~ Serving /\ ~ Serving'
      /\ drive.left = 0
  BY <1>1 DEF Portion, Cell, Transferring, Present, LbaTop, Serving, Inv, DriveOK, TypeOK
<1>3. \/ /\ Present /\ faulted' = FALSE
         /\ drive' = [phase |-> "late", cmd |-> "flush", lba |-> high * LbaLow + 0, left |-> 0]
      \/ UNCHANGED <<drive, faulted>>
  BY <1>1 DEF Issue
<1>4. high * LbaLow + 0 \in 0 .. LbaLow * LbaHigh
  <2>1. high * LbaLow + (0 % LbaLow) \in 0 .. LbaLow * LbaHigh - 1
    BY RegisterNumber DEF Inv, TypeOK
  <2>2. 0 % LbaLow = 0 /\ LbaLow * LbaHigh \in Nat
    BY Sizes
  <2> QED
    BY <2>1, <2>2
<1>5. TypeOK'
  <2>1. {heard', faulted'} \subseteq BOOLEAN
    BY <1>1, <1>3 DEF Inv, TypeOK
  <2>2. drive' \in [phase : {"idle", "late", "busy", "data"}, left : 0 .. MaxPortion,
                    cmd : {"none", "identify", "read", "write", "flush"}, lba : 0 .. LbaLow * LbaHigh]
    BY <1>3, <1>4, Sizes DEF Inv, TypeOK
  <2> QED
    BY <1>1, <1>2, <2>1, <2>2 DEF Inv, TypeOK
<1>6. StepsOK' /\ CallOK'
  <2>1. idx <= Portion
    BY <1>1, PortionOf DEF Inv, CallOK
  <2> QED
    BY <1>1, <1>2, <2>1 DEF Inv, StepsOK, CallOK
<1>7. DriveOK'
  BY <1>1, <1>2, <1>3 DEF Inv, DriveOK, Serves
<1>8. CommandOK' /\ RegistersOK' /\ MissedOK' /\ CellsOK'
  BY <1>1, <1>2 DEF CommandOK, RegistersOK, MissedOK, CellsOK
<1>9. DetectionOK'
  BY <1>1, <1>2 DEF Inv, DetectionOK, Settled, Registered
<1> QED
  BY <1>5, <1>6, <1>7, <1>8, <1>9 DEF Inv

LEMMA NextPortionInv == ASSUME Inv, NextPortion PROVE Inv'
<1>1. /\ pc = "next" /\ done' = done + Portion /\ idx' = 0 /\ pc' = (IF done' < call.count THEN "select" ELSE "idle")
      /\ UNCHANGED <<kind, sel, high, drive, err, devices, call, out, heard, faulted, missed>>
  BY DEF NextPortion, driveVars
<1>2. /\ done \in Nat /\ idx \in Nat /\ idx <= Portion /\ Portion \in Nat /\ call.count \in Nat
      /\ done + Portion <= call.count
  BY <1>1, PortionOf DEF Inv, CallOK
<1>3. Cell' = done + Portion /\ Cell <= Cell' /\ Cell \in Nat /\ Cell' \in 0 .. call.count
  BY <1>1, <1>2 DEF Cell
<1>4. Transferring /\ Transferring' /\ ~ Serving /\ ~ Serving' /\ drive.left = 0
  BY <1>1 DEF Transferring, Serving, Inv, StepsOK, DriveOK, TypeOK
<1>5. TypeOK'
  <2>1. {heard', faulted'} \subseteq BOOLEAN
    BY <1>1 DEF Inv, TypeOK
  <2> QED
    BY <1>1, <1>3, <2>1 DEF Inv, TypeOK
<1>6. StepsOK' /\ CallOK'
  BY <1>1, <1>2, <1>4 DEF Inv, StepsOK, CallOK, Transferring
<1>7. DriveOK'
  BY <1>1, <1>4 DEF Inv, DriveOK, Present, Serves
<1>8. CommandOK' /\ RegistersOK'
  BY <1>1, <1>4 DEF CommandOK, RegistersOK
<1>9. MissedOK' /\ CellsOK'
  <2> SUFFICES ASSUME call.op = "read" PROVE MissedOK' /\ CellsOK'
    BY <1>1 DEF MissedOK, CellsOK
  <2>1. PortionCells \subseteq missed /\ missed \subseteq 0 .. done + Portion - 1
    BY <1>1 DEF Inv, MissedOK
  <2>2. MissedOK'
    <3>1. pc' # "next"
      BY <1>1
    <3>2. missed' \subseteq 0 .. done + Portion - 1
      BY <1>1, <2>1
    <3>3. missed' \subseteq 0 .. Cell' - 1
      BY <1>2, <1>3, <3>2
    <3> QED
      BY <1>4, <3>1, <3>3 DEF MissedOK
  <2>3. \A c \in 0 .. call.count - 1 : c \notin missed => (c < Cell' <=> c < Cell)
    BY <1>2, <1>3, <2>1 DEF PortionCells
  <2>4. CellsOK'
    BY <1>1, <2>3 DEF Inv, CellsOK
  <2> QED
    BY <2>2, <2>4
<1>10. DetectionOK'
  BY <1>1, <1>4 DEF Inv, DetectionOK, Settled, Registered
<1> QED
  BY <1>5, <1>6, <1>7, <1>8, <1>9, <1>10 DEF Inv

LEMMA NextInv == ASSUME Inv, [Next]_vars PROVE Inv'
<1>1. CASE Drive
  BY <1>1, AcceptsInv, ProceedsInv, FailsInv DEF Drive
<1>2. CASE Host
  BY <1>2, BootSteps, WaitSteps, SelectDriveInv, CommandInv, PollErrorInv, TransferInv, IdentifySteps,
     RegisterNextInv, FlushInv, NextPortionInv DEF Host
<1>3. CASE CallAny
  BY <1>3, CallAnyInv
<1>4. CASE UNCHANGED vars
  <2>1. UNCHANGED <<kind, sel, high, drive, err, devices, pc, call, done, idx, out, heard, faulted, missed>>
    BY <1>4 DEF vars
  <2>2. TypeOK' /\ StepsOK' /\ CallOK'
    BY <2>1 DEF Inv, TypeOK, StepsOK, CallOK, Cell, Portion, Transferring
  <2>3. DriveOK' /\ CommandOK' /\ RegistersOK'
    BY <2>1 DEF Inv, DriveOK, CommandOK, RegistersOK, InStep, GaveUp, PortionCells, Cell, Portion, Present,
       Serves, Serving, Transferring, LbaTop
  <2>4. MissedOK' /\ CellsOK' /\ DetectionOK'
    BY <2>1 DEF Inv, MissedOK, CellsOK, DetectionOK, PortionCells, Cell, Portion, Serving, Transferring,
       Settled, Registered
  <2> QED
    BY <2>2, <2>3, <2>4 DEF Inv
<1> QED
  BY <1>1, <1>2, <1>3, <1>4 DEF Next

(* The driver and the drive agree on the command at every step, or the     *)
(* drive has failed it: in every behaviour of ide.cpp and its drives.      *)
THEOREM AlwaysInv == Spec => []Inv
<1>1. Init => Inv
  BY InitInv
<1>2. Inv /\ [Next]_vars => Inv'
  BY NextInv
<1> QED
  BY <1>1, <1>2, PTL DEF Spec

(* Every variable keeps its type; above all, read() and write() never      *)
(* reach past the caller's buffer, whatever portions they take.            *)
THEOREM AlwaysTypeOK == Spec => []TypeOK
<1>1. Inv => TypeOK
  BY DEF Inv
<1> QED
  BY <1>1, AlwaysInv, PTL

(* After ata_register_device() the registered devices are disks with LBA,  *)
(* each once, and a disk is missing only if it failed IDENTIFY.            *)
THEOREM AlwaysOnlyDisksRegistered == Spec => []OnlyDisksRegistered
<1>1. Inv => OnlyDisksRegistered
  <2> SUFFICES ASSUME Inv PROVE OnlyDisksRegistered
    OBVIOUS
  <2>1. \A i \in 1 .. Len(devices) : kind[devices[i]] = "disk"
    BY DEF Inv, DetectionOK
  <2>2. \A i, j \in 1 .. Len(devices) : devices[i] = devices[j] => i = j
    <3>1. devices \in {<<>>, <<"master">>, <<"slave">>, <<"master", "slave">>}
      BY DEF Inv, TypeOK
    <3> QED
      BY <3>1
  <2>3. pc = "idle" /\ call.op = "identify" =>
            \A d \in Drives : kind[d] = "disk" /\ d \notin err => \E i \in 1 .. Len(devices) : devices[i] = d
    BY DEF Inv, DetectionOK, Transferring, Settled, Registered
  <2> QED
    BY <2>1, <2>2, <2>3 DEF OnlyDisksRegistered
<1> QED
  BY <1>1, AlwaysInv, PTL

(* When read() returns, each cell of the buffer holds its own sector or    *)
(* was left alone by a failed portion: the invariant CellsOK where every   *)
(* cell has been reached.                                                  *)
THEOREM AlwaysReadIsRight == Spec => []ReadIsRight
<1>1. Inv => ReadIsRight
  <2> SUFFICES ASSUME Inv, pc = "idle", call.op = "read", heard
               PROVE  \A i \in 0 .. call.count - 1 :
                          out[i] = IF i \in missed THEN NoSector ELSE <<call.drive, call.start + i>>
    BY DEF ReadIsRight
  <2>1. Cell = call.count /\ call.count \in Nat
    BY DEF Inv, TypeOK, CallOK, Transferring, Cell
  <2>2. \A i \in 0 .. call.count - 1 :
            out[i] = IF i < Cell /\ i \notin missed THEN <<call.drive, call.start + i>> ELSE NoSector
    BY DEF Inv, CellsOK
  <2> QED
    BY <2>1, <2>2
<1> QED
  BY <1>1, AlwaysInv, PTL

(* write() puts each cell into the sector the caller named, of the drive   *)
(* the caller named, for every split of the number over the registers.     *)
THEOREM AlwaysWritesWhereAsked == Spec => WritesWhereAsked
<1>1. Inv /\ [Next]_vars =>
          [Transfer /\ call.op = "write" /\ heard => <<sel, drive.lba>> = <<call.drive, call.start + Cell>>]_vars
  BY TransferFacts DEF Transferring
<1> QED
  BY <1>1, AlwaysInv, PTL DEF Spec, WritesWhereAsked

(* ata_polling() reports an error only when the drive failed this very     *)
(* command, never because its status still shows the one before.           *)
THEOREM AlwaysFailureIsReal == Spec => FailureIsReal
<1>1. Inv /\ [Next]_vars => [PollError => faulted]_vars
  BY ErrorIsReal DEF GaveUp
<1> QED
  BY <1>1, AlwaysInv, PTL DEF Spec, FailureIsReal

-----------------------------------------------------------------------------
(* Volumes: facts the library has not.                                     *)

(* The least of some naturals is one of them.                              *)
LEMMA MinFacts ==
    ASSUME NEW S, S \subseteq Nat, S # {}
    PROVE  Min(S) \in S /\ \A x \in S : Min(S) <= x
<1>1. \E m \in S : \A x \in S : m <= x
  BY LeastNumber
<1> QED
  BY <1>1 DEF Min

-----------------------------------------------------------------------------
(* Reading.                                                                *)

DeviceOK(dev) == dev.offset \in Nat /\ \A n \in DOMAIN dev.sectors : dev.sectors[n] \in SectorContents

LEMMA BlankIsASector == Blank \in SectorContents
BY DEF Blank, SectorContents

LEMMA ReadFacts ==
    ASSUME NEW dev, DeviceOK(dev), NEW start, NEW count \in Nat
    PROVE  /\ ReadSectors(dev, start, count) \in Seq(SectorContents)
           /\ Len(ReadSectors(dev, start, count)) = count
           /\ \A i \in 1 .. count : ReadSectors(dev, start, count)[i] \in SectorContents
<1>1. PICK f : f = ReadSectors(dev, start, count)
  OBVIOUS
<1>2. f \in [1 .. count -> SectorContents]
  <2>1. ASSUME NEW n PROVE (IF n \in DOMAIN dev.sectors THEN dev.sectors[n] ELSE Blank) \in SectorContents
    BY BlankIsASector DEF DeviceOK
  <2>2. f = [i \in 1 .. count |-> IF dev.offset + start + i - 1 \in DOMAIN dev.sectors
                                  THEN dev.sectors[dev.offset + start + i - 1] ELSE Blank]
    BY <1>1 DEF ReadSectors
  <2> QED
    BY <2>1, <2>2
<1>3. f \in Seq(SectorContents) /\ Len(f) = count
  BY <1>2, SeqDef
<1> QED
  BY <1>1, <1>2, <1>3

LEMMA BlockFacts == ASSUME NEW dev, DeviceOK(dev), NEW lba PROVE IsoBlock(dev, lba)[1] \in SectorContents
<1>1. CdSectors \in Nat /\ 1 \in 1 .. CdSectors
  BY IsoAssumption
<1> QED
  BY <1>1, ReadFacts DEF IsoBlock

(* The kinds of sectors.                                                   *)
LEMMA SectorKinds ==
    ASSUME NEW s \in SectorContents
    PROVE  /\ s.k = "bpb" => s \in BootSectors
           /\ s.k = "dir" => s \in DirSectors
           /\ s.k = "desc" => s \in Descriptors
           /\ Signed(s) => s.partitions \in Seq(PartitionEntries)
BY DEF Signed, SectorContents, BootSectors, DirSectors, Descriptors, DirBlocks

LEMMA SectorFields ==
    ASSUME NEW s \in SectorContents
    PROVE  /\ "recs" \in DOMAIN s => s.recs \in Seq(DirRecords)
           /\ "bytes" \in DOMAIN s => s.bytes \in [1 .. SectorSize -> 0 .. 255]
<1>1. ASSUME s \in BootSectors PROVE "recs" \notin DOMAIN s /\ "bytes" \notin DOMAIN s
  BY <1>1 DEF BootSectors
<1>2. ASSUME s \in DirSectors PROVE "recs" \notin DOMAIN s /\ "bytes" \notin DOMAIN s
  BY <1>2 DEF DirSectors
<1>3. ASSUME s \in Descriptors PROVE "recs" \notin DOMAIN s /\ "bytes" \notin DOMAIN s
  BY <1>3 DEF Descriptors
<1>4. ASSUME s \in DirBlocks PROVE ("recs" \in DOMAIN s => s.recs \in Seq(DirRecords)) /\ "bytes" \notin DOMAIN s
  <2>1. CASE s \in [k : {"recs"}, recs : Seq(DirRecords)]
    BY <2>1
  <2>2. CASE s \in [k : {"areas"}, areas : Seq(Seq(SuspTags))]
    BY <2>2
  <2> QED
    BY <1>4, <2>1, <2>2 DEF DirBlocks
<1>5. ASSUME s \in [k : {"blank", "fsinfo"}] PROVE "recs" \notin DOMAIN s /\ "bytes" \notin DOMAIN s
  BY <1>5
<1>6. ASSUME s \in [k : {"data", "fat"}, bytes : [1 .. SectorSize -> 0 .. 255]]
      PROVE  "recs" \notin DOMAIN s /\ s.bytes \in [1 .. SectorSize -> 0 .. 255]
  BY <1>6
<1>7. ASSUME s \in [k : {"mbr"}, partitions : Seq(PartitionEntries)]
      PROVE  "recs" \notin DOMAIN s /\ "bytes" \notin DOMAIN s
  BY <1>7
<1> QED
  BY <1>1, <1>2, <1>3, <1>4, <1>5, <1>6, <1>7 DEF SectorContents

LEMMA RecordsFacts == ASSUME NEW s \in SectorContents PROVE RecordsOf(s) \in Seq(DirRecords)
BY SectorFields DEF RecordsOf

LEMMA BytesOfFacts ==
    ASSUME NEW sectors \in Seq(SectorContents)
    PROVE  BytesOf(sectors) \in Seq(0 .. 255) /\ Len(BytesOf(sectors)) = Len(sectors) * SectorSize
<1>1. PICK n \in Nat, z \in Nat \ {0} : n = Len(sectors) /\ z = SectorSize /\ \A i \in 1 .. n : sectors[i] \in SectorContents
  BY SectorAssumption, ElementOfSeq
<1>2. PICK m \in Nat : m = n * z
  OBVIOUS
<1>3. ASSUME NEW i \in 1 .. m
      PROVE  (IF "bytes" \in DOMAIN sectors[((i - 1) \div z) + 1]
              THEN sectors[((i - 1) \div z) + 1].bytes[((i - 1) % z) + 1] ELSE 0) \in 0 .. 255
  <2>1. ((i - 1) % z) + 1 \in 1 .. z
    OBVIOUS
  <2>2. ((i - 1) \div z) + 1 \in 1 .. n
    <3>1. PICK q \in Nat, r \in 0 .. z - 1 : i - 1 = z * q + r /\ q = (i - 1) \div z
      OBVIOUS
    <3>2. z * q <= i - 1 /\ i - 1 < z * n
      BY <1>2, <3>1
    <3>3. q < n
      BY <3>2
    <3> QED
      BY <3>1, <3>3
  <2>3. PICK t \in SectorContents, j \in 1 .. SectorSize :
            t = sectors[((i - 1) \div z) + 1] /\ j = ((i - 1) % z) + 1
    BY <1>1, <2>1, <2>2
  <2>4. "bytes" \in DOMAIN t => t.bytes[j] \in 0 .. 255
    BY <2>3, SectorFields
  <2>5. (IF "bytes" \in DOMAIN t THEN t.bytes[j] ELSE 0) \in 0 .. 255
    BY <2>4
  <2> QED
    BY <2>3, <2>5, Zenon
<1>4. PICK f : f = BytesOf(sectors)
  OBVIOUS
<1>5. f \in [1 .. m -> 0 .. 255]
  <2>1. f = [i \in 1 .. m |-> IF "bytes" \in DOMAIN sectors[((i - 1) \div z) + 1]
                              THEN sectors[((i - 1) \div z) + 1].bytes[((i - 1) % z) + 1] ELSE 0]
    BY <1>1, <1>2, <1>4 DEF BytesOf
  <2> QED
    BY <1>3, <2>1
<1>6. f \in Seq(0 .. 255) /\ Len(f) = m
  BY <1>5, SeqDef
<1> QED
  BY <1>1, <1>2, <1>4, <1>6

-----------------------------------------------------------------------------
(* Volumes.                                                                *)

VolumeFields == {"fs", "dev", "label", "root"}
FatFields == {"type", "bytesPerSector", "sectorsPerCluster", "sectorsPerFAT", "rootDirSectors", "loadedFAT"}
FatTypes == {"FAT12", "FAT16", "FAT32"}

VolumeOK(v) ==
    /\ VolumeFields \subseteq DOMAIN v /\ v.fs \in {"fat", "iso"}
    /\ DeviceOK(v.dev) /\ v.root \in FileStates
    /\ v.fs = "fat" => /\ FatFields \subseteq DOMAIN v /\ v.rootDirSectors \in Nat
                       /\ v.bytesPerSector \in Nat \ {0} /\ v.bytesPerSector \in ValidSectorSizes
                       /\ v.sectorsPerCluster \in Nat \ {0} /\ v.sectorsPerFAT \in Nat
                       /\ v.type \in FatTypes /\ v.loadedFAT \in Seq(0 .. 255)
    /\ v.fs = "iso" => "rockRidge" \in DOMAIN v

LEMMA RoundUpFacts == ASSUME NEW a \in Nat, NEW b \in Nat \ {0} PROVE RoundUp(a, b) \in Nat
BY DEF RoundUp

LEMMA SectorSizesFacts == ValidSectorSizes \subseteq Nat \ {0}
BY SectorAssumption DEF ValidSectorSizes

LEMMA FatProbeFacts ==
    ASSUME NEW dev, DeviceOK(dev), FatProbe(dev) # NoVolume
    PROVE  VolumeOK(FatProbe(dev)) /\ FatProbe(dev).fs = "fat" /\ FatProbe(dev).dev = dev
<1>1. PICK bpb \in SectorContents : bpb = ReadSectors(dev, 0, 1)[1]
  BY ReadFacts
<1>2. Recognised(bpb)
  BY <1>1 DEF FatProbe, FatVolume
<1>3. /\ bpb \in BootSectors /\ bpb.bytes_per_sector \in Nat \ {0} /\ bpb.sectors_per_cluster \in Nat \ {0}
      /\ bpb.bytes_per_sector \in ValidSectorSizes /\ SectorsPerFAT(bpb) \in Nat
  <2>1. bpb.k = "bpb" /\ bpb.bytes_per_sector \in ValidSectorSizes
    BY <1>2 DEF Recognised
  <2>2. bpb.sectors_per_cluster \in {1, 2, 4, 8, 16, 32, 64, 128}
    BY <1>2 DEF Recognised
  <2>3. bpb \in BootSectors
    BY <2>1, SectorKinds
  <2>4. bpb.bytes_per_sector \in Nat \ {0}
    BY <2>1, SectorSizesFacts
  <2>5. bpb.sectors_per_cluster \in Nat \ {0}
    BY <2>2
  <2>6. SectorsPerFAT(bpb) \in Nat
    <3>1. bpb.sectors_per_fat \in Nat
      BY <2>3 DEF BootSectors
    <3>2. \A a \in Nat, b \in Nat \ {0} : a % b \in Nat
      OBVIOUS
    <3> QED
      BY <3>1, <3>2, FatAssumption DEF SectorsPerFAT
  <2> QED
    BY <2>1, <2>3, <2>4, <2>5, <2>6
<1>4. PICK n : n = RoundUp(bpb.root_dir_entries * DirEntrySize, bpb.bytes_per_sector)
  OBVIOUS
<1>5. n \in Nat
  <2>1. bpb.root_dir_entries \in Nat /\ DirEntrySize \in Nat
    BY <1>3, FatAssumption DEF BootSectors
  <2>2. bpb.root_dir_entries * DirEntrySize \in Nat
    BY <2>1
  <2> QED
    BY <1>3, <1>4, <2>2, RoundUpFacts
<1>6. PICK type, lba, data, label :
          /\ type \in FatTypes
          /\ FatProbe(dev) = [fs |-> "fat", type |-> type, dev |-> dev, label |-> label,
              bytesPerSector |-> bpb.bytes_per_sector, sectorsPerCluster |-> bpb.sectors_per_cluster,
              sectorsPerFAT |-> SectorsPerFAT(bpb), fatLBA |-> bpb.reserved_sectors,
              rootDirectoryLBA |-> lba, rootDirSectors |-> n,
              dataLBA |-> data, loadedFAT |-> <<>>,
              root |-> IF type = "FAT32" THEN [FatRoot EXCEPT !.inode = bpb.root_dir_cluster]
                       ELSE [FatRoot EXCEPT !.size = n]]
  <2>1. FatProbe(dev) = FatVolume(dev, bpb)
    BY <1>1 DEF FatProbe
  <2>2. PICK lba : lba = bpb.reserved_sectors + SectorsPerFAT(bpb) * bpb.fat_count
    OBVIOUS
  <2>3. PICK type : type = TypeFor(((bpb.total_sectors - (lba + n)) % SectorCounts) \div bpb.sectors_per_cluster, n)
    OBVIOUS
  <2>4. FatVolume(dev, bpb) = [fs |-> "fat", type |-> type, dev |-> dev, label |-> bpb.volume_label,
              bytesPerSector |-> bpb.bytes_per_sector, sectorsPerCluster |-> bpb.sectors_per_cluster,
              sectorsPerFAT |-> SectorsPerFAT(bpb), fatLBA |-> bpb.reserved_sectors,
              rootDirectoryLBA |-> lba, rootDirSectors |-> n,
              dataLBA |-> lba + n, loadedFAT |-> <<>>,
              root |-> IF type = "FAT32" THEN [FatRoot EXCEPT !.inode = bpb.root_dir_cluster]
                       ELSE [FatRoot EXCEPT !.size = n]]
    BY <1>4, <2>1, <2>2, <2>3, Zenon DEF FatVolume
  <2>5. type \in DOMAIN ChainEnd
    BY <1>4, <2>1, <2>2, <2>3, Zenon DEF FatVolume
  <2>6. type \in FatTypes
    BY <2>5 DEF ChainEnd, FatTypes
  <2> QED
    BY <2>1, <2>4, <2>6
<1>7. (IF type = "FAT32" THEN [FatRoot EXCEPT !.inode = bpb.root_dir_cluster]
       ELSE [FatRoot EXCEPT !.size = n]) \in FileStates
  <2>1. bpb.root_dir_cluster \in Nat
    BY <1>3 DEF BootSectors
  <2>2. {"subdir"} \in SUBSET Attributes
    BY DEF Attributes
  <2>3. /\ [FatRoot EXCEPT !.inode = bpb.root_dir_cluster]
               = [inode |-> bpb.root_dir_cluster, size |-> 0, flags |-> {"subdir"}, position |-> 0]
        /\ [FatRoot EXCEPT !.size = n] = [inode |-> 0, size |-> n, flags |-> {"subdir"}, position |-> 0]
    BY DEF FatRoot
  <2> QED
    BY <1>5, <2>1, <2>2, <2>3 DEF FileStates
<1>8. PICK root \in FileStates : root = IF type = "FAT32" THEN [FatRoot EXCEPT !.inode = bpb.root_dir_cluster]
                                        ELSE [FatRoot EXCEPT !.size = n]
  BY <1>7
<1>9. <<>> \in Seq(0 .. 255)
  OBVIOUS
<1> QED
  BY <1>3, <1>5, <1>6, <1>8, <1>9 DEF VolumeOK, VolumeFields, FatFields

(* What on_init() changes of a volume.                                     *)
LEMMA FatInitFacts ==
    ASSUME NEW v, VolumeOK(v), v.fs = "fat"
    PROVE  VolumeOK(FatInit(v)) /\ FatInit(v).fs = "fat"
<1>1. ASSUME NEW w, VolumeOK(w), w.fs = "fat", NEW x
      PROVE  /\ VolumeOK([w EXCEPT !.label = x]) /\ [w EXCEPT !.label = x].fs = "fat"
             /\ [w EXCEPT !.loadedFAT = x].fs = "fat"
             /\ x \in Seq(0 .. 255) => VolumeOK([w EXCEPT !.loadedFAT = x])
  BY <1>1 DEF VolumeOK, VolumeFields, FatFields
<1>2. VolumeOK(LoadFAT(v)) /\ LoadFAT(v).fs = "fat"
  <2>1. PICK count : count = (v.sectorsPerFAT * v.bytesPerSector) \div SectorSize
    OBVIOUS
  <2>2. count \in Nat
    <3>1. PICK a \in Nat, b \in Nat, z \in Nat \ {0} : a = v.sectorsPerFAT /\ b = v.bytesPerSector /\ z = SectorSize
      BY SectorAssumption DEF VolumeOK
    <3>2. PICK m \in Nat : m = a * b
      OBVIOUS
    <3>3. m \div z \in Nat
      OBVIOUS
    <3> QED
      BY <2>1, <3>1, <3>2, <3>3
  <2>3. PICK x \in Seq(0 .. 255) : x = BytesOf(ReadSectors(v.dev, v.fatLBA, count))
    BY <2>2, ReadFacts, BytesOfFacts DEF VolumeOK
  <2>4. LoadFAT(v) = [v EXCEPT !.loadedFAT = x]
    BY <2>1, <2>3 DEF LoadFAT
  <2>5. VolumeOK([v EXCEPT !.loadedFAT = x]) /\ [v EXCEPT !.loadedFAT = x].fs = "fat"
    BY <1>1, <2>3, Zenon
  <2> QED
    BY <2>4, <2>5, Zenon
<1>3. PICK w : w = LoadFAT(v)
  OBVIOUS
<1>4. FindLabel(w) = w \/ \E x : FindLabel(w) = [w EXCEPT !.label = x]
  BY DEF FindLabel
<1>5. FatInit(v) = FindLabel(w)
  BY <1>3 DEF FatInit
<1>6. VolumeOK(w) /\ w.fs = "fat"
  BY <1>2, <1>3
<1>7. ASSUME NEW x, FindLabel(w) = [w EXCEPT !.label = x] PROVE VolumeOK(FindLabel(w)) /\ FindLabel(w).fs = "fat"
  <2>1. VolumeOK([w EXCEPT !.label = x]) /\ [w EXCEPT !.label = x].fs = "fat"
    BY <1>1, <1>6, Zenon
  <2> QED
    BY <1>7, <2>1, Zenon
<1>8. VolumeOK(FindLabel(w)) /\ FindLabel(w).fs = "fat"
  BY <1>4, <1>6, <1>7
<1> QED
  BY <1>5, <1>8

LEMMA IsoProbeFacts ==
    ASSUME NEW dev, DeviceOK(dev), IsoProbe(dev) \notin {NoVolume, Stuck}
    PROVE  VolumeOK(IsoProbe(dev)) /\ IsoProbe(dev).fs = "iso" /\ IsoProbe(dev).dev = dev
<1>1. PICK descs : descs = [i \in 0 .. MaxDescs - 1 |-> IsoBlock(dev, FirstDesc + i)[1]]
  OBVIOUS
<1>2. MaxDescs \in Nat /\ \A i \in 0 .. MaxDescs - 1 : descs[i] \in SectorContents
  BY <1>1, BlockFacts, IsoAssumption
<1>3. PICK i \in 0 .. MaxDescs : /\ IsoProbe(dev) = Verdict(dev, descs, i)
                                 /\ i # MaxDescs => Stops(descs, i)
  <2> DEFINE S == {MaxDescs} \cup {j \in 0 .. MaxDescs - 1 : Stops(descs, j)}
  <2>1. Min(S) \in S
    <3>1. S \subseteq Nat /\ S # {}
      BY <1>2
    <3> QED
      BY <3>1, MinFacts
  <2>2. IsoProbe(dev) = Verdict(dev, descs, Min(S))
    BY <1>1 DEF IsoProbe
  <2>3. Min(S) \in 0 .. MaxDescs /\ (Min(S) # MaxDescs => Stops(descs, Min(S)))
    BY <1>2, <2>1
  <2> QED
    BY <2>2, <2>3
<1>4. /\ Earlier(descs, i) # {}
      /\ IsoProbe(dev) = [fs |-> "iso", dev |-> dev, label |-> descs[Min(Earlier(descs, i))].label,
                          root |-> descs[Min(Earlier(descs, i))].root, rockRidge |-> FALSE]
  BY <1>3 DEF Verdict
<1>5. PICK j \in Earlier(descs, i) : j = Min(Earlier(descs, i))
  <2>1. Earlier(descs, i) \subseteq Nat
    BY DEF Earlier
  <2> QED
    BY <1>4, <2>1, MinFacts
<1>6. descs[j].root \in FileStates
  <2>1. descs[j] \in SectorContents /\ descs[j].k = "desc" /\ descs[j].type = "primary"
    BY <1>2, <1>3, <1>5 DEF Earlier, IsPrimary, Valid
  <2>2. descs[j] \in Descriptors
    BY <2>1, SectorKinds
  <2> QED
    BY <2>1, <2>2 DEF Descriptors
<1> QED
  BY <1>4, <1>5, <1>6 DEF VolumeOK, VolumeFields

LEMMA IsoInitFacts ==
    ASSUME NEW v, VolumeOK(v), v.fs = "iso"
    PROVE  VolumeOK(IsoInit(v)) /\ IsoInit(v).fs = "iso"
<1>1. ASSUME NEW x PROVE VolumeOK([v EXCEPT !.rockRidge = x]) /\ [v EXCEPT !.rockRidge = x].fs = "iso"
  BY DEF VolumeOK, VolumeFields
<1> QED
  BY <1>1 DEF IsoInit

(* What a probe finds is a volume once it is initialized.                  *)
LEMMA ProbeFacts ==
    ASSUME NEW dev, DeviceOK(dev), ProbeDevice(dev) \notin {NoVolume, Stuck}
    PROVE  VolumeOK(OnInit(ProbeDevice(dev)))
<1>1. CASE IsoProbe(dev) # NoVolume
  BY <1>1, IsoProbeFacts, IsoInitFacts DEF ProbeDevice, OnInit
<1>2. CASE IsoProbe(dev) = NoVolume
  BY <1>2, FatProbeFacts, FatInitFacts DEF ProbeDevice, OnInit
<1> QED
  BY <1>1, <1>2

-----------------------------------------------------------------------------
(* Directories on a FAT volume.                                            *)

LEMMA CutShort ==
    ASSUME NEW A, NEW s \in Seq(A), NEW n \in 0 .. Len(s)
    PROVE  /\ SubSeq(s, 1, n) \in Seq(A) /\ Len(SubSeq(s, 1, n)) = n
           /\ \A i \in 1 .. n : SubSeq(s, 1, n)[i] = s[i]
BY SubSeqProperties

LEMMA MappedTexts ==
    ASSUME NEW A, NEW N \in Nat, NEW f \in [1 .. N -> Seq(A)]
    PROVE  FlattenSeq(f) \in Seq(A)
<1>1. f \in Seq(Seq(A))
  BY SeqDef
<1>2. Len(f) \in Nat
  BY <1>1
<1>3. PICK g \in [0 .. Len(f) -> Seq(A)] : g[Len(f)] = FlattenSeq(f)
  BY <1>1, FlattenFacts
<1> QED
  BY <1>2, <1>3

InDirectory == {e \in DirEntries : e.k # "end"}

LEMMA EntriesInFacts ==
    ASSUME NEW sectors \in Seq(SectorContents)
    PROVE  EntriesIn(sectors) \in Seq(InDirectory)
<1>1. PICK N \in Nat : N = Len(sectors) /\ \A i \in 1 .. N : sectors[i] \in SectorContents
  BY ElementOfSeq
<1>2. PICK f : f = [i \in 1 .. N |-> IF sectors[i].k = "dir" THEN sectors[i].entries ELSE <<[k |-> "end"]>>]
  OBVIOUS
<1>3. f \in [1 .. N -> Seq(DirEntries)]
  <2>1. <<[k |-> "end"]>> \in Seq(DirEntries)
    BY DEF DirEntries
  <2>2. ASSUME NEW i \in 1 .. N, sectors[i].k = "dir" PROVE sectors[i].entries \in Seq(DirEntries)
    BY <1>1, <2>2, SectorKinds DEF DirSectors
  <2> QED
    BY <1>2, <2>1, <2>2
<1>4. PICK all \in Seq(DirEntries) : all = FlattenSeq(f)
  BY <1>3, MappedTexts
<1>5. PICK n \in Nat : n = Len(all) /\ DOMAIN all = 1 .. n /\ \A i \in 1 .. n : all[i] \in DirEntries
  BY <1>4, ElementOfSeq
<1> DEFINE ends == {i \in 1 .. n : all[i].k = "end"}
<1>6. EntriesIn(sectors) = IF ends = {} THEN all ELSE SubSeq(all, 1, Min(ends) - 1)
  BY <1>1, <1>2, <1>4, <1>5 DEF EntriesIn
<1>7. CASE ends = {}
  <2>1. \A i \in 1 .. n : all[i] \in InDirectory
    BY <1>5, <1>7 DEF InDirectory
  <2>2. all \in [1 .. n -> InDirectory]
    BY <1>4, <1>5, <2>1
  <2> QED
    BY <1>6, <1>7, <2>2, SeqDef
<1>8. CASE ends # {}
  <2>1. PICK m \in 1 .. n : m = Min(ends) /\ \A i \in ends : m <= i
    <3>1. ends \subseteq Nat
      OBVIOUS
    <3> QED
      BY <1>8, <3>1, MinFacts
  <2>2. \A i \in 1 .. m - 1 : all[i] \in InDirectory
    BY <1>5, <2>1 DEF InDirectory
  <2>3. PICK cut \in Seq(DirEntries) : /\ cut = SubSeq(all, 1, m - 1) /\ Len(cut) = m - 1
                                       /\ \A i \in 1 .. m - 1 : cut[i] = all[i]
    <3>1. m - 1 \in 0 .. Len(all)
      BY <1>5
    <3> QED
      BY <3>1, CutShort
  <2>4. cut \in [1 .. m - 1 -> InDirectory]
    <3>1. cut \in [1 .. Len(cut) -> DirEntries]
      BY <2>3, LenProperties
    <3>2. cut \in [1 .. m - 1 -> DirEntries]
      BY <2>3, <3>1
    <3> QED
      BY <2>2, <2>3, <3>2
  <2>5. cut \in Seq(InDirectory)
    BY <2>4, SeqDef
  <2> QED
    BY <1>6, <1>8, <2>1, <2>3, <2>5
<1> QED
  BY <1>7, <1>8

(* A cluster's sectors, whatever its number.                               *)
LEMMA LoadClusterFacts ==
    ASSUME NEW v, VolumeOK(v), v.fs = "fat", NEW c
    PROVE  Extent(v, c).count \in Nat /\ LoadCluster(v, c) \in Seq(SectorContents)
<1>1. Extent(v, c).count \in Nat
  BY DEF VolumeOK, Extent
<1>2. PICK w \in Nat : w = v.bytesPerSector \div SectorSize
  <2>1. PICK z \in Nat \ {0} : z = SectorSize
    BY SectorAssumption
  <2>2. PICK b \in Nat : b = v.bytesPerSector
    BY DEF VolumeOK
  <2>3. b \div z \in Nat
    BY <2>1, <2>2
  <2> QED
    BY <2>1, <2>2, <2>3
<1>3. PICK n \in Nat : n = Extent(v, c).count * w
  <2>1. PICK m \in Nat : m = Extent(v, c).count
    BY <1>1
  <2>2. m * w \in Nat
    OBVIOUS
  <2> QED
    BY <2>1, <2>2
<1>4. DeviceOK(v.dev)
  BY DEF VolumeOK
<1>5. LoadCluster(v, c) = ReadSectors(v.dev, Extent(v, c).lba * w, n)
  BY <1>2, <1>3 DEF LoadCluster
<1>6. ReadSectors(v.dev, Extent(v, c).lba * w, n) \in Seq(SectorContents)
  BY <1>4, ReadFacts
<1> QED
  BY <1>1, <1>5, <1>6

(* The cluster chains of a volume end: a cluster that the table links to   *)
(* another is farther from its end.                                        *)
Linked(v, c) == c # 0 /\ NextCluster(v, c) < ChainEnd[v.type]
Ends(v) ==
    v.fs = "fat" => \E bound \in Nat : \E far \in [Nat -> 0 .. bound] :
                        \A c \in Nat : Linked(v, c) => far[NextCluster(v, c)] < far[c]

LEMMA FatWordFacts == ASSUME NEW v, v.loadedFAT \in Seq(0 .. 255), NEW i PROVE FatWord(v, i) \in Nat
<1>1. ASSUME NEW j PROVE FatByte(v, j) \in Nat
  <2>1. PICK table \in Seq(0 .. 255) : table = v.loadedFAT
    OBVIOUS
  <2>2. PICK k : k = j + 1
    OBVIOUS
  <2>3. k \in DOMAIN table => table[k] \in Nat
    <3>1. DOMAIN table = 1 .. Len(table)
      OBVIOUS
    <3>2. ASSUME NEW n \in 1 .. Len(table) PROVE table[n] \in 0 .. 255
      BY ElementOfSeq
    <3>3. \A x \in 0 .. 255 : x \in Nat
      OBVIOUS
    <3> QED
      BY <3>1, <3>2, <3>3, Zenon
  <2>5. 0 \in Nat
    OBVIOUS
  <2>4. FatByte(v, j) = IF k \in DOMAIN table THEN table[k] ELSE 0
    BY <2>1, <2>2 DEF FatByte
  <2> QED
    BY <2>3, <2>4, <2>5, Zenon
<1>2. PICK a \in Nat, b \in Nat : a = FatByte(v, i) /\ b = FatByte(v, i + 1)
  BY <1>1
<1>3. a + 256 * b \in Nat
  OBVIOUS
<1> QED
  BY <1>2, <1>3 DEF FatWord

LEMMA NextClusterFacts == ASSUME NEW v, VolumeOK(v), v.fs = "fat", NEW c \in Nat PROVE NextCluster(v, c) \in Nat
<1>1. \A i : FatWord(v, i) \in Nat
  BY FatWordFacts DEF VolumeOK
<1>2. \A w \in Nat : w \div 16 \in Nat /\ w % 4096 \in Nat
  OBVIOUS
<1>3. \A a, b \in Nat : a + 65536 * b \in Nat
  OBVIOUS
<1>4. CASE v.type = "FAT12"
  <2>1. PICK w \in Nat : w = FatWord(v, c + c \div 2)
    BY <1>1
  <2>2. NextCluster(v, c) = IF c % 2 = 1 THEN w \div 16 ELSE w % 4096
    BY <1>4, <2>1 DEF NextCluster
  <2> QED
    BY <1>2, <2>2
<1>5. CASE v.type = "FAT16"
  BY <1>1, <1>5 DEF NextCluster
<1>6. CASE v.type = "FAT32"
  <2>1. PICK a \in Nat, b \in Nat : a = FatWord(v, 4 * c) /\ b = FatWord(v, 4 * c + 2)
    BY <1>1
  <2>2. b % 4096 \in Nat
    BY <1>2
  <2>3. NextCluster(v, c) = a + 65536 * (b % 4096)
    BY <1>6, <2>1 DEF NextCluster
  <2> QED
    BY <1>3, <2>2, <2>3
<1> QED
  BY <1>4, <1>5, <1>6 DEF VolumeOK, FatTypes

(* Then a walk of a ClusterReader comes by some clusters, the first one    *)
(* first.                                                                  *)
LEMMA ChainFacts ==
    ASSUME NEW v, VolumeOK(v), v.fs = "fat", Ends(v), NEW c \in Nat
    PROVE  Chain(v, c) \in Seq(Nat) /\ 1 \in DOMAIN Chain(v, c) /\ Chain(v, c)[1] = c
<1>1. PICK bound \in Nat : \E far \in [Nat -> 0 .. bound] :
          \A d \in Nat : Linked(v, d) => far[NextCluster(v, d)] < far[d]
  BY DEF Ends
<1>2. PICK far \in [Nat -> 0 .. bound] : \A d \in Nat : Linked(v, d) => far[NextCluster(v, d)] < far[d]
  BY <1>1
<1>3. PICK more : more = {d \in Nat : Linked(v, d)}
  OBVIOUS
<1>4. PICK head, link : head = [d \in Nat |-> <<d>>] /\ link = [d \in Nat |-> NextCluster(v, d)]
  OBVIOUS
<1>5. LinksDown(Nat, more, head, link) /\ link \in [Nat -> Nat]
  <2>1. /\ more \subseteq Nat /\ head \in [Nat -> Seq(Nat)] /\ link \in [Nat -> Nat]
        /\ \A d \in more : far[link[d]] < far[d]
    BY <1>2, <1>3, <1>4, NextClusterFacts
  <2> QED
    BY <2>1 DEF LinksDown
<1>6. \E f : Descends(f, more, head, link)
  BY <1>5, DescentExists
<1>7. ASSUME NEW f
      PROVE  Descends(f, more, head, link) <=>
                 f = [d \in Nat |-> IF d # 0 /\ NextCluster(v, d) < ChainEnd[v.type]
                                     THEN <<d>> \o f[NextCluster(v, d)] ELSE <<d>>]
  BY <1>3, <1>4 DEF Descends, Linked
<1>8. PICK f : Descends(f, more, head, link) /\ Chain(v, c) = f[c]
  <2>1. PICK f : f = CHOOSE g : g = [d \in Nat |-> IF d # 0 /\ NextCluster(v, d) < ChainEnd[v.type]
                                                   THEN <<d>> \o g[NextCluster(v, d)] ELSE <<d>>]
    OBVIOUS
  <2>2. f = [d \in Nat |-> IF d # 0 /\ NextCluster(v, d) < ChainEnd[v.type]
                           THEN <<d>> \o f[NextCluster(v, d)] ELSE <<d>>]
    BY <1>6, <1>7, <2>1
  <2>3. Chain(v, c) = f[c]
    BY <2>1 DEF Chain
  <2> QED
    BY <1>7, <2>2, <2>3
<1>9. /\ f[c] \in Seq(Nat) /\ f[link[c]] \in Seq(Nat)
      /\ f[c] = IF c \in more THEN head[c] \o f[link[c]] ELSE head[c]
  <2>1. link[c] \in Nat
    BY <1>5
  <2>2. \A d \in Nat : f[d] \in Seq(Nat) /\ f[d] = IF d \in more THEN head[d] \o f[link[d]] ELSE head[d]
    <3>1. IsDescent(f, Nat, more, head, link)
      BY <1>5, <1>8 DEF IsDescent
    <3>2. Unfolds(f, Nat, more, head, link)
      BY <3>1, DescentFacts
    <3> QED
      BY <3>2 DEF Unfolds
  <2> QED
    BY <2>1, <2>2
<1>10. PICK rest \in Seq(Nat) : rest = f[link[c]]
  BY <1>9
<1>11. f[c] = <<c>> \o rest \/ f[c] = <<c>>
  BY <1>4, <1>9, <1>10
<1>12. 1 \in DOMAIN (<<c>> \o rest) /\ (<<c>> \o rest)[1] = c
  OBVIOUS
<1>13. 1 \in DOMAIN <<c>> /\ <<c>>[1] = c
  OBVIOUS
<1>14. PICK s \in Seq(Nat) : s = Chain(v, c) /\ s = f[c]
  BY <1>8, <1>9
<1>15. CASE s = <<c>> \o rest
  BY <1>12, <1>14, <1>15
<1>16. CASE s = <<c>>
  BY <1>13, <1>14, <1>16
<1> QED
  BY <1>11, <1>14, <1>15, <1>16

LEMMA EntriesOfFacts ==
    ASSUME NEW v, VolumeOK(v), v.fs = "fat", Ends(v), NEW c \in Nat
    PROVE  EntriesOf(v, c) \in Seq(InDirectory)
<1>1. PICK clusters \in Seq(Nat), N \in Nat : clusters = Chain(v, c) /\ N = Len(clusters) /\ DOMAIN clusters = 1 .. N
  BY ChainFacts
<1>2. PICK f : f = [i \in 1 .. N |-> EntriesIn(LoadCluster(v, clusters[i]))]
  OBVIOUS
<1>3. f \in [1 .. N -> Seq(InDirectory)]
  BY <1>2, LoadClusterFacts, EntriesInFacts
<1> QED
  BY <1>1, <1>2, <1>3, MappedTexts DEF EntriesOf

(* The parser.                                                             *)

NamePieces == Pieces \cup {ShortName(e) : e \in DirEntries}
Parsers == [parsing : BOOLEAN, checksum : 0 .. 255, buff : [0 .. MaxPieces - 1 -> NamePieces], ready : BOOLEAN]

LEMMA HandleNextFacts ==
    ASSUME NEW p \in Parsers, NEW e \in InDirectory
    PROVE  HandleNext(p, e) \in Parsers /\ (HandleNext(p, e).ready => e.k = "short")
<1>1. e \in DirEntries /\ e.k \in {"erased", "lfn", "short"}
  BY DEF InDirectory, DirEntries
<1>2. CASE Skipped(e)
  <2>1. HandleNext(p, e) = [p EXCEPT !.parsing = FALSE, !.ready = FALSE]
    <3>1. e.k # "lfn"
      BY <1>2 DEF Skipped
    <3> QED
      BY <1>2, <3>1, Zenon DEF HandleNext
  <2> QED
    BY <2>1 DEF Parsers
<1>3. CASE e.k = "lfn" /\ ~ Skipped(e)
  <2>1. e.checksum \in 0 .. 255 /\ e.piece \in Pieces
    BY <1>1, <1>3 DEF DirEntries
  <2>2. HandleNext(p, e) = [parsing |-> TRUE, checksum |-> e.checksum,
                            buff |-> [p.buff EXCEPT ![e.seq - 1] = e.piece], ready |-> FALSE]
    BY <1>3 DEF HandleNext
  <2>3. [p.buff EXCEPT ![e.seq - 1] = e.piece] \in [0 .. MaxPieces - 1 -> NamePieces]
    BY <2>1 DEF Parsers, NamePieces
  <2> QED
    BY <2>1, <2>2, <2>3 DEF Parsers
<1>4. CASE e.k = "short" /\ ~ Skipped(e)
  <2>1. HandleNext(p, e) \in {[p EXCEPT !.parsing = FALSE, !.ready = TRUE],
                              [p EXCEPT !.buff[0] = ShortName(e), !.ready = TRUE]}
    BY <1>4 DEF HandleNext
  <2>2. ShortName(e) \in NamePieces
    BY <1>1 DEF NamePieces
  <2>3. [p EXCEPT !.parsing = FALSE, !.ready = TRUE] \in Parsers
    BY DEF Parsers
  <2>4. [p.buff EXCEPT ![0] = ShortName(e)] \in [0 .. MaxPieces - 1 -> NamePieces]
    BY <2>2 DEF Parsers
  <2>5. [p EXCEPT !.buff[0] = ShortName(e), !.ready = TRUE] \in Parsers
    BY <2>4 DEF Parsers
  <2> QED
    BY <1>4, <2>1, <2>3, <2>5
<1> QED
  BY <1>1, <1>2, <1>3, <1>4 DEF Skipped

LEMMA ParsingFacts ==
    ASSUME NEW buff \in NameBuffers, NEW entries \in Seq(InDirectory)
    PROVE  \A i \in 1 .. Len(entries) : Parsing(buff, entries)[i].ready => entries[i].k = "short"
<1>1. PICK N \in Nat : N = Len(entries) /\ \A i \in 1 .. N : entries[i] \in InDirectory
  BY ElementOfSeq
<1>2. NewParser(buff) \in Parsers
  <2>1. buff \in [0 .. MaxPieces - 1 -> NamePieces]
    BY DEF NameBuffers, NamePieces
  <2> QED
    BY <2>1 DEF NewParser, Parsers
<1>3. PICK step : step = [i \in 1 .. N |-> [p \in Parsers |-> HandleNext(p, entries[i])]]
  OBVIOUS
<1>4. step \in [1 .. N -> [Parsers -> Parsers]]
  BY <1>1, <1>3, HandleNextFacts
<1>5. PICK f \in [0 .. N -> Parsers] : Follows(f, N, NewParser(buff), step)
  BY <1>2, <1>4, RecursionExists
<1>6. f[0] = NewParser(buff) /\ \A i \in 1 .. N : f[i] = HandleNext(f[i - 1], entries[i])
  <2>1. ASSUME NEW i \in 1 .. N PROVE f[i] = HandleNext(f[i - 1], entries[i])
    <3>1. f[i] = step[i][f[i - 1]] /\ f[i - 1] \in Parsers
      BY <1>5 DEF Follows
    <3> QED
      BY <1>3, <3>1
  <2> QED
    BY <1>5, <2>1 DEF Follows
<1>7. f = [i \in 0 .. N |-> IF i = 0 THEN NewParser(buff) ELSE HandleNext(f[i - 1], entries[i])]
  BY <1>5, <1>6
<1>8. PICK g : /\ g = Parsing(buff, entries)
               /\ g = [i \in 0 .. N |-> IF i = 0 THEN NewParser(buff) ELSE HandleNext(g[i - 1], entries[i])]
  <2>1. Parsing(buff, entries) =
            CHOOSE h : h = [i \in 0 .. N |-> IF i = 0 THEN NewParser(buff) ELSE HandleNext(h[i - 1], entries[i])]
    BY <1>1 DEF Parsing
  <2> QED
    BY <1>7, <2>1
<1>9. g[0] = NewParser(buff) /\ \A i \in 1 .. N : g[i] = HandleNext(g[i - 1], entries[i])
  BY <1>8
<1>10. \A i \in 0 .. N : g[i] \in Parsers
  <2>1. \A i \in 1 .. N : g[i - 1] \in Parsers => g[i] \in Parsers
    BY <1>1, <1>9, HandleNextFacts
  <2>2. g[0] \in Parsers
    BY <1>2, <1>9
  <2> QED
    BY <2>1, <2>2, StaysIn
<1>11. ASSUME NEW i \in 1 .. N, g[i].ready PROVE entries[i].k = "short"
  <2>1. g[i - 1] \in Parsers /\ entries[i] \in InDirectory /\ g[i] = HandleNext(g[i - 1], entries[i])
    BY <1>1, <1>9, <1>10
  <2> QED
    BY <1>11, <2>1, HandleNextFacts
<1> QED
  BY <1>1, <1>8, <1>11

(* What a walk hands out is typed, whatever its names.                     *)
Listed1(x) == x.inode \in Nat /\ x.size \in Nat /\ x.flags \in SUBSET Attributes
ListingOK(listed) == \E A : listed \in Seq(A) /\ \A x \in A : Listed1(x)

LEMMA ListingFacts ==
    ASSUME NEW v, VolumeOK(v), v.fs = "fat", Ends(v), NEW c \in Nat, NEW buff \in NameBuffers
    PROVE  ListingOK(Listing(v, c, buff))
<1>1. PICK entries \in Seq(InDirectory) : entries = EntriesOf(v, c)
  BY EntriesOfFacts
<1>2. PICK N \in Nat : N = Len(entries) /\ DOMAIN entries = 1 .. N /\ \A i \in 1 .. N : entries[i] \in InDirectory
  BY ElementOfSeq
<1>3. PICK parser : parser = Parsing(buff, entries)
  OBVIOUS
<1> DEFINE A == {x \in {HandedOut(parser[i], entries[i]) : i \in 1 .. N} : Listed1(x)}
<1>4. PICK f : f = [i \in 1 .. N |-> IF parser[i].ready THEN <<HandedOut(parser[i], entries[i])>> ELSE <<>>]
  OBVIOUS
<1>5. ASSUME NEW i \in 1 .. N, parser[i].ready PROVE HandedOut(parser[i], entries[i]) \in A
  <2>1. entries[i].k = "short" /\ entries[i] \in DirEntries
    BY <1>2, <1>3, <1>5, ParsingFacts DEF InDirectory
  <2>2. entries[i].first_cluster \in Nat /\ entries[i].file_size \in Nat /\ entries[i].attr \in SUBSET Attributes
    BY <2>1 DEF DirEntries
  <2>3. entries[i].first_cluster % FirstClusters \in Nat
    <3>1. \A a \in Nat, b \in Nat \ {0} : a % b \in Nat
      OBVIOUS
    <3> QED
      BY <2>2, <3>1, FatAssumption
  <2>4. Listed1(HandedOut(parser[i], entries[i]))
    BY <2>2, <2>3 DEF HandedOut, Listed1
  <2> QED
    BY <2>4
<1>6. \A x \in A : Listed1(x)
  OBVIOUS
<1> HIDE DEF A
<1>7. f \in [1 .. N -> Seq(A)]
  BY <1>4, <1>5
<1>8. FlattenSeq(f) \in Seq(A)
  BY <1>7, MappedTexts
<1>9. Listing(v, c, buff) = FlattenSeq(f)
  BY <1>1, <1>2, <1>3, <1>4 DEF Listing
<1> QED
  BY <1>6, <1>8, <1>9 DEF ListingOK

LEMMA FirstNamedFacts ==
    ASSUME NEW listed, ListingOK(listed), NEW name
    PROVE  FirstNamed(listed, name) \in FileStates
<1>1. PICK A : listed \in Seq(A) /\ \A x \in A : Listed1(x)
  BY DEF ListingOK
<1>2. PICK N \in Nat : DOMAIN listed = 1 .. N /\ \A i \in 1 .. N : listed[i] \in A
  <2>1. Len(listed) \in Nat /\ DOMAIN listed = 1 .. Len(listed) /\ \A i \in 1 .. Len(listed) : listed[i] \in A
    BY <1>1, ElementOfSeq
  <2> QED
    BY <2>1
<1> DEFINE found == {i \in DOMAIN listed : listed[i].name = name}
<1>3. NotFound \in FileStates
  BY DEF NotFound, FileStates, Attributes
<1>4. CASE found = {}
  BY <1>3, <1>4 DEF FirstNamed
<1>5. CASE found # {}
  <2>1. PICK i \in 1 .. N : i = Min(found)
    <3>1. found \subseteq Nat
      BY <1>2
    <3>2. Min(found) \in found
      BY <1>5, <3>1, MinFacts
    <3> QED
      BY <1>2, <3>2
  <2>2. Listed1(listed[i])
    BY <1>1, <1>2
  <2>3. FirstNamed(listed, name) = [inode |-> listed[i].inode, size |-> listed[i].size,
                                    flags |-> listed[i].flags, position |-> 0]
    BY <1>5, <2>1 DEF FirstNamed
  <2> QED
    BY <2>2, <2>3 DEF Listed1, FileStates
<1> QED
  BY <1>4, <1>5

-----------------------------------------------------------------------------
(* Walking along a path on a FAT volume.                                   *)

LEMMA EnterFacts ==
    ASSUME NEW last \in FileStates, NEW part \in FileStates, NEW name
    PROVE  Enter(last, name, part) \in FileStates
<1>1. NotFound \in FileStates
  BY DEF NotFound, FileStates, Attributes
<1> QED
  BY <1>1 DEF Enter

LEMMA FatWalkFacts ==
    ASSUME NEW v, VolumeOK(v), v.fs = "fat", Ends(v), NEW path, Len(path) \in Nat, NEW buff \in NameBuffers
    PROVE  \A i \in 0 .. Len(path) : FatWalk(v, path, buff)[i] \in FileStates
<1>1. PICK N \in Nat : N = Len(path)
  OBVIOUS
<1>2. ASSUME NEW st \in FileStates, NEW name PROVE Enter(st, name, FatPart(v, st.inode, name, buff)) \in FileStates
  <2>1. st.inode \in Nat
    BY DEF FileStates
  <2>2. FatPart(v, st.inode, name, buff) \in FileStates
    BY <2>1, ListingFacts, FirstNamedFacts DEF FatPart
  <2> QED
    BY <2>2, EnterFacts
<1>3. PICK step : step = [i \in 1 .. N |-> [st \in FileStates |-> Enter(st, path[i], FatPart(v, st.inode, path[i], buff))]]
  OBVIOUS
<1>4. step \in [1 .. N -> [FileStates -> FileStates]] /\ v.root \in FileStates
  BY <1>2, <1>3 DEF VolumeOK
<1>5. PICK f \in [0 .. N -> FileStates] : Follows(f, N, v.root, step)
  BY <1>4, RecursionExists
<1>6. f[0] = v.root /\ \A i \in 1 .. N : f[i] = Enter(f[i - 1], path[i], FatPart(v, f[i - 1].inode, path[i], buff))
  <2>1. ASSUME NEW i \in 1 .. N
        PROVE  f[i] = Enter(f[i - 1], path[i], FatPart(v, f[i - 1].inode, path[i], buff))
    <3>1. f[i] = step[i][f[i - 1]] /\ f[i - 1] \in FileStates
      BY <1>5 DEF Follows
    <3> QED
      BY <1>3, <3>1
  <2> QED
    BY <1>5, <2>1 DEF Follows
<1>7. f = [i \in 0 .. N |-> IF i = 0 THEN v.root
                            ELSE Enter(f[i - 1], path[i], FatPart(v, f[i - 1].inode, path[i], buff))]
  BY <1>5, <1>6
<1>8. PICK g : /\ g = FatWalk(v, path, buff)
               /\ g = [i \in 0 .. N |-> IF i = 0 THEN v.root
                                        ELSE Enter(g[i - 1], path[i], FatPart(v, g[i - 1].inode, path[i], buff))]
  <2>1. FatWalk(v, path, buff) =
            CHOOSE h : h = [i \in 0 .. N |-> IF i = 0 THEN v.root
                                             ELSE Enter(h[i - 1], path[i], FatPart(v, h[i - 1].inode, path[i], buff))]
    BY <1>1 DEF FatWalk
  <2> QED
    BY <1>7, <2>1
<1>9. /\ g[0] = v.root
      /\ \A i \in 1 .. N : g[i] = Enter(g[i - 1], path[i], FatPart(v, g[i - 1].inode, path[i], buff))
  BY <1>8
<1>10. \A i \in 0 .. N : g[i] \in FileStates
  <2>1. \A i \in 1 .. N : g[i - 1] \in FileStates => g[i] \in FileStates
    BY <1>2, <1>9
  <2>2. g[0] \in FileStates
    BY <1>4, <1>9
  <2> QED
    BY <2>1, <2>2, StaysIn
<1> QED
  BY <1>1, <1>8, <1>10

(* The clusters it reads make a sequence.                                  *)
LEMMA SearchedFacts ==
    ASSUME NEW v, VolumeOK(v), v.fs = "fat", Ends(v), NEW P, NEW path \in Seq(P), NEW buff \in NameBuffers
    PROVE  Searched(v, path, buff) \in Seq(Nat)
<1>1. PICK N \in Nat : N = Len(path) /\ DOMAIN path = 1 .. N
  OBVIOUS
<1>2. PICK last : last = FatWalk(v, path, buff) /\ \A i \in 0 .. N : last[i] \in FileStates
  BY <1>1, FatWalkFacts
<1>3. PICK f : f = [i \in 1 .. N |-> IF path[i] # <<>> /\ IsDir(last[i - 1]) THEN Chain(v, last[i - 1].inode) ELSE <<>>]
  OBVIOUS
<1>4. f \in [1 .. N -> Seq(Nat)]
  <2>1. ASSUME NEW i \in 1 .. N PROVE Chain(v, last[i - 1].inode) \in Seq(Nat)
    <3>1. i - 1 \in 0 .. N
      OBVIOUS
    <3>2. last[i - 1].inode \in Nat
      BY <1>2, <3>1 DEF FileStates
    <3> QED
      BY <3>2, ChainFacts
  <2>2. <<>> \in Seq(Nat)
    OBVIOUS
  <2>3. ASSUME NEW i \in 1 .. N
        PROVE  (IF path[i] # <<>> /\ IsDir(last[i - 1]) THEN Chain(v, last[i - 1].inode) ELSE <<>>) \in Seq(Nat)
    BY <2>1, <2>2, Zenon
  <2> QED
    BY <1>3, <2>3
<1>5. Searched(v, path, buff) = FlattenSeq(f)
  BY <1>1, <1>2, <1>3 DEF Searched
<1> QED
  BY <1>4, <1>5, MappedTexts

-----------------------------------------------------------------------------
(* The buffer of a volume.                                                 *)

BufferSet == {b \in [size : Nat, holds : Nat] : b.holds <= b.size}

LEMMA LoadSectorsFacts ==
    ASSUME NEW b \in BufferSet, NEW n \in Nat
    PROVE  LoadSectors(b, n) \in BufferSet
<1>1. b.size \in Nat /\ b.holds \in Nat /\ b.holds <= b.size
  BY DEF BufferSet
<1>2. PICK z \in Nat : z = b.size
  BY <1>1
<1>3. PICK m \in Nat : m = (IF z = 0 \/ n > z THEN n ELSE z) /\ n <= m
  OBVIOUS
<1>4. LoadSectors(b, n) = [size |-> m, holds |-> n]
  BY <1>2, <1>3 DEF LoadSectors
<1> QED
  BY <1>3, <1>4 DEF BufferSet

LEMMA LoadingFacts ==
    ASSUME NEW v, VolumeOK(v), NEW b \in BufferSet, NEW clusters, v.fs = "fat" => Len(clusters) \in Nat
    PROVE  Loading(v, b, clusters) \in BufferSet
<1>1. CASE v.fs # "fat"
  BY <1>1 DEF Loading
<1>2. CASE v.fs = "fat"
  <2>1. PICK N \in Nat : N = Len(clusters)
    BY <1>2
  <2>2. ASSUME NEW x \in BufferSet, NEW c PROVE LoadSectors(x, Extent(v, c).count) \in BufferSet
    BY <1>2, LoadClusterFacts, LoadSectorsFacts
  <2>3. PICK step : step = [i \in 1 .. N |-> [x \in BufferSet |-> LoadSectors(x, Extent(v, clusters[i]).count)]]
    OBVIOUS
  <2>4. step \in [1 .. N -> [BufferSet -> BufferSet]]
    BY <2>2, <2>3
  <2>5. PICK f \in [0 .. N -> BufferSet] : Follows(f, N, b, step)
    BY <2>4, RecursionExists
  <2>6. f[0] = b /\ \A i \in 1 .. N : f[i] = LoadSectors(f[i - 1], Extent(v, clusters[i]).count)
    <3>1. ASSUME NEW i \in 1 .. N PROVE f[i] = LoadSectors(f[i - 1], Extent(v, clusters[i]).count)
      <4>1. f[i] = step[i][f[i - 1]] /\ f[i - 1] \in BufferSet
        BY <2>5 DEF Follows
      <4> QED
        BY <2>3, <4>1
    <3> QED
      BY <2>5, <3>1 DEF Follows
  <2>7. f = [i \in 0 .. N |-> IF i = 0 THEN b ELSE LoadSectors(f[i - 1], Extent(v, clusters[i]).count)]
    BY <2>5, <2>6
  <2>8. PICK g : /\ g = Loads(v, b, clusters)
                 /\ g = [i \in 0 .. N |-> IF i = 0 THEN b ELSE LoadSectors(g[i - 1], Extent(v, clusters[i]).count)]
    <3>1. Loads(v, b, clusters) =
              CHOOSE h : h = [i \in 0 .. N |-> IF i = 0 THEN b ELSE LoadSectors(h[i - 1], Extent(v, clusters[i]).count)]
      BY <2>1 DEF Loads
    <3> QED
      BY <2>7, <3>1
  <2>9. g[0] = b /\ \A i \in 1 .. N : g[i] = LoadSectors(g[i - 1], Extent(v, clusters[i]).count)
    BY <2>8
  <2>10. \A i \in 0 .. N : g[i] \in BufferSet
    <3>1. \A i \in 1 .. N : g[i - 1] \in BufferSet => g[i] \in BufferSet
      BY <2>2, <2>9
    <3> QED
      BY <2>9, <3>1, StaysIn
  <2>11. g[N] \in BufferSet
    BY <2>10
  <2> QED
    BY <1>2, <2>1, <2>8, <2>11 DEF Loading
<1> QED
  BY <1>1, <1>2

-----------------------------------------------------------------------------
(* Directories on a disc.                                                  *)

IsoBuffers == [main : SectorContents, susp : SectorContents]
Visits(v) == {Visit(v, rec) : rec \in DirRecords}

LEMMA VisitsFacts == ASSUME NEW v, NEW x \in Visits(v) PROVE Listed1(x)
<1>1. PICK rec \in DirRecords : x = Visit(v, rec)
  BY DEF Visits
<1>2. rec.lba \in Nat /\ rec.size \in Nat /\ rec.flags \in SUBSET Attributes
  BY DEF DirRecords
<1> QED
  BY <1>1, <1>2 DEF Visit, Listed1

LEMMA AfterRecordFacts ==
    ASSUME NEW v, VolumeOK(v), NEW bufs \in IsoBuffers, NEW i, NEW special
    PROVE  AfterRecord(v, bufs, i, special) \in IsoBuffers
<1>1. ASSUME NEW block \in SectorContents PROVE LoadContinuation(bufs, block) \in IsoBuffers
  BY DEF LoadContinuation, IsoBuffers
<1>2. ASSUME NEW lba PROVE IsoBlock(v.dev, lba)[1] \in SectorContents
  BY BlockFacts DEF VolumeOK
<1>3. ASSUME NEW sua PROVE AfterTags(v.dev, sua, bufs) \in IsoBuffers
  BY <1>1, <1>2 DEF AfterTags
<1> QED
  BY <1>3 DEF AfterRecord

LEMMA BuffersFacts ==
    ASSUME NEW v, VolumeOK(v), NEW lba, NEW special
    PROVE  \A i \in 0 .. MaxRecords : Buffers(v, lba, special)[i] \in IsoBuffers
<1>1. PICK N \in Nat : N = MaxRecords
  BY IsoAssumption
<1>2. PICK base \in IsoBuffers : base = [main |-> IsoBlock(v.dev, lba)[1], susp |-> Blank]
  <2>1. IsoBlock(v.dev, lba)[1] \in SectorContents
    BY BlockFacts DEF VolumeOK
  <2> QED
    BY <2>1, BlankIsASector DEF IsoBuffers
<1>3. PICK step : step = [i \in 1 .. N |-> [b \in IsoBuffers |-> AfterRecord(v, b, i, special)]]
  OBVIOUS
<1>4. step \in [1 .. N -> [IsoBuffers -> IsoBuffers]]
  BY <1>3, AfterRecordFacts
<1>5. PICK f \in [0 .. N -> IsoBuffers] : Follows(f, N, base, step)
  BY <1>4, RecursionExists
<1>6. f[0] = base /\ \A i \in 1 .. N : f[i] = AfterRecord(v, f[i - 1], i, special)
  <2>1. ASSUME NEW i \in 1 .. N PROVE f[i] = AfterRecord(v, f[i - 1], i, special)
    <3>1. f[i] = step[i][f[i - 1]] /\ f[i - 1] \in IsoBuffers
      BY <1>5 DEF Follows
    <3> QED
      BY <1>3, <3>1
  <2> QED
    BY <1>5, <2>1 DEF Follows
<1>7. f = [i \in 0 .. N |-> IF i = 0 THEN base ELSE AfterRecord(v, f[i - 1], i, special)]
  BY <1>5, <1>6
<1>8. PICK g : /\ g = Buffers(v, lba, special)
               /\ g = [i \in 0 .. N |-> IF i = 0 THEN base ELSE AfterRecord(v, g[i - 1], i, special)]
  <2>1. Buffers(v, lba, special) =
            CHOOSE h : h = [i \in 0 .. N |-> IF i = 0 THEN base ELSE AfterRecord(v, h[i - 1], i, special)]
    BY <1>1, <1>2 DEF Buffers
  <2> QED
    BY <1>7, <2>1
<1>9. g[0] = base /\ \A i \in 1 .. N : g[i] = AfterRecord(v, g[i - 1], i, special)
  BY <1>8
<1>10. \A i \in 0 .. N : g[i] \in IsoBuffers
  <2>1. \A i \in 1 .. N : g[i - 1] \in IsoBuffers => g[i] \in IsoBuffers
    BY <1>9, AfterRecordFacts
  <2> QED
    BY <1>9, <2>1, StaysIn
<1> QED
  BY <1>1, <1>8, <1>10

LEMMA WalkBlockFacts ==
    ASSUME NEW v, VolumeOK(v), NEW lba, NEW special
    PROVE  WalkBlock(v, lba, special) \in Seq(Visits(v))
<1>1. PICK N \in Nat : N = MaxRecords
  BY IsoAssumption
<1>2. PICK bufs : bufs = Buffers(v, lba, special) /\ \A i \in 0 .. N : bufs[i] \in IsoBuffers
  BY <1>1, BuffersFacts
<1>3. ASSUME NEW i \in 1 .. N, Visited(bufs[i - 1], i, special)
      PROVE  RecordsOf(bufs[i - 1].main)[i] \in DirRecords
  <2>1. PICK recs \in Seq(DirRecords) : recs = RecordsOf(bufs[i - 1].main)
    <3>1. i - 1 \in 0 .. N
      OBVIOUS
    <3>2. bufs[i - 1].main \in SectorContents
      BY <1>2, <3>1 DEF IsoBuffers
    <3> QED
      BY <3>2, RecordsFacts
  <2>2. i \in 1 .. Len(recs)
    BY <1>3, <2>1 DEF Visited
  <2> QED
    BY <2>1, <2>2, ElementOfSeq
<1>4. PICK f : f = [i \in 1 .. N |-> IF Visited(bufs[i - 1], i, special)
                                     THEN <<Visit(v, RecordsOf(bufs[i - 1].main)[i])>> ELSE <<>>]
  OBVIOUS
<1>5. f \in [1 .. N -> Seq(Visits(v))]
  <2>1. ASSUME NEW rec \in DirRecords PROVE <<Visit(v, rec)>> \in Seq(Visits(v))
    BY DEF Visits
  <2>2. <<>> \in Seq(Visits(v))
    OBVIOUS
  <2>3. ASSUME NEW i \in 1 .. N
        PROVE  (IF Visited(bufs[i - 1], i, special) THEN <<Visit(v, RecordsOf(bufs[i - 1].main)[i])>> ELSE <<>>)
                   \in Seq(Visits(v))
    BY <1>3, <2>1, <2>2, Zenon
  <2> QED
    BY <1>4, <2>3
<1>6. WalkBlock(v, lba, special) = FlattenSeq(f)
  BY <1>1, <1>2, <1>4 DEF WalkBlock
<1> QED
  BY <1>5, <1>6, MappedTexts

LEMMA WalkDirFacts ==
    ASSUME NEW v, VolumeOK(v), NEW st \in FileStates, NEW special
    PROVE  ListingOK(WalkDir(v, st, special))
<1>1. PICK N \in Nat : N = (st.size + BlockSize - 1) \div BlockSize
  <2>1. PICK c \in Nat \ {0}, z \in Nat \ {0} : c = CdSectors /\ z = SectorSize
    BY IsoAssumption, SectorAssumption
  <2>2. PICK b \in Nat \ {0} : b = c * z
    <3>1. c * z \in Nat \ {0}
      OBVIOUS
    <3> QED
      BY <3>1
  <2>3. PICK n \in Nat : n = st.size
    BY DEF FileStates
  <2>4. (n + b - 1) \div b \in Nat
    OBVIOUS
  <2> QED
    BY <2>1, <2>2, <2>3, <2>4 DEF BlockSize
<1>2. PICK f : f = [i \in 1 .. N |-> WalkBlock(v, st.inode + i - 1, special)]
  OBVIOUS
<1>3. f \in [1 .. N -> Seq(Visits(v))]
  BY <1>2, WalkBlockFacts
<1>4. WalkDir(v, st, special) \in Seq(Visits(v))
  BY <1>1, <1>2, <1>3, MappedTexts DEF WalkDir
<1> QED
  BY <1>4, VisitsFacts DEF ListingOK

LEMMA IsoWalkFacts ==
    ASSUME NEW v, VolumeOK(v), v.fs = "iso", NEW path, Len(path) \in Nat
    PROVE  \A i \in 0 .. Len(path) : IsoWalk(v, path)[i] \in FileStates
<1>1. PICK N \in Nat : N = Len(path)
  OBVIOUS
<1>2. ASSUME NEW st \in FileStates, NEW name PROVE Enter(st, name, IsoPart(v, st, name)) \in FileStates
  <2>1. IsoPart(v, st, name) \in FileStates
    BY WalkDirFacts, FirstNamedFacts DEF IsoPart
  <2> QED
    BY <2>1, EnterFacts
<1>3. PICK step : step = [i \in 1 .. N |-> [st \in FileStates |-> Enter(st, path[i], IsoPart(v, st, path[i]))]]
  OBVIOUS
<1>4. step \in [1 .. N -> [FileStates -> FileStates]] /\ v.root \in FileStates
  BY <1>2, <1>3 DEF VolumeOK
<1>5. PICK f \in [0 .. N -> FileStates] : Follows(f, N, v.root, step)
  BY <1>4, RecursionExists
<1>6. f[0] = v.root /\ \A i \in 1 .. N : f[i] = Enter(f[i - 1], path[i], IsoPart(v, f[i - 1], path[i]))
  <2>1. ASSUME NEW i \in 1 .. N PROVE f[i] = Enter(f[i - 1], path[i], IsoPart(v, f[i - 1], path[i]))
    <3>1. f[i] = step[i][f[i - 1]] /\ f[i - 1] \in FileStates
      BY <1>5 DEF Follows
    <3> QED
      BY <1>3, <3>1
  <2> QED
    BY <1>5, <2>1 DEF Follows
<1>7. f = [i \in 0 .. N |-> IF i = 0 THEN v.root ELSE Enter(f[i - 1], path[i], IsoPart(v, f[i - 1], path[i]))]
  BY <1>5, <1>6
<1>8. PICK g : /\ g = IsoWalk(v, path)
               /\ g = [i \in 0 .. N |-> IF i = 0 THEN v.root
                                        ELSE Enter(g[i - 1], path[i], IsoPart(v, g[i - 1], path[i]))]
  <2>1. IsoWalk(v, path) = CHOOSE h : h = [i \in 0 .. N |-> IF i = 0 THEN v.root
                                               ELSE Enter(h[i - 1], path[i], IsoPart(v, h[i - 1], path[i]))]
    BY <1>1 DEF IsoWalk
  <2> QED
    BY <1>7, <2>1
<1>9. g[0] = v.root /\ \A i \in 1 .. N : g[i] = Enter(g[i - 1], path[i], IsoPart(v, g[i - 1], path[i]))
  BY <1>8
<1>10. \A i \in 0 .. N : g[i] \in FileStates
  <2>1. \A i \in 1 .. N : g[i - 1] \in FileStates => g[i] \in FileStates
    BY <1>2, <1>9
  <2>2. g[0] \in FileStates
    BY <1>4, <1>9
  <2> QED
    BY <2>1, <2>2, StaysIn
<1> QED
  BY <1>1, <1>8, <1>10

(* What a path stands for, on either file system.                          *)
LEMMA ResolveFacts ==
    ASSUME NEW v, VolumeOK(v), Ends(v), NEW P, NEW path \in Seq(P), NEW buff \in NameBuffers
    PROVE  Resolve(v, path, buff) \in FileStates
<1>1. Len(path) \in Nat /\ Len(path) \in 0 .. Len(path)
  OBVIOUS
<1>2. CASE v.fs = "fat"
  BY <1>1, <1>2, FatWalkFacts DEF Resolve, FatResolve
<1>3. CASE v.fs = "iso"
  BY <1>1, <1>3, IsoWalkFacts DEF Resolve, IsoResolve
<1> QED
  BY <1>2, <1>3 DEF VolumeOK

-----------------------------------------------------------------------------
(* Reading a file.                                                         *)

OpenStates == {s \in [inode : Nat, size : Nat, flags : SUBSET Attributes, position : Nat] : s.position <= s.size}

LEMMA OpenStatesFacts == ASSUME NEW st \in FileStates PROVE st \in OpenStates
BY DEF FileStates, OpenStates

Copies(size) == [position : 0 .. size, left : Nat, out : Seq(0 .. 255), over : BOOLEAN, fault : BOOLEAN]

LEMMA RestOfCopy ==
    ASSUME NEW A, NEW s \in Seq(A), NEW n \in Nat
    PROVE  SubSeq(s, n + 1, Len(s)) \in Seq(A)
<1>1. PICK N \in Nat : N = Len(s) /\ \A i \in 1 .. N : s[i] \in A
  BY ElementOfSeq
<1>2. \A i \in n + 1 .. N : s[i] \in A
  BY <1>1
<1>3. SubSeq(s, n + 1, N) \in Seq(A)
  BY <1>2, SubSeqProperties
<1> QED
  BY <1>1, <1>3

LEMMA CopyPortionFacts ==
    ASSUME NEW size \in Nat, NEW s \in Copies(size), NEW data \in Seq(0 .. 255)
    PROVE  CopyPortion(s, size, data) \in Copies(size)
<1>1. CASE s.fault \/ s.over
  BY <1>1 DEF CopyPortion
<1>2. CASE ~ (s.fault \/ s.over) /\ data = <<>>
  <2>1. CopyPortion(s, size, data) = [s EXCEPT !.fault = TRUE]
    BY <1>2 DEF CopyPortion
  <2> QED
    BY <2>1 DEF Copies
<1>3. CASE ~ (s.fault \/ s.over) /\ data # <<>>
  <2>1. PICK len \in Nat \ {0} : len = Len(data)
    BY <1>3, EmptySeq
  <2>2. PICK at \in 0 .. size, left \in Nat : at = s.position /\ left = s.left
    BY DEF Copies
  <2>3. PICK offset \in 0 .. len - 1 : offset = at % len
    <3>1. at % len \in 0 .. len - 1
      BY <2>1, <2>2
    <3> QED
      BY <3>1
  <2>4. PICK portion \in Nat : /\ portion = Min({len - offset, size - at, left})
                               /\ portion <= len - offset /\ portion <= size - at /\ portion <= left
    <3> DEFINE S == {len - offset, size - at, left}
    <3>1. S \subseteq Nat /\ S # {}
      BY <2>2, <2>3
    <3>2. Min(S) \in S /\ \A x \in S : Min(S) <= x
      BY <3>1, MinFacts
    <3> QED
      BY <3>1, <3>2
  <2>5. PICK head : head = SubSeq(data, offset + 1, offset + portion)
    OBVIOUS
  <2>6. head \in Seq(0 .. 255)
    <3>1. \A i \in offset + 1 .. offset + portion : i \in 1 .. Len(data)
      BY <2>1, <2>3, <2>4
    <3>2. \A i \in offset + 1 .. offset + portion : data[i] \in 0 .. 255
      BY <3>1, ElementOfSeq
    <3>3. offset + 1 \in Int /\ offset + portion \in Int
      BY <2>3
    <3>4. SubSeq(data, offset + 1, offset + portion) \in Seq(0 .. 255)
      BY <3>2, <3>3, SubSeqProperties
    <3> QED
      BY <2>5, <3>4
  <2>7. PICK tail \in Seq(0 .. 255) : tail = SubSeq(s.out, portion + 1, Len(s.out))
    <3>1. s.out \in Seq(0 .. 255)
      BY DEF Copies
    <3> QED
      BY <3>1, RestOfCopy
  <2>8. CopyPortion(s, size, data) = [position |-> at + portion, left |-> left - portion, out |-> head \o tail,
                                      over |-> left = portion, fault |-> FALSE]
    BY <1>3, <2>1, <2>2, <2>3, <2>4, <2>5, <2>7 DEF CopyPortion
  <2>9. at + portion \in 0 .. size /\ left - portion \in Nat
    BY <2>4
  <2>10. head \o tail \in Seq(0 .. 255)
    BY <2>6, ConcatProperties
  <2> QED
    BY <2>8, <2>9, <2>10 DEF Copies
<1> QED
  BY <1>1, <1>2, <1>3

LEMMA FirstClusterFacts ==
    ASSUME NEW v, VolumeOK(v), v.fs = "fat", NEW st \in OpenStates
    PROVE  FirstCluster(v, st) \in Nat
<1>1. PICK b \in Nat \ {0}, n \in Nat \ {0} : b = v.bytesPerSector /\ n = v.sectorsPerCluster
  BY DEF VolumeOK
<1>2. PICK at \in Nat, inode \in Nat : at = st.position /\ inode = st.inode
  BY DEF OpenStates
<1>3. PICK q \in Nat : q = at \div b
  <2>1. at \div b \in Nat
    OBVIOUS
  <2> QED
    BY <2>1
<1>4. q \div n \in Nat
  OBVIOUS
<1> QED
  BY <1>1, <1>2, <1>3, <1>4 DEF FirstCluster

(* How far read_file() is after each of N clusters, the first of them at   *)
(* the position.                                                           *)
ReadsThrough(v, st, length, clusters, copied, N) ==
    /\ clusters = Chain(v, FirstCluster(v, st)) /\ clusters \in Seq(Nat) /\ N \in Nat \ {0} /\ N = Len(clusters)
    /\ clusters[1] = FirstCluster(v, st)
    /\ FatReadFile(v, st, length) = copied[N]
    /\ copied[0] = ReadingStarts(st, length)
    /\ \A i \in 1 .. N : copied[i] = CopyPortion(copied[i - 1], st.size, BytesOf(LoadCluster(v, clusters[i])))
    /\ \A i \in 0 .. N : copied[i] \in Copies(st.size)

LEMMA FatReadingFacts ==
    ASSUME NEW v, VolumeOK(v), v.fs = "fat", Ends(v), NEW st \in OpenStates, NEW length \in Nat
    PROVE  \E clusters, copied, N : ReadsThrough(v, st, length, clusters, copied, N)
<1>1. PICK clusters \in Seq(Nat), N \in Nat : clusters = Chain(v, FirstCluster(v, st)) /\ N = Len(clusters)
  BY FirstClusterFacts, ChainFacts
<1>2. PICK size \in Nat : size = st.size
  BY DEF OpenStates
<1>3. PICK base \in Copies(size) : base = ReadingStarts(st, length)
  <2>1. st.position \in 0 .. size
    BY <1>2 DEF OpenStates
  <2>2. <<>> \in Seq(0 .. 255)
    OBVIOUS
  <2> QED
    BY <2>1, <2>2 DEF ReadingStarts, Copies
<1>4. ASSUME NEW s \in Copies(size), NEW c PROVE CopyPortion(s, size, BytesOf(LoadCluster(v, c))) \in Copies(size)
  BY LoadClusterFacts, BytesOfFacts, CopyPortionFacts
<1>5. PICK step : step = [i \in 1 .. N |-> [s \in Copies(size) |->
                              CopyPortion(s, size, BytesOf(LoadCluster(v, clusters[i])))]]
  OBVIOUS
<1>6. step \in [1 .. N -> [Copies(size) -> Copies(size)]]
  BY <1>4, <1>5
<1>7. PICK f \in [0 .. N -> Copies(size)] : Follows(f, N, base, step)
  BY <1>6, RecursionExists
<1>8. f[0] = base /\ \A i \in 1 .. N : f[i] = CopyPortion(f[i - 1], size, BytesOf(LoadCluster(v, clusters[i])))
  <2>1. ASSUME NEW i \in 1 .. N PROVE f[i] = CopyPortion(f[i - 1], size, BytesOf(LoadCluster(v, clusters[i])))
    <3>1. f[i] = step[i][f[i - 1]] /\ f[i - 1] \in Copies(size)
      BY <1>7 DEF Follows
    <3> QED
      BY <1>5, <3>1
  <2> QED
    BY <1>7, <2>1 DEF Follows
<1>9. f = [i \in 0 .. N |-> IF i = 0 THEN base
                            ELSE CopyPortion(f[i - 1], size, BytesOf(LoadCluster(v, clusters[i])))]
  BY <1>7, <1>8
<1>10. PICK g : /\ g = FatReading(v, st, length, clusters)
                /\ g = [i \in 0 .. N |-> IF i = 0 THEN base
                                         ELSE CopyPortion(g[i - 1], size, BytesOf(LoadCluster(v, clusters[i])))]
  <2>1. FatReading(v, st, length, clusters) =
            CHOOSE h : h = [i \in 0 .. N |-> IF i = 0 THEN base
                                ELSE CopyPortion(h[i - 1], size, BytesOf(LoadCluster(v, clusters[i])))]
    BY <1>1, <1>2, <1>3 DEF FatReading
  <2> QED
    BY <1>9, <2>1
<1>11. g[0] = base /\ \A i \in 1 .. N : g[i] = CopyPortion(g[i - 1], size, BytesOf(LoadCluster(v, clusters[i])))
  BY <1>10
<1>12. \A i \in 0 .. N : g[i] \in Copies(size)
  <2>1. \A i \in 1 .. N : g[i - 1] \in Copies(size) => g[i] \in Copies(size)
    BY <1>4, <1>11
  <2> QED
    BY <1>11, <2>1, StaysIn
<1>13. FatReadFile(v, st, length) = g[N]
  BY <1>1, <1>10 DEF FatReadFile
<1>14. N # 0 /\ clusters[1] = FirstCluster(v, st)
  <2>1. FirstCluster(v, st) \in Nat
    BY FirstClusterFacts
  <2>2. 1 \in DOMAIN clusters /\ clusters[1] = FirstCluster(v, st)
    BY <1>1, <2>1, ChainFacts
  <2>3. DOMAIN clusters = 1 .. N
    BY <1>1
  <2> QED
    BY <2>2, <2>3
<1>15. ReadsThrough(v, st, length, clusters, g, N)
  BY <1>1, <1>2, <1>3, <1>11, <1>12, <1>13, <1>14 DEF ReadsThrough
<1> QED
  BY <1>15

LEMMA FatReadFileFacts ==
    ASSUME NEW v, VolumeOK(v), v.fs = "fat", Ends(v), NEW st \in OpenStates, NEW length \in Nat
    PROVE  FatReadFile(v, st, length) \in Copies(st.size)
<1>1. PICK clusters, copied, N : ReadsThrough(v, st, length, clusters, copied, N)
  BY FatReadingFacts
<1> QED
  BY <1>1 DEF ReadsThrough

LEMMA IsoReadFileFacts ==
    ASSUME NEW v, NEW st \in OpenStates, NEW length \in Nat
    PROVE  /\ IsoReadFile(v, st, length).position \in 0 .. st.size
           /\ IsoReadFile(v, st, length).fault = FALSE
<1>1. PICK size \in Nat, at \in Nat : size = st.size /\ at = st.position /\ at <= size
  BY DEF OpenStates
<1>2. PICK end \in Nat : end = Min({size, at + length}) /\ end <= size
  <2>1. {size, at + length} \subseteq Nat /\ {size, at + length} # {}
    OBVIOUS
  <2> QED
    BY <2>1, MinFacts
<1>3. Max({at, end}) \in 0 .. size
  <2>1. \E m \in {at, end} : \A x \in {at, end} : m >= x
    <3>1. CASE at <= end
      BY <3>1
    <3>2. CASE at > end
      BY <3>2
    <3> QED
      BY <3>1, <3>2
  <2>2. Max({at, end}) \in {at, end}
    BY <2>1 DEF Max
  <2> QED
    BY <1>1, <1>2, <2>2
<1>4. PICK bytes : IsoReadFile(v, st, length) = [out |-> bytes, position |-> Max({at, end}), fault |-> FALSE]
  BY <1>1, <1>2 DEF IsoReadFile
<1> QED
  BY <1>1, <1>3, <1>4

LEMMA ReadToFacts ==
    ASSUME NEW v, VolumeOK(v), Ends(v), NEW st \in OpenStates, NEW length \in Nat
    PROVE  /\ ReadTo(v, st, length).position \in 0 .. st.size
           /\ ReadTo(v, st, length).fault \in BOOLEAN
<1>1. CASE v.fs = "fat"
  <2>1. FatReadFile(v, st, length) \in Copies(st.size)
    BY <1>1, FatReadFileFacts
  <2> QED
    BY <1>1, <2>1 DEF ReadTo, Copies
<1>2. CASE v.fs = "iso"
  BY <1>2, IsoReadFileFacts DEF ReadTo
<1> QED
  BY <1>1, <1>2 DEF VolumeOK

-----------------------------------------------------------------------------
(* The bytes of a portion.                                                 *)

(* Two texts that agree over a stretch of n bytes.                         *)
Agree(A, s, i, t, j, n) ==
    i \in Nat /\ j \in Nat /\ n \in Nat /\ \A x \in 1 .. n : s[i + x] = t[j + x] /\ t[j + x] \in A

LEMMA SameStretch ==
    ASSUME NEW A, NEW s, NEW i, NEW t, NEW j, NEW n, Agree(A, s, i, t, j, n)
    PROVE  SubSeq(s, i + 1, i + n) = SubSeq(t, j + 1, j + n) /\ SubSeq(t, j + 1, j + n) \in Seq(A)
<1> i \in Nat /\ j \in Nat /\ n \in Nat /\ \A x \in 1 .. n : s[i + x] = t[j + x] /\ t[j + x] \in A
  BY DEF Agree
<1>1. ASSUME NEW u, NEW a \in Nat, \A x \in 1 .. n : u[a + x] \in A
      PROVE  /\ SubSeq(u, a + 1, a + n) \in Seq(A) /\ Len(SubSeq(u, a + 1, a + n)) = n
             /\ \A x \in 1 .. n : SubSeq(u, a + 1, a + n)[x] = u[a + x]
  <2>1. PICK lo \in Int, hi \in Int : lo = a + 1 /\ hi = a + n
    OBVIOUS
  <2>2. ASSUME NEW y \in lo .. hi PROVE u[y] \in A
    <3>1. y - a \in 1 .. n /\ y = a + (y - a)
      BY <2>1
    <3> QED
      BY <1>1, <3>1
  <2>3. /\ SubSeq(u, lo, hi) \in Seq(A)
        /\ Len(SubSeq(u, lo, hi)) = IF lo <= hi THEN hi - lo + 1 ELSE 0
        /\ \A x \in 1 .. hi - lo + 1 : SubSeq(u, lo, hi)[x] = u[lo + x - 1]
    BY <2>2, SubSeqProperties
  <2>4. hi - lo + 1 = n /\ (lo <= hi <=> n # 0) /\ \A x \in 1 .. n : lo + x - 1 = a + x
    BY <2>1
  <2> QED
    BY <2>1, <2>3, <2>4
<1>2. PICK p \in Seq(A), q \in Seq(A) :
          /\ p = SubSeq(s, i + 1, i + n) /\ Len(p) = n /\ \A x \in 1 .. n : p[x] = s[i + x]
          /\ q = SubSeq(t, j + 1, j + n) /\ Len(q) = n /\ \A x \in 1 .. n : q[x] = t[j + x]
  BY <1>1
<1>3. Len(p) = Len(q) /\ \A x \in 1 .. Len(p) : p[x] = q[x]
  BY <1>2
<1> QED
  BY <1>2, <1>3, SeqEqual

(* Two stretches put together.                                             *)
InOrder(A, s, a, b, c) ==
    s \in Seq(A) /\ a \in Nat /\ b \in Nat /\ c \in Nat /\ a <= b /\ b <= c /\ c <= Len(s)
Joined(s, a, b, c) == SubSeq(s, a + 1, b) \o SubSeq(s, b + 1, c) = SubSeq(s, a + 1, c)

LEMMA Stretches ==
    ASSUME NEW A, NEW s, NEW a, NEW b, NEW c, InOrder(A, s, a, b, c)
    PROVE  Joined(s, a, b, c)
<1> s \in Seq(A) /\ a \in Nat /\ b \in Nat /\ c \in Nat /\ a <= b /\ b <= c /\ c <= Len(s)
  BY DEF InOrder
<1>0. PICK m \in Nat, n \in Nat : b = a + m /\ n = c - b /\ c = a + (m + n) /\ c = b + n
  <2>1. b - a \in Nat /\ c - b \in Nat /\ b = a + (b - a) /\ c = a + ((b - a) + (c - b)) /\ c = b + (c - b)
    OBVIOUS
  <2> QED
    BY <2>1
<1>1. ASSUME NEW d \in Nat, NEW k \in Nat, d + k <= Len(s)
      PROVE  /\ SubSeq(s, d + 1, d + k) \in Seq(A) /\ Len(SubSeq(s, d + 1, d + k)) = k
             /\ \A x \in 1 .. k : SubSeq(s, d + 1, d + k)[x] = s[d + x]
  <2>1. PICK lo \in Int, hi \in Int : lo = d + 1 /\ hi = d + k
    OBVIOUS
  <2>2. ASSUME NEW y \in lo .. hi PROVE s[y] \in A
    <3>1. y \in 1 .. Len(s)
      BY <1>1, <2>1
    <3> QED
      BY <3>1, ElementOfSeq
  <2>3. /\ SubSeq(s, lo, hi) \in Seq(A)
        /\ Len(SubSeq(s, lo, hi)) = IF lo <= hi THEN hi - lo + 1 ELSE 0
        /\ \A x \in 1 .. hi - lo + 1 : SubSeq(s, lo, hi)[x] = s[lo + x - 1]
    BY <2>2, SubSeqProperties
  <2>4. hi - lo + 1 = k /\ (lo <= hi <=> k # 0) /\ \A x \in 1 .. k : lo + x - 1 = d + x
    BY <2>1
  <2> QED
    BY <2>1, <2>3, <2>4
<1>2. b + n <= Len(s) /\ a + m <= Len(s) /\ a + (m + n) <= Len(s) /\ m + n \in Nat
  BY <1>0
<1>3. PICK p \in Seq(A) : p = SubSeq(s, a + 1, a + m) /\ Len(p) = m /\ \A x \in 1 .. m : p[x] = s[a + x]
  BY <1>1, <1>2
<1>4. PICK q \in Seq(A) : q = SubSeq(s, b + 1, b + n) /\ Len(q) = n /\ \A x \in 1 .. n : q[x] = s[b + x]
  BY <1>1, <1>2
<1>5. PICK w \in Seq(A) : /\ w = SubSeq(s, a + 1, a + (m + n)) /\ Len(w) = m + n
                          /\ \A x \in 1 .. m + n : w[x] = s[a + x]
  BY <1>1, <1>2
<1>6. PICK pq \in Seq(A) : /\ pq = p \o q /\ Len(pq) = m + n
                           /\ \A x \in 1 .. m + n : pq[x] = IF x <= m THEN p[x] ELSE q[x - m]
  <2>1. /\ p \o q \in Seq(A) /\ Len(p \o q) = Len(p) + Len(q)
        /\ \A i \in 1 .. Len(p) + Len(q) : (p \o q)[i] = IF i <= Len(p) THEN p[i] ELSE q[i - Len(p)]
    BY ConcatProperties
  <2>2. PICK joined \in Seq(A) : joined = p \o q
    BY <2>1
  <2>3. Len(p) = m /\ Len(q) = n
    BY <1>3, <1>4
  <2>4. Len(joined) = m + n /\ \A x \in 1 .. m + n : joined[x] = IF x <= m THEN p[x] ELSE q[x - m]
    BY <2>1, <2>2, <2>3, Zenon
  <2> QED
    BY <2>2, <2>4
<1>7. ASSUME NEW x \in 1 .. m + n PROVE pq[x] = w[x]
  <2>1. CASE x <= m
    <3>1. x \in 1 .. m
      BY <2>1
    <3>2. pq[x] = p[x]
      BY <1>6, <2>1
    <3> QED
      BY <1>3, <1>5, <3>1, <3>2
  <2>2. CASE ~ (x <= m)
    <3>1. x - m \in 1 .. n /\ b + (x - m) = a + x
      BY <1>0, <2>2
    <3> QED
      BY <1>4, <1>5, <1>6, <2>2, <3>1
  <2> QED
    BY <2>1, <2>2
<1>8. pq = w
  BY <1>5, <1>6, <1>7, SeqEqual
<1> QED
  BY <1>0, <1>3, <1>4, <1>5, <1>6, <1>8 DEF Joined

(* A whole cluster is read, however the volume's sectors and the drive's   *)
(* compare.                                                                *)
ClusterSize(v, c) == IF c = 0 THEN v.rootDirSectors * v.bytesPerSector ELSE ClusterBytes(v)

LEMMA ClusterLength ==
    ASSUME NEW v, VolumeOK(v), v.fs = "fat", NEW c
    PROVE  /\ BytesOf(LoadCluster(v, c)) \in Seq(0 .. 255) /\ Len(BytesOf(LoadCluster(v, c))) = ClusterSize(v, c)
           /\ ClusterBytes(v) \in Nat \ {0} /\ (c # 0 \/ v.rootDirSectors # 0 => BytesOf(LoadCluster(v, c)) # <<>>)
<1>1. PICK z \in Nat \ {0}, b \in Nat \ {0}, w \in Nat \ {0} :
          z = SectorSize /\ b = v.bytesPerSector /\ b = w * z /\ w = b \div z
  <2>1. PICK z \in Nat \ {0} : z = SectorSize
    BY SectorAssumption
  <2>2. v.bytesPerSector \in {z, 2 * z, 4 * z, 8 * z}
    BY <2>1 DEF VolumeOK, ValidSectorSizes
  <2>3. PICK w \in {1, 2, 4, 8} : v.bytesPerSector = w * z
    BY <2>2
  <2>4. w * z \in Nat \ {0} /\ (w * z) \div z = w
    <3>1. CASE w = 1
      BY <3>1
    <3>2. CASE w = 2
      BY <3>2
    <3>3. CASE w = 4
      BY <3>3
    <3>4. CASE w = 8
      BY <3>4
    <3> QED
      BY <3>1, <3>2, <3>3, <3>4
  <2> QED
    BY <2>1, <2>3, <2>4
<1>2. PICK n \in Nat : n = Extent(v, c).count /\ n = IF c = 0 THEN v.rootDirSectors ELSE v.sectorsPerCluster
  BY DEF VolumeOK, Extent
<1>3. PICK k \in Nat : k = n * w
  OBVIOUS
<1>4. LoadCluster(v, c) = ReadSectors(v.dev, Extent(v, c).lba * w, k)
  BY <1>1, <1>2, <1>3 DEF LoadCluster
<1>5. PICK sectors \in Seq(SectorContents) : sectors = LoadCluster(v, c) /\ Len(sectors) = k
  BY <1>4, ReadFacts DEF VolumeOK
<1>6. PICK bytes \in Seq(0 .. 255) : bytes = BytesOf(LoadCluster(v, c)) /\ Len(bytes) = k * z
  BY <1>1, <1>5, BytesOfFacts
<1>7. k * z = n * b
  <2>1. (n * w) * z = n * (w * z)
    OBVIOUS
  <2> QED
    BY <1>1, <1>3, <2>1
<1>8. n * b = ClusterSize(v, c)
  <2>1. CASE c = 0
    BY <1>1, <1>2, <2>1 DEF ClusterSize
  <2>2. CASE c # 0
    <3>1. n * b = b * n
      OBVIOUS
    <3> QED
      BY <1>1, <1>2, <2>2, <3>1 DEF ClusterSize, ClusterBytes
  <2> QED
    BY <2>1, <2>2
<1>9. \A x, y \in Nat \ {0} : x * y \in Nat \ {0}
  OBVIOUS
<1>10. ClusterBytes(v) \in Nat \ {0}
  BY <1>9 DEF ClusterBytes, VolumeOK
<1>11. c # 0 \/ v.rootDirSectors # 0 => Len(bytes) # 0
  <2> HAVE c # 0 \/ v.rootDirSectors # 0
  <2>1. n \in Nat \ {0}
    BY <1>2 DEF VolumeOK
  <2> QED
    BY <1>1, <1>6, <1>7, <1>9, <2>1
<1>12. Len(<<>>) = 0
  OBVIOUS
<1> QED
  BY <1>6, <1>7, <1>8, <1>10, <1>11, <1>12

-----------------------------------------------------------------------------
(* A portion of a file on a FAT volume.                                    *)

(* A copy that ran, offset bytes into a cluster of len.                    *)
Copied(s, size, data, len, offset, portion) ==
    /\ len = Len(data) /\ offset = s.position % len
    /\ portion \in {len - offset, size - s.position, s.left}
    /\ portion <= len - offset /\ portion <= size - s.position /\ portion <= s.left
    /\ CopyPortion(s, size, data) =
           [position |-> s.position + portion, left |-> s.left - portion,
            out |-> SubSeq(data, offset + 1, offset + portion) \o SubSeq(s.out, portion + 1, Len(s.out)),
            over |-> s.left = portion, fault |-> FALSE]

LEMMA CopyPortionRuns ==
    ASSUME NEW size \in Nat, NEW s \in Copies(size), NEW data \in Seq(0 .. 255), ~s.fault, ~s.over, data # <<>>
    PROVE  \E len \in Nat \ {0}, offset \in Nat, portion \in Nat : Copied(s, size, data, len, offset, portion)
<1>1. PICK len \in Nat \ {0} : len = Len(data)
  BY EmptySeq
<1>2. PICK at \in 0 .. size, left \in Nat : at = s.position /\ left = s.left
  BY DEF Copies
<1>3. PICK offset \in 0 .. len - 1 : offset = at % len
  <2>1. at % len \in 0 .. len - 1
    BY <1>1, <1>2
  <2> QED
    BY <2>1
<1>4. PICK portion \in Nat : /\ portion = Min({len - offset, size - at, left})
                             /\ portion \in {len - offset, size - at, left}
                             /\ portion <= len - offset /\ portion <= size - at /\ portion <= left
  <2> DEFINE S == {len - offset, size - at, left}
  <2>1. S \subseteq Nat /\ S # {}
    BY <1>2, <1>3
  <2>2. Min(S) \in S /\ \A x \in S : Min(S) <= x
    BY <2>1, MinFacts
  <2> QED
    BY <2>1, <2>2
<1>5. CopyPortion(s, size, data) =
          [position |-> at + portion, left |-> left - portion,
           out |-> SubSeq(data, offset + 1, offset + portion) \o SubSeq(s.out, portion + 1, Len(s.out)),
           over |-> left = portion, fault |-> FALSE]
  BY <1>1, <1>2, <1>3, <1>4 DEF CopyPortion
<1>6. Copied(s, size, data, len, offset, portion)
  BY <1>1, <1>2, <1>3, <1>4, <1>5 DEF Copied
<1> QED
  BY <1>3, <1>6

LEMMA NoFaultOnBytes ==
    ASSUME NEW size \in Nat, NEW s \in Copies(size), NEW data \in Seq(0 .. 255), ~s.fault, data # <<>>
    PROVE  ~CopyPortion(s, size, data).fault
<1>1. CASE s.over
  BY <1>1 DEF CopyPortion
<1>2. CASE ~s.over
  <2>1. PICK len, offset, portion : Copied(s, size, data, len, offset, portion)
    BY <1>2, CopyPortionRuns
  <2> QED
    BY <2>1 DEF Copied
<1> QED
  BY <1>1, <1>2 DEF Copies

(* Once the portion is delivered, the clusters after it change nothing:    *)
(* the read is over, or at the end of the file.                            *)
Delivered(size, reach, bytes) ==
    {s \in Copies(size) : s.fault \/ (s.position = reach /\ s.out = bytes /\ (s.over \/ reach = size))}

LEMMA DeliveredStays ==
    ASSUME NEW size \in Nat, NEW reach \in Nat, NEW bytes \in Seq(0 .. 255),
           NEW s \in Delivered(size, reach, bytes), NEW data \in Seq(0 .. 255)
    PROVE  CopyPortion(s, size, data) \in Delivered(size, reach, bytes)
<1>1. s \in Copies(size) /\ CopyPortion(s, size, data) \in Copies(size)
  BY CopyPortionFacts DEF Delivered
<1>2. CASE s.fault \/ s.over
  BY <1>2 DEF CopyPortion
<1>3. CASE ~ (s.fault \/ s.over) /\ data = <<>>
  <2>1. CopyPortion(s, size, data) = [s EXCEPT !.fault = TRUE]
    BY <1>3 DEF CopyPortion
  <2>2. CopyPortion(s, size, data).fault
    BY <1>1, <2>1 DEF Copies
  <2> QED
    BY <1>1, <2>2 DEF Delivered
<1>4. CASE ~ (s.fault \/ s.over) /\ data # <<>>
  <2>1. s.position = size /\ reach = size /\ s.out = bytes
    BY <1>4 DEF Delivered
  <2>2. PICK len \in Nat \ {0}, offset \in Nat, portion \in Nat : Copied(s, size, data, len, offset, portion)
    BY <1>1, <1>4, CopyPortionRuns
  <2>3. portion <= size - size
    BY <2>1, <2>2 DEF Copied
  <2>4. portion = 0
    BY <2>3
  <2>5. SubSeq(data, offset + 1, offset) = <<>>
    <3>1. offset + 1 \in Int /\ offset \in Int /\ offset < offset + 1
      OBVIOUS
    <3> QED
      BY <3>1, SubSeqEmpty
  <2>6. SubSeq(bytes, 1, Len(bytes)) = bytes /\ <<>> \o bytes = bytes
    BY SubSeqFull, ConcatEmptySeq
  <2>7. offset + 0 = offset /\ 0 + 1 = 1 /\ size + 0 = size
    OBVIOUS
  <2>8. CopyPortion(s, size, data).out = bytes /\ CopyPortion(s, size, data).position = size
    BY <2>1, <2>2, <2>4, <2>5, <2>6, <2>7 DEF Copied
  <2> QED
    BY <1>1, <2>1, <2>8 DEF Delivered
<1> QED
  BY <1>2, <1>3, <1>4

LEMMA ReadingDelivers ==
    ASSUME NEW v, VolumeOK(v), v.fs = "fat", NEW st \in OpenStates, NEW length, NEW clusters, NEW copied, NEW N,
           ReadsThrough(v, st, length, clusters, copied, N), NEW reach \in Nat, NEW bytes \in Seq(0 .. 255),
           NEW from \in 0 .. 1, copied[from] \in Delivered(st.size, reach, bytes)
    PROVE  FatReadFile(v, st, length) \in Delivered(st.size, reach, bytes)
<1>1. N \in Nat \ {0} /\ FatReadFile(v, st, length) = copied[N] /\ st.size \in Nat
  BY DEF ReadsThrough, OpenStates
<1>2. PICK S : S = {n \in 0 .. N : n >= from => copied[n] \in Delivered(st.size, reach, bytes)}
  OBVIOUS
<1>3. 0 \in S
  BY <1>1, <1>2
<1>4. ASSUME NEW n \in 0 .. N - 1, n \in S PROVE n + 1 \in S
  <2>1. n + 1 \in 1 .. N /\ (n + 1) - 1 = n
    BY <1>1
  <2>2. CASE n >= from
    <3>1. copied[n] \in Delivered(st.size, reach, bytes)
      BY <1>2, <1>4, <2>2
    <3>2. PICK data \in Seq(0 .. 255) : data = BytesOf(LoadCluster(v, clusters[n + 1]))
      BY ClusterLength
    <3>3. copied[n + 1] = CopyPortion(copied[n], st.size, data)
      BY <2>1, <3>2 DEF ReadsThrough
    <3>4. copied[n + 1] \in Delivered(st.size, reach, bytes)
      BY <1>1, <3>1, <3>3, DeliveredStays
    <3> QED
      BY <1>2, <2>1, <3>4
  <2>3. CASE ~ (n >= from)
    <3>1. n + 1 = from \/ ~ (n + 1 >= from)
      BY <2>3
    <3> QED
      BY <1>2, <2>1, <3>1
  <2> QED
    BY <2>2, <2>3
<1>5. \A n \in 0 .. N : n \in S
  BY <1>1, <1>3, <1>4, IntervalInduction
<1>6. N \in 0 .. N /\ N >= from
  BY <1>1
<1> QED
  BY <1>1, <1>2, <1>5, <1>6

(* A walk over clusters that hold something does not divide by zero.       *)
LEMMA SolidReads ==
    ASSUME NEW v, VolumeOK(v), v.fs = "fat", Ends(v), NEW st \in OpenStates, NEW length \in Nat,
           v.rootDirSectors # 0 \/ 0 \notin Range(Chain(v, FirstCluster(v, st)))
    PROVE  ~FatReadFile(v, st, length).fault
<1>1. PICK clusters, copied, N : ReadsThrough(v, st, length, clusters, copied, N)
  BY FatReadingFacts
<1>2. /\ N \in Nat \ {0} /\ DOMAIN clusters = 1 .. N /\ st.size \in Nat
      /\ \A i \in 0 .. N : copied[i] \in Copies(st.size)
  BY <1>1 DEF ReadsThrough, OpenStates
<1>3. PICK S : S = {n \in 0 .. N : ~copied[n].fault}
  OBVIOUS
<1>4. 0 \in S
  <2>1. copied[0] = ReadingStarts(st, length)
    BY <1>1 DEF ReadsThrough
  <2> QED
    BY <1>2, <1>3, <2>1 DEF ReadingStarts
<1>5. ASSUME NEW n \in 0 .. N - 1, n \in S PROVE n + 1 \in S
  <2>1. n + 1 \in 1 .. N /\ (n + 1) - 1 = n /\ n \in 0 .. N /\ n + 1 \in 0 .. N
    BY <1>2
  <2>2. v.rootDirSectors # 0 \/ clusters[n + 1] # 0
    <3>1. clusters[n + 1] \in Range(clusters)
      BY <1>2, <2>1 DEF Range
    <3> QED
      BY <1>1, <3>1 DEF ReadsThrough
  <2>3. PICK data \in Seq(0 .. 255) : data = BytesOf(LoadCluster(v, clusters[n + 1])) /\ data # <<>>
    BY <2>2, ClusterLength
  <2>4. copied[n + 1] = CopyPortion(copied[n], st.size, data)
    BY <1>1, <2>1, <2>3 DEF ReadsThrough
  <2>5. ~copied[n].fault /\ copied[n] \in Copies(st.size)
    BY <1>2, <1>3, <1>5, <2>1
  <2>6. ~copied[n + 1].fault
    BY <1>2, <2>3, <2>4, <2>5, NoFaultOnBytes
  <2> QED
    BY <1>3, <2>1, <2>6
<1>6. \A n \in 0 .. N : n \in S
  BY <1>2, <1>4, <1>5, IntervalInduction
<1> QED
  BY <1>1, <1>2, <1>3, <1>6 DEF ReadsThrough

(* Nothing is read from an empty file.                                     *)
LEMMA EmptyPortion ==
    ASSUME NEW v, VolumeOK(v), v.fs = "fat", Ends(v), NEW st \in OpenStates, NEW length \in Nat, st.size = 0
    PROVE  FatReadFile(v, st, length) \in Delivered(0, 0, <<>>)
<1>1. PICK clusters, copied, N : ReadsThrough(v, st, length, clusters, copied, N)
  BY FatReadingFacts
<1>2. copied[0] = ReadingStarts(st, length) /\ copied[0] \in Copies(0)
  BY <1>1 DEF ReadsThrough
<1>3. st.position = 0
  BY DEF OpenStates
<1>4. <<>> \in Seq(0 .. 255) /\ 0 \in Nat /\ 0 \in 0 .. 1
  OBVIOUS
<1>5. copied[0] \in Delivered(0, 0, <<>>)
  BY <1>2, <1>3 DEF Delivered, ReadingStarts
<1> QED
  BY <1>1, <1>4, <1>5, ReadingDelivers

(* A file that lies in one piece from cluster c on, byte by byte.          *)
InPlace(v, c, data) ==
    /\ c # 0
    /\ \A k \in Nat : \A i \in 1 .. ClusterBytes(v) :
           k * ClusterBytes(v) + i <= Len(data) =>
               BytesOf(LoadCluster(v, c + k))[i] = data[k * ClusterBytes(v) + i]

LEMMA Division ==
    ASSUME NEW a \in Nat, NEW z \in Nat \ {0}
    PROVE  a \div z \in Nat /\ a % z \in Nat /\ a % z < z /\ a = z * (a \div z) + (a % z)
<1>1. a \div z \in Nat
  OBVIOUS
<1>2. a % z \in 0 .. z - 1
  OBVIOUS
<1>3. a = z * (a \div z) + (a % z)
  OBVIOUS
<1> QED
  BY <1>1, <1>2, <1>3

(* Where a position is: in which cluster, and how far into it.             *)
LEMMA Located ==
    ASSUME NEW b \in Nat \ {0}, NEW n \in Nat \ {0}, NEW at \in Nat
    PROVE  /\ (at \div b) \div n = at \div (b * n) /\ b * n \in Nat \ {0}
           /\ at \div (b * n) \in Nat /\ at % (b * n) \in 0 .. b * n - 1
           /\ at = (at \div (b * n)) * (b * n) + (at % (b * n))
<1>1. PICK z \in Nat \ {0} : z = b * n
  OBVIOUS
<1>2. PICK q \in Nat, r \in 0 .. z - 1 : q = at \div z /\ r = at % z /\ at = q * z + r
  <2>1. at \div z \in Nat /\ at % z \in 0 .. z - 1 /\ at = z * (at \div z) + (at % z)
    OBVIOUS
  <2>2. z * (at \div z) = (at \div z) * z
    BY <2>1
  <2> QED
    BY <2>1, <2>2
<1>3. PICK q1 \in Nat, r1 \in 0 .. b - 1 : q1 = at \div b /\ at = b * q1 + r1
  <2>1. at \div b \in Nat /\ at % b \in 0 .. b - 1 /\ at = b * (at \div b) + (at % b)
    OBVIOUS
  <2> QED
    BY <2>1
<1>4. PICK q2 \in Nat, r2 \in 0 .. n - 1 : q2 = q1 \div n /\ q1 = n * q2 + r2
  <2>1. q1 \div n \in Nat /\ q1 % n \in 0 .. n - 1 /\ q1 = n * (q1 \div n) + (q1 % n)
    OBVIOUS
  <2> QED
    BY <2>1
<1>5. PICK s \in Nat : s = b * r2 + r1 /\ s < z
  <2>1. b * r2 <= b * (n - 1)
    BY <1>4
  <2>2. b * (n - 1) = z - b
    BY <1>1
  <2>3. b * r2 \in Nat
    BY <1>4
  <2> QED
    BY <1>3, <2>1, <2>2, <2>3
<1>6. at = q2 * z + s
  <2>1. b * (n * q2 + r2) = b * (n * q2) + b * r2
    BY <1>4
  <2>2. b * (n * q2) = q2 * z
    BY <1>1
  <2>3. b * q1 = q2 * z + b * r2
    BY <1>4, <2>1, <2>2
  <2> QED
    BY <1>3, <1>5, <2>3
<1>7. q2 = q
  <2>1. ASSUME NEW x \in Nat, NEW y \in Nat, x < y PROVE x * z + z <= y * z
    <3>1. x + 1 <= y
      BY <2>1
    <3>2. (x + 1) * z <= y * z
      BY <3>1
    <3>3. (x + 1) * z = x * z + z
      OBVIOUS
    <3> QED
      BY <3>2, <3>3
  <2>2. q * z \in Nat /\ q2 * z \in Nat
    OBVIOUS
  <2>3. q < q2 => FALSE
    BY <1>2, <1>5, <1>6, <2>1, <2>2
  <2>4. q2 < q => FALSE
    BY <1>2, <1>5, <1>6, <2>1, <2>2
  <2> QED
    BY <2>3, <2>4
<1> QED
  BY <1>1, <1>2, <1>3, <1>4, <1>7

LEMMA FatPortion ==
    ASSUME NEW v, VolumeOK(v), v.fs = "fat", Ends(v), NEW st \in OpenStates, NEW length \in Nat,
           NEW data \in Seq(0 .. 255), st.size = Len(data), st.position < st.size, InPlace(v, st.inode, data),
           NEW reach, reach = Min({st.position + length, Len(data)}),
           reach > st.position => st.position \div ClusterBytes(v) = (reach - 1) \div ClusterBytes(v)
    PROVE  FatReadFile(v, st, length) \in Delivered(st.size, reach, SubSeq(data, st.position + 1, reach))
<1>1. PICK at \in Nat, size \in Nat, inode \in Nat :
          at = st.position /\ size = st.size /\ inode = st.inode /\ at < size /\ size = Len(data)
  BY DEF OpenStates
<1>2. reach \in Nat /\ at <= reach /\ reach <= size /\ reach <= at + length /\ reach \in {at + length, size}
  <2>1. {at + length, size} \subseteq Nat /\ {at + length, size} # {}
    OBVIOUS
  <2>2. Min({at + length, size}) \in {at + length, size} /\ \A x \in {at + length, size} : Min({at + length, size}) <= x
    BY <2>1, MinFacts
  <2> QED
    BY <1>1, <2>2
<1>0. PICK z \in Nat \ {0} : z = ClusterBytes(v)
  BY ClusterLength
<1>3. PICK k \in Nat, r \in 0 .. z - 1 :
          /\ z = ClusterBytes(v) /\ FirstCluster(v, st) = inode + k
          /\ k = at \div z /\ r = at % z /\ at = k * z + r
  <2>1. PICK b \in Nat \ {0}, n \in Nat \ {0} : b = v.bytesPerSector /\ n = v.sectorsPerCluster
    BY DEF VolumeOK
  <2>2. ClusterBytes(v) = b * n
    BY <2>1 DEF ClusterBytes
  <2>3. FirstCluster(v, st) = inode + (at \div b) \div n
    BY <1>1, <2>1 DEF FirstCluster
  <2>4. /\ (at \div b) \div n = at \div (b * n) /\ b * n \in Nat \ {0}
        /\ at \div (b * n) \in Nat /\ at % (b * n) \in 0 .. b * n - 1
        /\ at = (at \div (b * n)) * (b * n) + (at % (b * n))
    BY Located
  <2>5. z = b * n
    BY <1>0, <2>2
  <2>6. /\ (at \div b) \div n = at \div z /\ at \div z \in Nat /\ at % z \in 0 .. z - 1
        /\ at = (at \div z) * z + (at % z)
    BY <2>4, <2>5, Zenon
  <2> QED
    BY <1>0, <2>3, <2>6
<1>4. reach - at <= z - r
  <2>1. CASE reach = at
    BY <1>3, <2>1
  <2>2. CASE reach # at
    <3>1. PICK last \in Nat : last = reach - 1 /\ reach > at
      BY <1>2, <2>2
    <3>2. last \div z = k
      BY <1>1, <1>3, <3>1
    <3>3. last = z * (last \div z) + (last % z) /\ last % z \in 0 .. z - 1
      OBVIOUS
    <3>4. PICK e \in 0 .. z - 1 : last = z * k + e
      BY <3>2, <3>3
    <3>5. PICK p \in Nat : p = z * k /\ p = k * z
      OBVIOUS
    <3>6. last = p + e /\ at = p + r
      BY <1>3, <3>4, <3>5
    <3>7. reach = (p + e) + 1 /\ e + 1 <= z
      BY <1>2, <3>1, <3>6
    <3> QED
      BY <3>6, <3>7
  <2> QED
    BY <2>1, <2>2
<1>5. PICK clusters, copied, N : ReadsThrough(v, st, length, clusters, copied, N)
  BY FatReadingFacts
<1>6. PICK s : s = copied[0] /\ s = ReadingStarts(st, length) /\ s \in Copies(size)
  <2>1. N \in Nat \ {0}
    BY <1>5 DEF ReadsThrough
  <2>2. 0 \in 0 .. N
    BY <2>1
  <2> QED
    BY <1>1, <1>5, <2>2 DEF ReadsThrough
<1>7. s.position = at /\ s.left = length /\ s.out = <<>> /\ ~s.fault /\ ~s.over
  BY <1>1, <1>6 DEF ReadingStarts
<1>8. PICK cluster \in Seq(0 .. 255) : /\ cluster = BytesOf(LoadCluster(v, inode + k))
                                       /\ Len(cluster) = z /\ cluster # <<>>
  <2>1. inode + k # 0
    BY <1>1 DEF InPlace
  <2> QED
    BY <1>3, <2>1, ClusterLength DEF ClusterSize
<1>9. copied[1] = CopyPortion(s, size, cluster)
  <2>1. 1 \in 1 .. N /\ 1 - 1 = 0
    BY <1>5 DEF ReadsThrough
  <2>2. copied[1] = CopyPortion(copied[1 - 1], st.size, BytesOf(LoadCluster(v, clusters[1])))
    BY <1>5, <2>1 DEF ReadsThrough
  <2>3. clusters[1] = inode + k
    BY <1>3, <1>5 DEF ReadsThrough
  <2> QED
    BY <1>1, <1>6, <1>8, <2>1, <2>2, <2>3
<1>10. PICK len \in Nat \ {0}, offset \in Nat, portion \in Nat : Copied(s, size, cluster, len, offset, portion)
  BY <1>6, <1>7, <1>8, CopyPortionRuns
<1>11. /\ len = z /\ offset = r /\ portion \in {z - r, size - at, length}
       /\ portion <= z - r /\ portion <= size - at /\ portion <= length
  BY <1>3, <1>7, <1>8, <1>10 DEF Copied
<1>12. at + portion = reach
  <2>1. reach - at = length \/ reach - at = size - at
    BY <1>2
  <2>2. reach - at <= z - r /\ reach - at <= size - at /\ reach - at <= length
    BY <1>2, <1>4
  <2>3. portion = z - r \/ portion = size - at \/ portion = length
    BY <1>11
  <2>4. portion <= z - r /\ portion <= size - at /\ portion <= length
    BY <1>11
  <2>5. PICK d \in Int, w \in Int, y \in Int : d = reach - at /\ w = z - r /\ y = size - at
    BY <1>2
  <2>6. portion = d
    BY <2>1, <2>2, <2>3, <2>4, <2>5
  <2> QED
    BY <1>2, <2>5, <2>6
<1>13. /\ SubSeq(cluster, r + 1, r + portion) = SubSeq(data, at + 1, at + portion)
       /\ SubSeq(data, at + 1, at + portion) \in Seq(0 .. 255)
  <2>1. ASSUME NEW x \in 1 .. portion PROVE cluster[r + x] = data[at + x] /\ data[at + x] \in 0 .. 255
    <3>0. portion <= z - r /\ portion <= size - at
      BY <1>11
    <3>1. r + x \in 1 .. z /\ at + x <= size /\ at + x \in 1 .. Len(data)
      BY <1>1, <3>0
    <3>2. k * z + (r + x) = at + x
      <4>1. PICK p \in Nat : p = k * z
        OBVIOUS
      <4>2. at = p + r
        BY <1>3, <4>1
      <4> QED
        BY <4>1, <4>2
    <3>3. cluster[r + x] = data[k * z + (r + x)]
      BY <1>1, <1>3, <1>8, <3>1, <3>2 DEF InPlace
    <3>4. data[at + x] \in 0 .. 255
      BY <3>1, ElementOfSeq
    <3> QED
      BY <3>2, <3>3, <3>4
  <2>2. r \in Nat
    OBVIOUS
  <2>3. /\ SubSeq(cluster, r + 1, r + portion) = SubSeq(data, at + 1, at + portion)
        /\ SubSeq(data, at + 1, at + portion) \in Seq(0 .. 255)
    <3>1. Agree(0 .. 255, cluster, r, data, at, portion)
      BY <2>1, <2>2 DEF Agree
    <3> QED
      BY <3>1, SameStretch
  <2> QED
    BY <2>3
<1>14. PICK bytes \in Seq(0 .. 255) : /\ bytes = SubSeq(data, at + 1, reach)
                                      /\ bytes = SubSeq(cluster, r + 1, r + portion)
  BY <1>12, <1>13
<1>15. SubSeq(<<>>, portion + 1, Len(<<>>)) = <<>>
  <2>1. portion + 1 \in Int /\ Len(<<>>) \in Int /\ Len(<<>>) < portion + 1
    OBVIOUS
  <2> QED
    BY <2>1, SubSeqEmpty
<1>16. bytes \o <<>> = bytes
  BY ConcatEmptySeq
<1>17. PICK c : c = copied[1] /\ c.position = reach /\ c.out = bytes /\ (c.over <=> length = portion)
  <2>1. CopyPortion(s, size, cluster) =
           [position |-> at + portion, left |-> length - portion,
            out |-> SubSeq(cluster, r + 1, r + portion) \o SubSeq(<<>>, portion + 1, Len(<<>>)),
            over |-> length = portion, fault |-> FALSE]
    BY <1>7, <1>10, <1>11 DEF Copied
  <2>2. SubSeq(cluster, r + 1, r + portion) \o SubSeq(<<>>, portion + 1, Len(<<>>)) = bytes
    BY <1>14, <1>15, <1>16
  <2>3. CopyPortion(s, size, cluster) =
           [position |-> reach, left |-> length - portion, out |-> bytes, over |-> length = portion, fault |-> FALSE]
    BY <1>12, <2>1, <2>2
  <2>4. \A p, q, o, w : [position |-> p, left |-> q, out |-> o, over |-> w, fault |-> FALSE].position = p
                        /\ [position |-> p, left |-> q, out |-> o, over |-> w, fault |-> FALSE].out = o
                        /\ [position |-> p, left |-> q, out |-> o, over |-> w, fault |-> FALSE].over = w
    OBVIOUS
  <2>5. copied[1].position = reach /\ copied[1].out = bytes /\ copied[1].over = (length = portion)
    BY <1>9, <2>3, <2>4
  <2> QED
    BY <2>5, Zenon
<1>18. c.over \/ reach = size
  BY <1>1, <1>2, <1>12, <1>17
<1>19. c \in Copies(size)
  <2>1. 1 \in 0 .. N
    BY <1>5 DEF ReadsThrough
  <2> QED
    BY <1>1, <1>5, <1>17, <2>1 DEF ReadsThrough
<1>20. copied[1] \in Delivered(st.size, reach, bytes)
  BY <1>1, <1>17, <1>18, <1>19 DEF Delivered
<1>21. 1 \in 0 .. 1
  OBVIOUS
<1>22. FatReadFile(v, st, length) \in Delivered(st.size, reach, bytes)
  BY <1>2, <1>5, <1>20, <1>21, ReadingDelivers
<1> QED
  BY <1>1, <1>14, <1>22

-----------------------------------------------------------------------------
(* A portion of a file on an ISO 9660 volume.                              *)

LEMMA BlockBytes ==
    ASSUME NEW dev, DeviceOK(dev), NEW lba
    PROVE  /\ BytesOf(IsoBlock(dev, lba)) \in Seq(0 .. 255) /\ Len(BytesOf(IsoBlock(dev, lba))) = BlockSize
           /\ BlockSize \in Nat \ {0}
<1>1. CdSectors \in Nat \ {0} /\ SectorSize \in Nat \ {0}
  BY IsoAssumption, SectorAssumption
<1>2. PICK block \in Seq(SectorContents) : block = IsoBlock(dev, lba) /\ Len(block) = CdSectors
  BY <1>1, ReadFacts DEF IsoBlock
<1>3. BytesOf(block) \in Seq(0 .. 255) /\ Len(BytesOf(block)) = Len(block) * SectorSize
  BY BytesOfFacts
<1>4. \A x, y \in Nat \ {0} : x * y \in Nat \ {0}
  OBVIOUS
<1>5. CdSectors * SectorSize \in Nat \ {0}
  BY <1>1, <1>4
<1> QED
  BY <1>2, <1>3, <1>5 DEF BlockSize

(* What one turn of the loop takes at position p of a file that starts in  *)
(* block lba, and is read up to reach.                                     *)
Taken(reach, p) == Min({reach - p, BlockSize - (p % BlockSize)})
Chunk(dev, lba, reach, p) ==
    SubSeq(BytesOf(IsoBlock(dev, lba + p \div BlockSize)), (p % BlockSize) + 1, (p % BlockSize) + Taken(reach, p))

LEMMA TakenFacts ==
    ASSUME NEW dev, DeviceOK(dev), NEW lba, NEW reach \in Nat, NEW p \in Nat, p < reach
    PROVE  /\ Taken(reach, p) \in Nat \ {0} /\ p + Taken(reach, p) <= reach
           /\ Taken(reach, p) <= BlockSize - (p % BlockSize)
           /\ Chunk(dev, lba, reach, p) \in Seq(0 .. 255)
<1>1. PICK z \in Nat \ {0} : z = BlockSize
  BY BlockBytes
<1>2. PICK r \in 0 .. z - 1 : r = p % z
  <2>1. p % z \in 0 .. z - 1
    OBVIOUS
  <2> QED
    BY <2>1
<1>3. PICK t \in Nat \ {0} : t = Min({reach - p, z - r}) /\ t <= reach - p /\ t <= z - r
  <2> DEFINE S == {reach - p, z - r}
  <2>1. S \subseteq Nat /\ S # {} /\ \A x \in S : x # 0
    OBVIOUS
  <2>2. Min(S) \in S /\ \A x \in S : Min(S) <= x
    BY <2>1, MinFacts
  <2> QED
    BY <2>1, <2>2
<1>4. t = Taken(reach, p)
  BY <1>1, <1>2, <1>3 DEF Taken
<1>5. PICK bytes \in Seq(0 .. 255) : bytes = BytesOf(IsoBlock(dev, lba + p \div BlockSize)) /\ Len(bytes) = z
  BY <1>1, BlockBytes
<1>6. ASSUME NEW x \in 1 .. t PROVE bytes[r + x] \in 0 .. 255
  <2>1. r + x \in 1 .. Len(bytes)
    BY <1>3, <1>5
  <2> QED
    BY <2>1, ElementOfSeq
<1>7. SubSeq(bytes, r + 1, r + t) \in Seq(0 .. 255)
  <2>1. Agree(0 .. 255, bytes, r, bytes, r, t)
    BY <1>6 DEF Agree
  <2> QED
    BY <2>1, SameStretch
<1>8. Chunk(dev, lba, reach, p) = SubSeq(bytes, r + 1, r + t)
  BY <1>1, <1>2, <1>4, <1>5 DEF Chunk
<1>9. p + t <= reach
  BY <1>3
<1>10. Chunk(dev, lba, reach, p) \in Seq(0 .. 255)
  BY <1>7, <1>8, Zenon
<1> QED
  BY <1>1, <1>2, <1>3, <1>4, <1>9, <1>10, Zenon

(* The loop of read_file() comes to an end.                                *)
IsoAsked(v, st, length, reach) ==
    DeviceOK(v.dev) /\ st \in OpenStates /\ reach \in Nat /\ reach = Min({st.size, st.position + length})
IsoReadsThrough(v, st, length, reach, copied) ==
    /\ IsoReadFile(v, st, length).out = copied[st.position]
    /\ IsoReadFile(v, st, length).position = Max({st.position, reach})
    /\ \A p \in Nat : copied[p] = IF p >= reach THEN <<>>
                        ELSE Chunk(v.dev, st.inode, reach, p) \o copied[p + Taken(reach, p)]

LEMMA IsoReads ==
    ASSUME NEW v, NEW st, NEW length, NEW reach, IsoAsked(v, st, length, reach)
    PROVE  \E copied : IsoReadsThrough(v, st, length, reach, copied)
<1> DeviceOK(v.dev) /\ st \in OpenStates /\ reach \in Nat /\ reach = Min({st.size, st.position + length})
  BY DEF IsoAsked
<1>1. PICK more, first, nxt :
          /\ more = {p \in Nat : p < reach}
          /\ first = [p \in Nat |-> IF p < reach THEN Chunk(v.dev, st.inode, reach, p) ELSE <<>>]
          /\ nxt = [p \in Nat |-> IF p < reach THEN p + Taken(reach, p) ELSE p]
  OBVIOUS
<1>2. PICK far : far = [p \in Nat |-> IF p < reach THEN reach - p ELSE 0]
  OBVIOUS
<1>3. LinksDown(0 .. 255, more, first, nxt)
  <2>1. more \subseteq Nat
    BY <1>1
  <2>2. ASSUME NEW p \in Nat, p < reach
        PROVE  /\ Chunk(v.dev, st.inode, reach, p) \in Seq(0 .. 255)
               /\ p + Taken(reach, p) \in Nat /\ p < p + Taken(reach, p) /\ p + Taken(reach, p) <= reach
    <3>1. /\ Taken(reach, p) \in Nat \ {0} /\ p + Taken(reach, p) <= reach
          /\ Chunk(v.dev, st.inode, reach, p) \in Seq(0 .. 255)
      BY <2>2, TakenFacts
    <3> QED
      BY <3>1
  <2>3. first \in [Nat -> Seq(0 .. 255)]
    <3>1. <<>> \in Seq(0 .. 255)
      OBVIOUS
    <3> QED
      BY <1>1, <2>2, <3>1
  <2>4. nxt \in [Nat -> Nat]
    BY <1>1, <2>2
  <2>5. far \in [Nat -> 0 .. reach]
    BY <1>2
  <2>6. ASSUME NEW p \in more PROVE far[nxt[p]] < far[p]
    <3>1. p \in Nat /\ p < reach
      BY <1>1
    <3>2. PICK q \in Nat : q = nxt[p] /\ p < q /\ q <= reach
      BY <1>1, <2>2, <3>1
    <3>3. far[q] = (IF q < reach THEN reach - q ELSE 0) /\ far[p] = reach - p
      BY <1>2, <3>1
    <3> QED
      BY <3>1, <3>2, <3>3
  <2> QED
    BY <2>1, <2>3, <2>4, <2>5, <2>6 DEF LinksDown
<1>4. PICK f : Descends(f, more, first, nxt)
  BY <1>3, DescentExists
<1>5. ASSUME NEW f1
      PROVE  Descends(f1, more, first, nxt) <=>
                 f1 = [p \in Nat |-> IF p >= reach THEN <<>>
                                     ELSE Chunk(v.dev, st.inode, reach, p) \o f1[p + Taken(reach, p)]]
  <2>1. ASSUME NEW p \in Nat
        PROVE  (IF p \in more THEN first[p] \o f1[nxt[p]] ELSE first[p])
               = IF p >= reach THEN <<>> ELSE Chunk(v.dev, st.inode, reach, p) \o f1[p + Taken(reach, p)]
    <3>1. CASE p < reach
      <4>1. p \in more /\ ~ (p >= reach)
        BY <1>1, <3>1
      <4>2. first[p] = Chunk(v.dev, st.inode, reach, p) /\ nxt[p] = p + Taken(reach, p)
        BY <1>1, <3>1
      <4> QED
        BY <4>1, <4>2, Zenon
    <3>2. CASE ~ (p < reach)
      <4>1. p \notin more /\ p >= reach
        BY <1>1, <3>2
      <4>2. first[p] = <<>>
        BY <1>1, <3>2
      <4> QED
        BY <4>1, <4>2, Zenon
    <3> QED
      BY <3>1, <3>2
  <2>2. [p \in Nat |-> IF p \in more THEN first[p] \o f1[nxt[p]] ELSE first[p]]
        = [p \in Nat |-> IF p >= reach THEN <<>> ELSE Chunk(v.dev, st.inode, reach, p) \o f1[p + Taken(reach, p)]]
    BY <2>1, Zenon
  <2> QED
    BY <2>2, Zenon DEF Descends
<1>6. PICK g : g = CHOOSE f1 : f1 = [p \in Nat |-> IF p >= reach THEN <<>>
                                     ELSE Chunk(v.dev, st.inode, reach, p) \o f1[p + Taken(reach, p)]]
  OBVIOUS
<1>7. g = [p \in Nat |-> IF p >= reach THEN <<>>
                         ELSE Chunk(v.dev, st.inode, reach, p) \o g[p + Taken(reach, p)]]
  BY <1>4, <1>5, <1>6, Zenon
<1>8. IsoReadFile(v, st, length) = [out |-> g[st.position], position |-> Max({st.position, reach}), fault |-> FALSE]
  BY <1>6, Zenon DEF IsoReadFile, Chunk, Taken
<1>9. \A p \in Nat : g[p] = IF p >= reach THEN <<>>
                            ELSE Chunk(v.dev, st.inode, reach, p) \o g[p + Taken(reach, p)]
  BY <1>7
<1>10. PICK r, o, q : r = IsoReadFile(v, st, length) /\ o = g[st.position] /\ q = Max({st.position, reach})
                     /\ r = [out |-> o, position |-> q, fault |-> FALSE]
  BY <1>8, Zenon
<1>11. r.out = o /\ r.position = q
  BY <1>10
<1>12. IsoReadFile(v, st, length).out = g[st.position] /\ IsoReadFile(v, st, length).position = Max({st.position, reach})
  BY <1>10, <1>11, Zenon
<1>13. IsoReadsThrough(v, st, length, reach, g)
  BY <1>9, <1>12, Zenon DEF IsoReadsThrough
<1> QED
  BY <1>13

(* A file that lies in block lba and those after it, byte by byte.         *)
IsoInPlace(dev, lba, data) ==
    \A k \in Nat : \A i \in 1 .. BlockSize :
        k * BlockSize + i <= Len(data) => BytesOf(IsoBlock(dev, lba + k))[i] = data[k * BlockSize + i]

IsoFile(dev, lba, data, reach) ==
    DeviceOK(dev) /\ data \in Seq(0 .. 255) /\ IsoInPlace(dev, lba, data) /\ reach \in Nat /\ reach <= Len(data)
ChunkRight(dev, lba, data, reach, p) ==
    p < reach => Chunk(dev, lba, reach, p) = SubSeq(data, p + 1, p + Taken(reach, p))

LEMMA ChunkIsRight ==
    ASSUME NEW dev, NEW lba, NEW data, NEW reach, IsoFile(dev, lba, data, reach), NEW p \in Nat
    PROVE  ChunkRight(dev, lba, data, reach, p)
<1> SUFFICES ASSUME p < reach PROVE Chunk(dev, lba, reach, p) = SubSeq(data, p + 1, p + Taken(reach, p))
  BY DEF ChunkRight
<1> DeviceOK(dev) /\ data \in Seq(0 .. 255) /\ IsoInPlace(dev, lba, data) /\ reach \in Nat /\ reach <= Len(data)
  BY DEF IsoFile
<1>1. PICK z \in Nat \ {0}, size \in Nat : z = BlockSize /\ size = Len(data)
  BY BlockBytes
<1>2. PICK k \in Nat, r \in 0 .. z - 1 : k = p \div z /\ r = p % z /\ p = z * k + r
  <2>1. p \div z \in Nat /\ p % z \in 0 .. z - 1 /\ p = z * (p \div z) + (p % z)
    OBVIOUS
  <2> QED
    BY <2>1
<1>3. PICK t \in Nat : t = Taken(reach, p) /\ p + t <= reach /\ t <= z - r
  <2>1. Taken(reach, p) \in Nat \ {0} /\ p + Taken(reach, p) <= reach /\ Taken(reach, p) <= BlockSize - (p % BlockSize)
    BY TakenFacts
  <2> QED
    BY <1>1, <1>2, <2>1
<1>4. PICK bytes : bytes = BytesOf(IsoBlock(dev, lba + k))
  OBVIOUS
<1>5. ASSUME NEW x \in 1 .. t PROVE bytes[r + x] = data[p + x] /\ data[p + x] \in 0 .. 255
  <2>1. r + x \in 1 .. z /\ p + x <= size /\ p + x \in 1 .. Len(data)
    BY <1>1, <1>3
  <2>2. k * z + (r + x) = p + x
    <3>1. PICK m \in Nat : m = k * z /\ m = z * k
      OBVIOUS
    <3>2. p = m + r
      BY <1>2, <3>1
    <3> QED
      BY <3>1, <3>2
  <2>3. bytes[r + x] = data[k * z + (r + x)]
    BY <1>1, <1>4, <2>1, <2>2 DEF IsoInPlace
  <2>4. data[p + x] \in 0 .. 255
    BY <2>1, ElementOfSeq
  <2> QED
    BY <2>2, <2>3, <2>4
<1>6. SubSeq(bytes, r + 1, r + t) = SubSeq(data, p + 1, p + t) /\ SubSeq(data, p + 1, p + t) \in Seq(0 .. 255)
  <2>1. r \in Nat
    OBVIOUS
  <2>2. Agree(0 .. 255, bytes, r, data, p, t)
    BY <1>5, <2>1 DEF Agree
  <2> QED
    BY <2>2, SameStretch
<1>7. Chunk(dev, lba, reach, p) = SubSeq(bytes, r + 1, r + t)
  BY <1>1, <1>2, <1>3, <1>4 DEF Chunk
<1> QED
  BY <1>3, <1>6, <1>7, Zenon

LEMMA IsoPortion ==
    ASSUME NEW v, DeviceOK(v.dev), NEW st \in OpenStates, NEW length \in Nat,
           NEW data \in Seq(0 .. 255), st.size = Len(data), IsoInPlace(v.dev, st.inode, data),
           NEW reach, reach = Min({st.position + length, Len(data)})
    PROVE  /\ IsoReadFile(v, st, length).out = SubSeq(data, st.position + 1, reach)
           /\ IsoReadFile(v, st, length).position = reach
<1>1. PICK at \in Nat, size \in Nat : at = st.position /\ size = st.size /\ at <= size /\ size = Len(data)
  BY DEF OpenStates
<1>2. reach \in Nat /\ at <= reach /\ reach <= size
  <2>1. {at + length, size} \subseteq Nat /\ {at + length, size} # {}
    OBVIOUS
  <2>2. Min({at + length, size}) \in {at + length, size} /\ \A x \in {at + length, size} : Min({at + length, size}) <= x
    BY <2>1, MinFacts
  <2> QED
    BY <1>1, <2>2
<1>3. reach = Min({st.size, st.position + length})
  <2>1. {st.size, st.position + length} = {st.position + length, Len(data)}
    BY <1>1
  <2> QED
    BY <2>1
<1>4. PICK copied : IsoReadsThrough(v, st, length, reach, copied)
  <2>1. IsoAsked(v, st, length, reach)
    BY <1>2, <1>3 DEF IsoAsked
  <2> QED
    BY <2>1, IsoReads
<1>11. \A p \in Nat : copied[p] = IF p >= reach THEN <<>>
                        ELSE Chunk(v.dev, st.inode, reach, p) \o copied[p + Taken(reach, p)]
  BY <1>4 DEF IsoReadsThrough
<1>5. Max({at, reach}) = reach
  <2>1. \E m \in {at, reach} : \A x \in {at, reach} : m >= x
    BY <1>2
  <2>2. Max({at, reach}) \in {at, reach} /\ \A x \in {at, reach} : Max({at, reach}) >= x
    BY <2>1 DEF Max
  <2> QED
    BY <1>2, <2>2
<1>6. PICK S : S = {n \in 0 .. reach : \A p \in 0 .. reach : reach - p <= n => copied[p] = SubSeq(data, p + 1, reach)}
  OBVIOUS
<1>7. 0 \in S
  <2>1. ASSUME NEW p \in 0 .. reach, reach - p <= 0 PROVE copied[p] = SubSeq(data, p + 1, reach)
    <3>1. p = reach /\ p \in Nat /\ p >= reach
      BY <1>2, <2>1
    <3>2. copied[p] = <<>>
      BY <1>11, <3>1
    <3>3. p + 1 \in Int /\ reach \in Int /\ reach < p + 1
      BY <1>2, <3>1
    <3>4. SubSeq(data, p + 1, reach) = <<>>
      BY <3>3, SubSeqEmpty
    <3> QED
      BY <3>2, <3>4
  <2>2. 0 \in 0 .. reach
    BY <1>2
  <2> QED
    BY <1>6, <2>1, <2>2
<1>8. ASSUME NEW n \in 0 .. reach - 1, n \in S PROVE n + 1 \in S
  <2>1. ASSUME NEW p \in 0 .. reach, reach - p <= n + 1 PROVE copied[p] = SubSeq(data, p + 1, reach)
    <3>1. CASE reach - p <= n
      BY <1>6, <1>8, <3>1
    <3>2. CASE ~ (reach - p <= n)
      <4>1. p \in Nat /\ p < reach /\ ~ (p >= reach)
        BY <1>2, <3>2
      <4>2. PICK t \in Nat \ {0} : t = Taken(reach, p) /\ p + t <= reach
        BY <1>2, <4>1, TakenFacts
      <4>3. Chunk(v.dev, st.inode, reach, p) = SubSeq(data, p + 1, p + t)
        <5>1. IsoFile(v.dev, st.inode, data, reach)
          BY <1>1, <1>2 DEF IsoFile
        <5>2. ChunkRight(v.dev, st.inode, data, reach, p)
          BY <4>1, <5>1, ChunkIsRight
        <5> QED
          BY <4>1, <4>2, <5>2 DEF ChunkRight
      <4>4. PICK q \in Nat : q = p + t /\ q <= reach /\ p <= q /\ reach - q <= n
        <5>1. p + t \in Nat /\ p <= p + t /\ p + 1 <= p + t
          BY <4>1, <4>2
        <5>2. n \in Nat /\ reach \in Nat /\ reach <= p + (n + 1)
          BY <1>2, <2>1, <4>1
        <5>3. reach <= (p + t) + n
          BY <4>1, <4>2, <5>2
        <5> QED
          BY <1>2, <4>2, <5>1, <5>2, <5>3
      <4>5. copied[q] = SubSeq(data, q + 1, reach)
        <5>1. q \in 0 .. reach
          BY <4>4
        <5> QED
          BY <1>6, <1>8, <4>4, <5>1
      <4>6. SubSeq(data, p + 1, q) \o SubSeq(data, q + 1, reach) = SubSeq(data, p + 1, reach)
        <5>1. InOrder(0 .. 255, data, p, q, reach)
          BY <1>1, <1>2, <4>1, <4>4 DEF InOrder
        <5>2. Joined(data, p, q, reach)
          BY <5>1, Stretches
        <5> QED
          BY <5>2 DEF Joined
      <4>7. copied[p] = Chunk(v.dev, st.inode, reach, p) \o copied[q]
        BY <1>11, <4>1, <4>2, <4>4
      <4> QED
        BY <4>3, <4>4, <4>5, <4>6, <4>7, Zenon
    <3> QED
      BY <3>1, <3>2
  <2>2. n + 1 \in 0 .. reach
    BY <1>2
  <2> QED
    BY <1>6, <2>1, <2>2
<1>9. \A n \in 0 .. reach : n \in S
  BY <1>2, <1>7, <1>8, IntervalInduction
<1>10. copied[at] = SubSeq(data, at + 1, reach)
  <2>1. reach \in 0 .. reach /\ at \in 0 .. reach /\ reach - at <= reach
    BY <1>1, <1>2
  <2> QED
    BY <1>6, <1>9, <2>1
<1> QED
  BY <1>1, <1>4, <1>5, <1>10 DEF IsoReadsThrough

-----------------------------------------------------------------------------
(* Mounting.                                                               *)

(* What is probed: the drives and their partitions.                        *)
DeviceAt(d, start) == [disk |-> d, sectors |-> Disks[d], offset |-> start]
Starts(d) ==
    LET entries == PartitionsOf(WholeDrive(d))
    IN {0} \cup {entries[i].start_lba : i \in DOMAIN entries}
Devices == UNION {{DeviceAt(d, start) : start \in Starts(d)} : d \in DOMAIN Disks}

(* The volumes there are, and that they do not lead the driver in circles. *)
FoundVolumes == {OnInit(ProbeDevice(dev)) : dev \in {x \in Devices : ProbeDevice(x) \notin {NoVolume, Stuck}}}
ChainsEnd == \A v \in FoundVolumes : Ends(v)

LEMMA DriveFacts ==
    ASSUME NEW d \in DOMAIN Disks, NEW start
    PROVE  WholeDrive(d) = DeviceAt(d, 0) /\ (start \in Nat => PartitionOf(WholeDrive(d), start) = DeviceAt(d, start))
BY DEF WholeDrive, DeviceAt, PartitionOf

LEMMA DeviceAtFacts == ASSUME NEW d \in DOMAIN Disks, NEW start \in Nat PROVE DeviceOK(DeviceAt(d, start))
BY DisksAssumption DEF DeviceAt, DeviceOK

LEMMA PartitionsFacts ==
    ASSUME NEW d \in DOMAIN Disks
    PROVE  PartitionsOf(WholeDrive(d)) \in Seq(PartitionEntries)
<1>1. PICK sector \in SectorContents : sector = ReadSectors(WholeDrive(d), 0, 1)[1]
  BY DriveFacts, DeviceAtFacts, ReadFacts
<1> QED
  BY <1>1, SectorKinds DEF PartitionsOf

LEMMA PartitionStarts ==
    ASSUME NEW d \in DOMAIN Disks
    PROVE  Starts(d) \subseteq Nat /\ DeviceAt(d, 0) \in Devices /\
           \A i \in 1 .. Len(PartitionsOf(WholeDrive(d))) :
               PartitionOf(WholeDrive(d), PartitionsOf(WholeDrive(d))[i].start_lba) \in Devices
<1>1. PICK entries \in Seq(PartitionEntries), N \in Nat :
          /\ entries = PartitionsOf(WholeDrive(d)) /\ N = Len(entries) /\ DOMAIN entries = 1 .. N
          /\ \A i \in 1 .. N : entries[i] \in PartitionEntries
  <2>1. PICK entries \in Seq(PartitionEntries) : entries = PartitionsOf(WholeDrive(d))
    BY PartitionsFacts
  <2>2. /\ Len(entries) \in Nat /\ DOMAIN entries = 1 .. Len(entries)
        /\ \A i \in 1 .. Len(entries) : entries[i] \in PartitionEntries
    BY ElementOfSeq
  <2> QED
    BY <2>1, <2>2
<1>2. \A i \in 1 .. N : entries[i].start_lba \in Nat
  BY <1>1 DEF PartitionEntries
<1>3. Starts(d) = {0} \cup {entries[i].start_lba : i \in 1 .. N}
  BY <1>1 DEF Starts
<1>4. \A start \in Starts(d) : DeviceAt(d, start) \in Devices
  BY DEF Devices
<1>5. ASSUME NEW i \in 1 .. N PROVE PartitionOf(WholeDrive(d), entries[i].start_lba) \in Devices
  <2>1. entries[i].start_lba \in Starts(d)
    BY <1>3
  <2>2. PartitionOf(WholeDrive(d), entries[i].start_lba) = DeviceAt(d, entries[i].start_lba)
    BY <1>2, DriveFacts
  <2> QED
    BY <1>4, <2>1, <2>2
<1> QED
  BY <1>1, <1>2, <1>3, <1>4, <1>5

LEMMA DevicesFacts == ASSUME NEW dev \in Devices PROVE DeviceOK(dev)
<1>1. PICK d \in DOMAIN Disks : \E start \in Starts(d) : dev = DeviceAt(d, start)
  BY DEF Devices
<1>2. PICK start \in Starts(d) : dev = DeviceAt(d, start)
  BY <1>1
<1> QED
  BY <1>2, PartitionStarts, DeviceAtFacts

LEMMA FoundVolumesFacts == ASSUME NEW v \in FoundVolumes PROVE VolumeOK(v)
BY DevicesFacts, ProbeFacts DEF FoundVolumes

MountStates ==
    {s \in [volumes : Seq(FoundVolumes), buffers : Seq(BufferSet), phase : {"boot", "panic", "stuck", "exhausted"}] :
        Len(s.buffers) = Len(s.volumes) /\ Len(s.volumes) <= MaxDevices}

LEMMA AddVolumeFacts ==
    ASSUME ChainsEnd, NEW s \in MountStates, NEW v \in FoundVolumes, Len(s.volumes) < MaxDevices
    PROVE  AddVolume(s, v) \in MountStates
<1>1. VolumeOK(v) /\ Ends(v)
  BY FoundVolumesFacts DEF ChainsEnd
<1>2. PICK b \in BufferSet : b = Loading(v, NoBuffer, Chain(v, v.root.inode))
  <2>1. NoBuffer \in BufferSet
    BY DEF NoBuffer, BufferSet
  <2>2. v.root.inode \in Nat
    BY <1>1 DEF VolumeOK, FileStates
  <2>3. v.fs = "fat" => Len(Chain(v, v.root.inode)) \in Nat
    BY <1>1, <2>2, ChainFacts
  <2> QED
    BY <1>1, <2>1, <2>3, LoadingFacts
<1>3. PICK vols \in Seq(FoundVolumes), bufs \in Seq(BufferSet) :
          /\ vols = s.volumes /\ bufs = s.buffers /\ Len(bufs) = Len(vols) /\ Len(vols) < MaxDevices
  BY DEF MountStates
<1>4. /\ AddVolume(s, v) = [volumes |-> Append(vols, v), buffers |-> Append(bufs, b), phase |-> s.phase]
      /\ s.phase \in {"boot", "panic", "stuck", "exhausted"}
  <2>1. s \in [volumes : Seq(FoundVolumes), buffers : Seq(BufferSet), phase : {"boot", "panic", "stuck", "exhausted"}]
    BY DEF MountStates
  <2>2. PICK phas : phas = s.phase /\ phas \in {"boot", "panic", "stuck", "exhausted"}
    BY <2>1
  <2>3. s = [volumes |-> vols, buffers |-> bufs, phase |-> phas]
    BY <1>3, <2>1, <2>2
  <2>4. AddVolume(s, v) = [s EXCEPT !.volumes = Append(vols, v), !.buffers = Append(bufs, b)]
    BY <1>2, <1>3, Zenon DEF AddVolume
  <2> QED
    BY <2>2, <2>3, <2>4
<1>5. /\ Append(vols, v) \in Seq(FoundVolumes) /\ Len(Append(vols, v)) = Len(vols) + 1
      /\ Append(bufs, b) \in Seq(BufferSet) /\ Len(Append(bufs, b)) = Len(bufs) + 1
  BY AppendProperties
<1>6. Len(vols) \in Nat /\ MaxDevices \in Nat
  BY StorageAssumption
<1> QED
  BY <1>3, <1>4, <1>5, <1>6 DEF MountStates

LEMMA MountFacts ==
    ASSUME ChainsEnd, NEW s \in MountStates, NEW dev \in Devices
    PROVE  Mount(s, dev) \in MountStates
<1>1. PICK volume : volume = ProbeDevice(dev)
  OBVIOUS
<1>2. Mount(s, dev) = MountProbed(s, volume)
  BY <1>1 DEF Mount
<1>3. /\ [s EXCEPT !.phase = "panic"] \in MountStates /\ [s EXCEPT !.phase = "stuck"] \in MountStates
      /\ [s EXCEPT !.phase = "exhausted"] \in MountStates
  BY DEF MountStates
<1>4. Len(s.volumes) \in Nat /\ MaxDevices \in Nat
  BY StorageAssumption DEF MountStates
<1>5. CASE s.phase # "boot"
  BY <1>2, <1>5 DEF MountProbed
<1>6. CASE s.phase = "boot" /\ Len(s.volumes) >= MaxDevices
  BY <1>2, <1>3, <1>4, <1>6 DEF MountProbed
<1>7. CASE s.phase = "boot" /\ Len(s.volumes) < MaxDevices
  <2>1. MountProbed(s, volume) \in {s, [s EXCEPT !.phase = "stuck"]}
            \/ (volume \notin {NoVolume, Stuck} /\ MountProbed(s, volume) = AddIfFits(s, OnInit(volume)))
    BY <1>4, <1>7 DEF MountProbed
  <2>2. volume \notin {NoVolume, Stuck} => OnInit(volume) \in FoundVolumes
    BY <1>1 DEF FoundVolumes
  <2>3. AddIfFits(s, OnInit(volume)) \in {AddVolume(s, OnInit(volume)), [s EXCEPT !.phase = "exhausted"]}
    BY DEF AddIfFits
  <2> QED
    BY <1>2, <1>3, <1>7, <2>1, <2>2, <2>3, AddVolumeFacts
<1> QED
  BY <1>4, <1>5, <1>6, <1>7

(* The fold over the entries of a master boot record.                      *)
LEMMA MountingFacts ==
    ASSUME ChainsEnd, NEW s \in MountStates, NEW d \in DOMAIN Disks,
           NEW dev, dev = WholeDrive(d), NEW entries, entries = PartitionsOf(dev), NEW N, N = Len(entries),
           NEW g, g = Mounting(s, dev, entries)
    PROVE  /\ N \in Nat /\ DOMAIN entries = 1 .. N
           /\ \A i \in 1 .. N : PartitionOf(dev, entries[i].start_lba) \in Devices
           /\ g[0] = s /\ \A i \in 0 .. N : g[i] \in MountStates
           /\ \A i \in 1 .. N : g[i] = IF ~ InUse(entries[i]) THEN g[i - 1]
                                     ELSE Mount(g[i - 1], PartitionOf(dev, entries[i].start_lba))
<1>1. /\ N \in Nat /\ DOMAIN entries = 1 .. N
      /\ \A i \in 1 .. N : PartitionOf(dev, entries[i].start_lba) \in Devices
  <2>1. entries \in Seq(PartitionEntries)
    BY PartitionsFacts
  <2> QED
    BY <2>1, PartitionStarts
<1> DEFINE After(x, i) == IF ~ InUse(entries[i]) THEN x ELSE Mount(x, PartitionOf(dev, entries[i].start_lba))
<1>2. ASSUME NEW x \in MountStates, NEW i \in 1 .. N PROVE After(x, i) \in MountStates
  BY <1>1, MountFacts
<1>3. Mounting(s, dev, entries) = CHOOSE h : h = [i \in 0 .. N |-> IF i = 0 THEN s ELSE After(h[i - 1], i)]
  BY DEF Mounting
<1> HIDE DEF After
<1>4. PICK step : step = [i \in 1 .. N |-> [x \in MountStates |-> After(x, i)]]
  OBVIOUS
<1>5. step \in [1 .. N -> [MountStates -> MountStates]]
  BY <1>2, <1>4
<1>6. PICK f \in [0 .. N -> MountStates] : Follows(f, N, s, step)
  BY <1>1, <1>5, RecursionExists
<1>7. f[0] = s /\ \A i \in 1 .. N : f[i] = After(f[i - 1], i)
  <2>1. ASSUME NEW i \in 1 .. N PROVE f[i] = After(f[i - 1], i)
    <3>1. f[i] = step[i][f[i - 1]] /\ f[i - 1] \in MountStates
      BY <1>1, <1>6 DEF Follows
    <3> QED
      BY <1>4, <3>1
  <2> QED
    BY <1>6, <2>1 DEF Follows
<1>8. f = [i \in 0 .. N |-> IF i = 0 THEN s ELSE After(f[i - 1], i)]
  BY <1>6, <1>7
<1>9. g = [i \in 0 .. N |-> IF i = 0 THEN s ELSE After(g[i - 1], i)]
  BY <1>3, <1>8
<1>10. g[0] = s /\ \A i \in 1 .. N : g[i] = After(g[i - 1], i)
  BY <1>1, <1>9
<1>11. \A i \in 0 .. N : g[i] \in MountStates
  <2>1. \A i \in 1 .. N : g[i - 1] \in MountStates => g[i] \in MountStates
    BY <1>2, <1>10
  <2> QED
    BY <1>1, <1>10, <2>1, StaysIn
<1> QED
  BY <1>1, <1>10, <1>11 DEF After

LEMMA OrPartitionsFacts ==
    ASSUME ChainsEnd, NEW s \in MountStates, NEW d \in DOMAIN Disks
    PROVE  OrPartitions(s, Mount(s, WholeDrive(d)), WholeDrive(d)) \in MountStates
<1>1. PICK dev \in Devices : dev = WholeDrive(d)
  BY PartitionStarts, DriveFacts
<1>2. Mount(s, dev) \in MountStates
  BY MountFacts
<1>3. PICK entries, N, g : entries = PartitionsOf(dev) /\ N = Len(entries) /\ g = Mounting(s, dev, entries)
  OBVIOUS
<1>4. N \in Nat /\ \A i \in 0 .. N : g[i] \in MountStates
  BY <1>1, <1>3, MountingFacts
<1>5. g[N] \in MountStates
  BY <1>4
<1>6. OrPartitions(s, Mount(s, dev), dev) \in {Mount(s, dev), g[N]}
  BY <1>3 DEF OrPartitions
<1> QED
  BY <1>1, <1>2, <1>5, <1>6

-----------------------------------------------------------------------------

(* The volumes are ones that the drives hold, so nothing an operation      *)
(* reads from them is out of type; a file in hand is not past its end.     *)
OpenFiles == [path : Paths, v : DOMAIN volumes, state : OpenStates]

StorageInv ==
    /\ drives \in Machines /\ next \in 1 .. Len(drives) + 1
    /\ volumes \in Seq(FoundVolumes) /\ Len(volumes) <= MaxDevices
    /\ buffers \in Seq(BufferSet) /\ Len(buffers) = Len(volumes)
    /\ file = NoFile \/ file \in OpenFiles
    /\ phase = "boot" => file = NoFile
    /\ answer.op \in {"none", "dir", "open", "read"}
    /\ phase \in {"boot", "ready", "panic", "stuck", "fault", "exhausted"}

LEMMA StorageInvInit == StorageInit => StorageInv
<1> SUFFICES ASSUME StorageInit PROVE StorageInv
  OBVIOUS
<1>1. drives \in Machines /\ Len(drives) \in Nat
  BY DisksAssumption DEF StorageInit
<1>2. next \in 1 .. Len(drives) + 1
  BY <1>1 DEF StorageInit
<1>3. /\ volumes \in Seq(FoundVolumes) /\ Len(volumes) = 0
      /\ buffers \in Seq(BufferSet) /\ Len(buffers) = 0
  BY DEF StorageInit
<1>4. Len(volumes) <= MaxDevices
  BY <1>3, StorageAssumption
<1> QED
  BY <1>1, <1>2, <1>3, <1>4 DEF StorageInit, StorageInv, NoAnswer

LEMMA MountDriveInv == ASSUME ChainsEnd, StorageInv, MountDrive PROVE StorageInv'
<1>1. PICK before, device : /\ before = [volumes |-> volumes, buffers |-> buffers, phase |-> phase]
                            /\ device = WholeDrive(drives[next])
  OBVIOUS
<1>2. PICK s : s = OrPartitions(before, Mount(before, device), device) /\ Becomes(s)
  BY <1>1 DEF MountDrive
<1>3. before \in MountStates
  BY <1>1 DEF MountDrive, StorageInv, MountStates
<1>4. drives[next] \in DOMAIN Disks
  <2>1. drives \in Seq(DOMAIN Disks) /\ next \in 1 .. Len(drives)
    BY DisksAssumption DEF MountDrive, StorageInv
  <2> QED
    BY <2>1, ElementOfSeq
<1>5. s \in MountStates
  BY <1>1, <1>2, <1>3, <1>4, OrPartitionsFacts
<1>6. /\ volumes' \in Seq(FoundVolumes) /\ Len(volumes') <= MaxDevices
      /\ buffers' \in Seq(BufferSet) /\ Len(buffers') = Len(volumes')
      /\ phase' \in {"boot", "ready", "panic", "stuck", "exhausted"}
  BY <1>2, <1>5 DEF Becomes, MountStates
<1>7. drives' \in Machines /\ next' \in 1 .. Len(drives') + 1
  <2>1. Len(drives) \in Nat
    BY DisksAssumption DEF StorageInv
  <2> QED
    BY <2>1 DEF MountDrive, StorageInv
<1>8. file' = NoFile /\ answer' = answer
  BY DEF MountDrive, StorageInv
<1> QED
  BY <1>6, <1>7, <1>8 DEF StorageInv

(* What the calls of the shell have to work with.                          *)
LEMMA VolumeInHand ==
    ASSUME ChainsEnd, StorageInv, NEW n \in DOMAIN volumes
    PROVE  VolumeOK(volumes[n]) /\ Ends(volumes[n]) /\ buffers[n] \in BufferSet
<1>1. volumes[n] \in FoundVolumes /\ buffers[n] \in BufferSet
  BY ElementOfSeq DEF StorageInv
<1> QED
  BY <1>1, FoundVolumesFacts DEF ChainsEnd

LEMMA BufferReplaced ==
    ASSUME StorageInv, NEW n \in DOMAIN volumes, NEW b \in BufferSet, buffers' = [buffers EXCEPT ![n] = b]
    PROVE  buffers' \in Seq(BufferSet) /\ Len(buffers') = Len(volumes)
BY DEF StorageInv

LEMMA RunsOutInv == ASSUME StorageInv, NEW n, NEW clusters, RunsOut(n, clusters) PROVE StorageInv'
BY DEF RunsOut, StorageInv, OpenFiles

LEMMA ListDirInv ==
    ASSUME ChainsEnd, StorageInv, NEW n \in DOMAIN volumes, NEW path \in Paths, NEW junk \in Junk, ListDir(n, path, junk)
    PROVE  StorageInv'
<1>1. PICK v : v = volumes[n] /\ VolumeOK(v) /\ Ends(v) /\ buffers[n] \in BufferSet
  BY VolumeInHand
<1>2. path \in Seq(Seq(STRING)) /\ junk \in NameBuffers
  BY DisksAssumption
<1>3. PICK dir \in FileStates : dir = Resolve(v, path, junk)
  BY <1>1, <1>2, ResolveFacts
<1>4. PICK clusters : clusters = Searched(v, path, junk) \o (IF IsDir(dir) THEN Chain(v, dir.inode) ELSE <<>>)
  OBVIOUS
<1>5. v.fs = "fat" => Len(clusters) \in Nat
  <2> HAVE v.fs = "fat"
  <2>1. Searched(v, path, junk) \in Seq(Nat)
    BY <1>1, <1>2, SearchedFacts
  <2>2. (IF IsDir(dir) THEN Chain(v, dir.inode) ELSE <<>>) \in Seq(Nat)
    <3>1. dir.inode \in Nat
      BY DEF FileStates
    <3> QED
      BY <1>1, <3>1, ChainFacts
  <2>3. clusters \in Seq(Nat)
    BY <1>4, <2>1, <2>2, ConcatProperties
  <2> QED
    BY <2>3
<1>6. PICK b \in BufferSet : b = Loading(v, buffers[n], clusters)
  BY <1>1, <1>5, LoadingFacts
<1>7. \/ RunsOut(n, clusters)
      \/ Load(n, clusters) /\ answer'.op = "dir" /\ UNCHANGED <<drives, next, volumes, file, phase>>
  BY <1>1, <1>3, <1>4 DEF ListDir
<1>8. CASE Load(n, clusters) /\ answer'.op = "dir" /\ UNCHANGED <<drives, next, volumes, file, phase>>
  <2>1. buffers' = [buffers EXCEPT ![n] = b]
    BY <1>1, <1>6, <1>8 DEF Load, Loaded
  <2>2. buffers' \in Seq(BufferSet) /\ Len(buffers') = Len(volumes)
    BY <2>1, BufferReplaced
  <2> QED
    BY <1>8, <2>2 DEF StorageInv, OpenFiles
<1> QED
  BY <1>7, <1>8, RunsOutInv

LEMMA OpenFileInv ==
    ASSUME ChainsEnd, StorageInv, NEW n \in DOMAIN volumes, NEW path \in Paths, NEW junk \in Junk, OpenFile(n, path, junk)
    PROVE  StorageInv'
<1>1. PICK v : v = volumes[n] /\ VolumeOK(v) /\ Ends(v) /\ buffers[n] \in BufferSet
  BY VolumeInHand
<1>2. path \in Seq(Seq(STRING)) /\ junk \in NameBuffers
  BY DisksAssumption
<1>3. PICK state \in FileStates : state = Resolve(v, path, junk)
  BY <1>1, <1>2, ResolveFacts
<1>4. PICK b \in BufferSet : b = Loading(v, buffers[n], Searched(v, path, junk))
  <2>1. v.fs = "fat" => Len(Searched(v, path, junk)) \in Nat
    <3> HAVE v.fs = "fat"
    <3>1. Searched(v, path, junk) \in Seq(Nat)
      BY <1>1, <1>2, SearchedFacts
    <3> QED
      BY <3>1
  <2> QED
    BY <1>1, <2>1, LoadingFacts
<1> DEFINE Opens == /\ Load(n, Searched(v, path, junk)) /\ answer'.op = "open"
                    /\ UNCHANGED <<drives, next, volumes, phase>>
                    /\ file' = IF state = NotFound THEN NoFile ELSE [path |-> path, v |-> n, state |-> state]
<1>5. phase = "ready" /\ (RunsOut(n, Searched(v, path, junk)) \/ Opens)
  BY <1>1, <1>3 DEF OpenFile, AtPrompt
<1>6. CASE Opens
  <2>1. buffers' = [buffers EXCEPT ![n] = b]
    BY <1>1, <1>4, <1>6 DEF Load, Loaded
  <2>2. buffers' \in Seq(BufferSet) /\ Len(buffers') = Len(volumes)
    BY <2>1, BufferReplaced
  <2>3. file' = NoFile \/ file' \in OpenFiles'
    BY <1>6, OpenStatesFacts DEF OpenFiles
  <2> QED
    BY <1>5, <1>6, <2>2, <2>3 DEF StorageInv
<1> QED
  BY <1>5, <1>6, RunsOutInv

LEMMA OpenStatesMoved ==
    ASSUME NEW st \in OpenStates, NEW p \in 0 .. st.size
    PROVE  [st EXCEPT !.position = p] \in OpenStates
<1>1. PICK z \in Nat : z = st.size
  BY DEF OpenStates
<1>2. p \in Nat /\ p <= z
  BY <1>1
<1>3. st = [inode |-> st.inode, size |-> z, flags |-> st.flags, position |-> st.position]
  BY <1>1 DEF OpenStates
<1>4. st.inode \in Nat /\ st.flags \in SUBSET Attributes
  BY DEF OpenStates
<1>5. PICK moved : moved = [inode |-> st.inode, size |-> z, flags |-> st.flags, position |-> p]
  OBVIOUS
<1>6. moved = [st EXCEPT !.position = p]
  BY <1>3, <1>5
<1>7. moved \in [inode : Nat, size : Nat, flags : SUBSET Attributes, position : Nat] /\ moved.position <= moved.size
  BY <1>2, <1>4, <1>5
<1> QED
  BY <1>6, <1>7 DEF OpenStates

LEMMA ReadFileInv ==
    ASSUME ChainsEnd, StorageInv, NEW length \in ReadLengths, ReadFile(length)
    PROVE  StorageInv'
<1>1. file \in OpenFiles /\ file.v \in DOMAIN volumes /\ file.state \in OpenStates
  BY DEF StorageInv, ReadFile, OpenFiles
<1>2. PICK v : v = volumes[file.v] /\ VolumeOK(v) /\ Ends(v) /\ buffers[file.v] \in BufferSet
  BY <1>1, VolumeInHand
<1>3. PICK got : /\ got = ReadTo(v, file.state, length)
                 /\ got.position \in 0 .. file.state.size /\ got.fault \in BOOLEAN
  <2>1. length \in Nat
    BY StorageAssumption
  <2> QED
    BY <1>1, <1>2, <2>1, ReadToFacts
<1>4. PICK b \in BufferSet : b = Loading(v, buffers[file.v], Chain(v, FirstCluster(v, file.state)))
  <2>1. v.fs = "fat" => Len(Chain(v, FirstCluster(v, file.state))) \in Nat
    BY <1>1, <1>2, FirstClusterFacts, ChainFacts
  <2> QED
    BY <1>2, <2>1, LoadingFacts
<1> DEFINE clusters == Chain(v, FirstCluster(v, file.state))
           Reads == /\ Load(file.v, clusters) /\ phase' \in {"fault", "ready"} /\ answer'.op = "read"
                    /\ file' = [file EXCEPT !.state.position = got.position]
                    /\ UNCHANGED <<drives, next, volumes>>
<1>8. phase = "ready" /\ (RunsOut(file.v, clusters) \/ Reads)
  BY <1>2, <1>3 DEF ReadFile
<1> SUFFICES ASSUME Reads PROVE StorageInv'
  BY <1>8, RunsOutInv
<1>5. buffers' = [buffers EXCEPT ![file.v] = b]
  BY <1>2, <1>4 DEF Load, Loaded
<1>6. buffers' \in Seq(BufferSet) /\ Len(buffers') = Len(volumes)
  BY <1>1, <1>5, BufferReplaced
<1>7. file' \in OpenFiles'
  <2>1. PICK st \in OpenStates : st = [file.state EXCEPT !.position = got.position]
    BY <1>1, <1>3, OpenStatesMoved
  <2>2. file' = [file EXCEPT !.state = st]
    BY <1>1, <2>1 DEF OpenFiles
  <2> QED
    BY <1>1, <2>2 DEF OpenFiles
<1> QED
  BY <1>6, <1>7, <1>8 DEF StorageInv

LEMMA ReturnInv == ASSUME StorageInv, Return PROVE StorageInv'
<1>1. answer'.op = "none" /\ UNCHANGED <<drives, next, volumes, buffers, phase>>
  BY DEF Return, NoAnswer
<1>2. file' = file \/ file' = NoFile
  BY DEF Return
<1> QED
  BY <1>1, <1>2 DEF StorageInv, OpenFiles

LEMMA StorageInvNext == ASSUME ChainsEnd, StorageInv, [StorageNext]_storageVars PROVE StorageInv'
<1>1. CASE MountDrive
  BY <1>1, MountDriveInv
<1>2. ASSUME NEW n \in DOMAIN volumes, NEW path \in Paths, NEW junk \in Junk,
             ListDir(n, path, junk) \/ OpenFile(n, path, junk)
      PROVE  StorageInv'
  BY <1>2, ListDirInv, OpenFileInv
<1>3. ASSUME NEW length \in ReadLengths, ReadFile(length) PROVE StorageInv'
  BY <1>3, ReadFileInv
<1>4. CASE Return
  BY <1>4, ReturnInv
<1>5. CASE UNCHANGED storageVars
  BY <1>5 DEF storageVars, StorageInv, OpenFiles
<1> QED
  BY <1>1, <1>2, <1>3, <1>4, <1>5 DEF StorageNext

LEMMA StorageTypes == ASSUME ChainsEnd PROVE StorageSpec => []StorageInv
<1>1. StorageInit => StorageInv
  BY StorageInvInit
<1>2. StorageInv /\ [StorageNext]_storageVars => StorageInv'
  BY StorageInvNext
<1> QED
  BY <1>1, <1>2, PTL DEF StorageSpec

LEMMA StorageInvOK == StorageInv => StorageOK
<1> SUFFICES ASSUME StorageInv PROVE StorageOK
  OBVIOUS
<1>1. /\ Len(volumes) \in Nat /\ DOMAIN volumes = 1 .. Len(volumes)
      /\ DOMAIN buffers = DOMAIN volumes
  BY DEF StorageInv
<1>2. ASSUME NEW n \in DOMAIN volumes
      PROVE  volumes[n].fs \in {"fat", "iso"} /\ buffers[n] \in [size : Nat, holds : Nat] /\ buffers[n].holds <= buffers[n].size
  <2>1. volumes[n] \in FoundVolumes /\ buffers[n] \in BufferSet
    BY <1>1, ElementOfSeq DEF StorageInv
  <2> QED
    BY <2>1, FoundVolumesFacts DEF BufferSet, VolumeOK
<1>3. ASSUME file # NoFile PROVE file.v \in DOMAIN volumes /\ file.state.position \in 0 .. file.state.size
  <2>1. file.v \in DOMAIN volumes /\ file.state \in OpenStates
    BY <1>3 DEF StorageInv, OpenFiles
  <2> QED
    BY <2>1 DEF OpenStates
<1> QED
  BY <1>1, <1>2, <1>3 DEF StorageInv, StorageOK

(* Whatever the disks hold, as long as no cluster chain on them goes round *)
(* in circles (ChainsEnd): the table of volumes is never overfull, every   *)
(* volume has its buffer, no load is larger than the buffer it goes to and *)
(* no read takes a file past its end (mount(), load_sectors(), both        *)
(* read_file()).                                                           *)
THEOREM AlwaysStorageOK == ASSUME ChainsEnd PROVE StorageSpec => []StorageOK
<1>1. StorageInv => StorageOK
  BY StorageInvOK
<1> QED
  BY <1>1, StorageTypes, PTL

-----------------------------------------------------------------------------
(* The volumes mounted, against those recognised on each drive.            *)

LEMMA PrefixFacts ==
    ASSUME NEW A, NEW s \in Seq(A), NEW u \in Seq(A)
    PROVE  IsPrefix(s, s \o u)
<1>1. PICK n \in Nat, m \in Nat : n = Len(s) /\ m = Len(u)
  OBVIOUS
<1>2. PICK w \in Seq(A) : w = s \o u /\ Len(w) = n + m /\ \A i \in 1 .. n : w[i] = s[i]
  <2>1. s \o u \in Seq(A) /\ Len(s \o u) = Len(s) + Len(u)
        /\ \A i \in 1 .. Len(s) + Len(u) : (s \o u)[i] = IF i <= Len(s) THEN s[i] ELSE u[i - Len(s)]
    BY ConcatProperties
  <2>2. ASSUME NEW i \in 1 .. n PROVE (s \o u)[i] = s[i]
    <3>1. i \in 1 .. n + m /\ i <= n
      OBVIOUS
    <3> QED
      BY <1>1, <2>1, <3>1
  <2> QED
    BY <1>1, <2>1, <2>2
<1>3. 1 \in Int /\ n \in Int /\ (\A i \in 1 .. n : s[i] \in A) /\ (\A i \in 1 .. n : w[i] \in A)
  BY <1>1, <1>2, ElementOfSeq
<1>4. (IF 1 <= n THEN n - 1 + 1 ELSE 0) = n /\ n - 1 + 1 = n /\ \A i \in 1 .. n : 1 + i - 1 = i
  OBVIOUS
<1>5. PICK a \in Seq(A) : a = SubSeq(s, 1, n) /\ Len(a) = n /\ \A i \in 1 .. n : a[i] = s[i]
  <2>1. SubSeq(s, 1, n) \in Seq(A) /\ Len(SubSeq(s, 1, n)) = (IF 1 <= n THEN n - 1 + 1 ELSE 0)
        /\ \A i \in 1 .. n - 1 + 1 : SubSeq(s, 1, n)[i] = s[1 + i - 1]
    BY <1>3, SubSeqProperties
  <2> QED
    BY <1>4, <2>1
<1>6. PICK b \in Seq(A) : b = SubSeq(w, 1, n) /\ Len(b) = n /\ \A i \in 1 .. n : b[i] = w[i]
  <2>1. SubSeq(w, 1, n) \in Seq(A) /\ Len(SubSeq(w, 1, n)) = (IF 1 <= n THEN n - 1 + 1 ELSE 0)
        /\ \A i \in 1 .. n - 1 + 1 : SubSeq(w, 1, n)[i] = w[1 + i - 1]
    BY <1>3, SubSeqProperties
  <2> QED
    BY <1>4, <2>1
<1>7. a = b
  BY <1>2, <1>5, <1>6, SeqEqual
<1>8. n <= n + m
  OBVIOUS
<1> QED
  BY <1>1, <1>2, <1>5, <1>6, <1>7, <1>8 DEF IsPrefix

(* What is told of the volumes, as MountsAll compares them.                *)
Shown(vols) == [n \in DOMAIN vols |-> Device(vols[n])]
Tellings == {Device(v) : v \in FoundVolumes}

LEMMA ShownFacts ==
    ASSUME NEW vols \in Seq(FoundVolumes)
    PROVE  Shown(vols) \in Seq(Tellings) /\ Len(Shown(vols)) = Len(vols)
<1>1. PICK n \in Nat : n = Len(vols) /\ DOMAIN vols = 1 .. n /\ \A i \in 1 .. n : vols[i] \in FoundVolumes
  <2>1. \A i \in 1 .. Len(vols) : vols[i] \in FoundVolumes
    BY ElementOfSeq
  <2> QED
    BY <2>1
<1>2. PICK f : f = Shown(vols)
  OBVIOUS
<1>3. f \in [1 .. n -> Tellings]
  BY <1>1, <1>2 DEF Shown, Tellings
<1>4. f \in Seq(Tellings) /\ Len(f) = n
  BY <1>3, SeqDef
<1> QED
  BY <1>1, <1>2, <1>4

LEMMA ShownAppend ==
    ASSUME NEW vols \in Seq(FoundVolumes), NEW v \in FoundVolumes
    PROVE  Shown(Append(vols, v)) = Shown(vols) \o <<Device(v)>>
<1>1. PICK n \in Nat, a \in Seq(Tellings) : n = Len(vols) /\ a = Shown(vols) /\ Len(a) = n
  BY ShownFacts
<1>2. PICK w \in Seq(FoundVolumes) :
          w = Append(vols, v) /\ Len(w) = n + 1 /\ w[n + 1] = v /\ \A i \in 1 .. n : w[i] = vols[i]
  <2>1. /\ Append(vols, v) \in Seq(FoundVolumes) /\ Len(Append(vols, v)) = Len(vols) + 1
        /\ \A i \in 1 .. Len(vols) : Append(vols, v)[i] = vols[i]
        /\ Append(vols, v)[Len(vols) + 1] = v
    BY AppendProperties
  <2>2. PICK w : w = Append(vols, v)
    OBVIOUS
  <2>3. w \in Seq(FoundVolumes) /\ Len(w) = n + 1 /\ (\A i \in 1 .. n : w[i] = vols[i]) /\ w[n + 1] = v
    BY <1>1, <2>1, <2>2
  <2> QED
    BY <2>2, <2>3
<1>3. PICK b \in Seq(Tellings) : b = Shown(w) /\ Len(b) = n + 1
  BY <1>2, ShownFacts
<1>4. PICK d \in Tellings, c \in Seq(Tellings) :
          d = Device(v) /\ c = Append(a, d) /\ Len(c) = n + 1 /\ c[n + 1] = d /\ \A i \in 1 .. n : c[i] = a[i]
  <2>1. PICK d \in Tellings : d = Device(v)
    BY DEF Tellings
  <2>2. /\ Append(a, d) \in Seq(Tellings) /\ Len(Append(a, d)) = Len(a) + 1
        /\ \A i \in 1 .. Len(a) : Append(a, d)[i] = a[i]
        /\ Append(a, d)[Len(a) + 1] = d
    BY AppendProperties
  <2>3. PICK c : c = Append(a, d)
    OBVIOUS
  <2>4. c \in Seq(Tellings) /\ Len(c) = n + 1 /\ (\A i \in 1 .. n : c[i] = a[i]) /\ c[n + 1] = d
    BY <1>1, <2>2, <2>3
  <2> QED
    BY <2>1, <2>3, <2>4
<1>5. ASSUME NEW i \in 1 .. n + 1 PROVE b[i] = c[i]
  <2>1. DOMAIN w = 1 .. n + 1
    BY <1>2
  <2>2. b[i] = Device(w[i])
    BY <1>3, <2>1 DEF Shown
  <2>3. CASE i = n + 1
    BY <1>2, <1>4, <2>2, <2>3
  <2>4. CASE i # n + 1
    <3>1. i \in 1 .. n
      BY <2>4
    <3>2. DOMAIN vols = 1 .. n
      BY <1>1
    <3>3. a[i] = Device(vols[i])
      BY <1>1, <3>1, <3>2 DEF Shown
    <3> QED
      BY <1>2, <1>4, <2>2, <3>1, <3>3
  <2> QED
    BY <2>3, <2>4
<1>6. b = c
  BY <1>3, <1>4, <1>5, SeqEqual
<1> QED
  BY <1>1, <1>2, <1>3, <1>4, <1>6, AppendIsConcat

(* What probing a device finds there, and a drive's partitions if not the  *)
(* drive itself.                                                           *)
Found(dev) == IF ProbeDevice(dev) \in {NoVolume, Stuck} THEN <<>> ELSE <<Device(OnInit(ProbeDevice(dev)))>>

FoundAt(d, entry) == IF InUse(entry) THEN Found(PartitionOf(WholeDrive(d), entry.start_lba)) ELSE <<>>

FoundOn(d) ==
    LET entries == PartitionsOf(WholeDrive(d))
    IN IF ProbeDevice(WholeDrive(d)) = NoVolume THEN FlattenSeq([i \in DOMAIN entries |-> FoundAt(d, entries[i])])
       ELSE Found(WholeDrive(d))

(* The disks hold what the drivers recognise on them, and no partition is  *)
(* one that the probes do not come back from.                              *)
LaidOut ==
    \A d \in DOMAIN Disks :
        /\ [j \in DOMAIN Holds[d] |-> HeldAs(d, Holds[d][j])] = FoundOn(d)
        /\ \A i \in DOMAIN PartitionsOf(WholeDrive(d)) :
               InUse(PartitionsOf(WholeDrive(d))[i]) =>
                   ProbeDevice(PartitionOf(WholeDrive(d), PartitionsOf(WholeDrive(d))[i].start_lba)) # Stuck

LEMMA FoundFacts == ASSUME NEW dev \in Devices PROVE Found(dev) \in Seq(Tellings)
<1>1. CASE ProbeDevice(dev) \in {NoVolume, Stuck}
  BY <1>1 DEF Found
<1>2. CASE ProbeDevice(dev) \notin {NoVolume, Stuck}
  <2>1. OnInit(ProbeDevice(dev)) \in FoundVolumes
    BY <1>2 DEF FoundVolumes
  <2>2. PICK t \in Tellings : t = Device(OnInit(ProbeDevice(dev)))
    BY <2>1 DEF Tellings
  <2> QED
    BY <1>2, <2>2 DEF Found
<1> QED
  BY <1>1, <1>2

(* What was mounted before, and then what was found: all of it, or up to   *)
(* where the table was full or the memory used up.                         *)
UsedUp == {"panic", "exhausted"}
Grown(before, found, s) ==
    /\ s \in MountStates
    /\ s.phase \notin UsedUp => Shown(s.volumes) = before \o found
    /\ s.phase = "panic" => Len(s.volumes) = MaxDevices
    /\ s.phase \in UsedUp => \E rest \in Seq(Tellings) : before \o found = Shown(s.volumes) \o rest

(* What mount() does with the device it was probed for.                    *)
LEMMA MountCases ==
    ASSUME NEW s \in MountStates, s.phase = "boot", NEW volume
    PROVE  /\ Len(s.volumes) >= MaxDevices \/ Len(s.volumes) < MaxDevices
           /\ Len(s.volumes) >= MaxDevices =>
                  Len(s.volumes) = MaxDevices /\ MountProbed(s, volume) = [s EXCEPT !.phase = "panic"]
           /\ Len(s.volumes) < MaxDevices =>
                  /\ volume = NoVolume => MountProbed(s, volume) = s
                  /\ volume = Stuck => MountProbed(s, volume) = [s EXCEPT !.phase = "stuck"]
                  /\ volume \notin {NoVolume, Stuck} =>
                         MountProbed(s, volume) \in {AddVolume(s, OnInit(volume)), [s EXCEPT !.phase = "exhausted"]}
<1>1. Len(s.volumes) \in Nat /\ MaxDevices \in Nat /\ Len(s.volumes) <= MaxDevices
  BY StorageAssumption DEF MountStates
<1>2. NoVolume # Stuck
  BY DEF NoVolume, Stuck
<1>3. CASE Len(s.volumes) >= MaxDevices
  <2>1. ~ (Len(s.volumes) < MaxDevices) /\ Len(s.volumes) = MaxDevices
    BY <1>1, <1>3
  <2>2. MountProbed(s, volume) = [s EXCEPT !.phase = "panic"]
    BY <1>3, <2>1, Zenon DEF MountProbed
  <2> QED
    BY <1>3, <2>1, <2>2
<1>4. CASE Len(s.volumes) < MaxDevices
  <2>1. ~ (Len(s.volumes) >= MaxDevices)
    BY <1>1, <1>4
  <2>2. volume = NoVolume => MountProbed(s, volume) = s
    BY <1>2, <1>4, <2>1, Zenon DEF MountProbed
  <2>3. volume = Stuck => MountProbed(s, volume) = [s EXCEPT !.phase = "stuck"]
    BY <1>2, <1>4, <2>1, Zenon DEF MountProbed
  <2>4. volume \notin {NoVolume, Stuck} => MountProbed(s, volume) = AddIfFits(s, OnInit(volume))
    BY <1>4, <2>1, Zenon DEF MountProbed
  <2>5. AddIfFits(s, OnInit(volume)) \in {AddVolume(s, OnInit(volume)), [s EXCEPT !.phase = "exhausted"]}
    BY DEF AddIfFits
  <2> QED
    BY <1>4, <2>1, <2>2, <2>3, <2>4, <2>5
<1> QED
  BY <1>1, <1>3, <1>4

LEMMA MountGrows ==
    ASSUME ChainsEnd, NEW dev \in Devices, NEW before \in Seq(Tellings), NEW found \in Seq(Tellings), NEW s,
           Grown(before, found, s), s.phase # "stuck"
    PROVE  /\ Grown(before, found \o Found(dev), Mount(s, dev))
           /\ Mount(s, dev).phase = "stuck" => ProbeDevice(dev) = Stuck
<1>1. PICK more \in Seq(Tellings) : more = Found(dev)
  BY FoundFacts
<1>2. before \o (found \o more) = (before \o found) \o more /\ before \o found \in Seq(Tellings)
  BY ConcatProperties, ConcatAssociative
<1>3. PICK t \in MountStates : t = Mount(s, dev)
  BY MountFacts DEF Grown
<1>4. PICK shown \in Seq(Tellings) : shown = Shown(s.volumes) /\ s.volumes \in Seq(FoundVolumes)
  BY ShownFacts DEF Grown, MountStates
<1>5. s.phase \in {"boot", "panic", "exhausted"} /\ Len(s.volumes) \in Nat /\ Len(s.volumes) <= MaxDevices /\ MaxDevices \in Nat
  BY StorageAssumption DEF Grown, MountStates
<1>7. CASE s.phase \in UsedUp
  <2>1. t = s
    <3>1. s.phase # "boot"
      BY <1>7 DEF UsedUp
    <3> QED
      BY <1>3, <3>1 DEF Mount, MountProbed
  <2>2. PICK rest \in Seq(Tellings) : before \o found = shown \o rest
    BY <1>4, <1>7 DEF Grown
  <2>3. (shown \o rest) \o more = shown \o (rest \o more) /\ rest \o more \in Seq(Tellings)
    <3>1. (shown \o rest) \o more = shown \o (rest \o more)
      BY ConcatAssociative
    <3>2. rest \o more \in Seq(Tellings)
      BY ConcatProperties
    <3> QED
      BY <3>1, <3>2
  <2>4. before \o (found \o more) = shown \o (rest \o more)
    BY <1>2, <2>2, <2>3
  <2>5. (s.phase = "panic" => Len(s.volumes) = MaxDevices) /\ s.phase # "stuck"
    BY <1>7 DEF Grown
  <2> QED
    BY <1>1, <1>3, <1>4, <1>7, <2>1, <2>3, <2>4, <2>5 DEF Grown
<1>8. CASE s.phase = "boot" /\ Len(s.volumes) >= MaxDevices
  <2>1. t = [s EXCEPT !.phase = "panic"]
    BY <1>3, <1>8, MountCases DEF Mount, Grown
  <2>2. t.volumes = s.volumes /\ t.phase = "panic"
    BY <2>1, <1>4 DEF Grown, MountStates
  <2>3. before \o (found \o more) = shown \o more
    BY <1>2, <1>4, <1>8 DEF Grown, UsedUp
  <2>4. Len(s.volumes) = MaxDevices
    BY <1>5, <1>8
  <2> QED
    BY <1>1, <1>3, <1>4, <2>2, <2>3, <2>4 DEF Grown, UsedUp
<1>9. CASE s.phase = "boot" /\ Len(s.volumes) < MaxDevices
  <2>1. before \o found = shown
    BY <1>4, <1>9 DEF Grown, UsedUp
  <2>2. PICK volume : volume = ProbeDevice(dev)
    OBVIOUS
  <2>3. t = MountProbed(s, volume)
    BY <1>3, <2>2 DEF Mount
  <2>4. s \in MountStates
    BY DEF Grown
  <2>5. CASE volume = NoVolume
    <3>1. t = s
      BY <1>9, <2>3, <2>4, <2>5, MountCases
    <3>2. more = <<>>
      BY <1>1, <2>2, <2>5 DEF Found
    <3>3. shown \o more = shown
      BY <3>2, ConcatEmptySeq
    <3> QED
      BY <1>1, <1>2, <1>3, <1>4, <1>9, <2>1, <3>1, <3>3 DEF Grown, UsedUp
  <2>6. CASE volume = Stuck
    <3>1. t = [s EXCEPT !.phase = "stuck"]
      BY <1>9, <2>3, <2>4, <2>6, MountCases
    <3>2. t.volumes = s.volumes /\ t.phase = "stuck"
      BY <3>1 DEF Grown, MountStates
    <3>3. more = <<>>
      BY <1>1, <2>2, <2>6 DEF Found
    <3>4. shown \o more = shown
      BY <3>3, ConcatEmptySeq
    <3> QED
      BY <1>1, <1>2, <1>3, <1>4, <2>1, <2>2, <2>6, <3>2, <3>4 DEF Grown, UsedUp
  <2>7. CASE volume \notin {NoVolume, Stuck}
    <3>1. PICK v \in FoundVolumes : v = OnInit(volume)
      BY <2>2, <2>7 DEF FoundVolumes
    <3>2. t \in {AddVolume(s, v), [s EXCEPT !.phase = "exhausted"]}
      BY <1>9, <2>3, <2>4, <2>7, <3>1, MountCases
    <3>3. more = <<Device(v)>>
      BY <1>1, <2>2, <2>7, <3>1 DEF Found
    <3>4. CASE t = AddVolume(s, v)
      <4>1. t.volumes = Append(s.volumes, v) /\ t.phase = "boot"
        <5>1. PICK b : t = [s EXCEPT !.volumes = Append(@, v), !.buffers = Append(@, b)]
          BY <3>4, Zenon DEF AddVolume
        <5> QED
          BY <1>9, <5>1 DEF Grown, MountStates
      <4>2. Shown(t.volumes) = shown \o more
        BY <1>4, <3>3, <4>1, ShownAppend
      <4> QED
        BY <1>1, <1>2, <1>3, <2>1, <4>1, <4>2 DEF Grown, UsedUp
    <3>5. CASE t = [s EXCEPT !.phase = "exhausted"]
      <4>1. t.volumes = s.volumes /\ t.phase = "exhausted"
        BY <3>5 DEF Grown, MountStates
      <4>2. before \o (found \o more) = shown \o more
        BY <1>2, <2>1
      <4> QED
        BY <1>1, <1>3, <1>4, <4>1, <4>2 DEF Grown, UsedUp
    <3> QED
      BY <3>2, <3>4, <3>5
  <2> QED
    BY <2>5, <2>6, <2>7
<1> QED
  BY <1>5, <1>7, <1>8, <1>9 DEF UsedUp

LEMMA FoundOnFacts == ASSUME NEW d \in DOMAIN Disks PROVE FoundOn(d) \in Seq(Tellings)
<1>1. PICK dev \in Devices : dev = WholeDrive(d)
  BY PartitionStarts, DriveFacts
<1>2. PICK entries, N : entries = PartitionsOf(dev) /\ N = Len(entries) /\ N \in Nat /\ DOMAIN entries = 1 .. N
  <2>1. PartitionsOf(dev) \in Seq(PartitionEntries)
    BY <1>1, PartitionsFacts
  <2> QED
    BY <2>1
<1>3. PICK fs : fs = [i \in 1 .. N |-> FoundAt(d, entries[i])]
  OBVIOUS
<1>4. fs \in [1 .. N -> Seq(Tellings)]
  <2>1. ASSUME NEW i \in 1 .. N PROVE FoundAt(d, entries[i]) \in Seq(Tellings)
    <3>1. PartitionOf(dev, entries[i].start_lba) \in Devices
      BY <1>1, <1>2, PartitionStarts
    <3>2. Found(PartitionOf(dev, entries[i].start_lba)) \in Seq(Tellings)
      BY <3>1, FoundFacts
    <3>3. <<>> \in Seq(Tellings)
      OBVIOUS
    <3> QED
      BY <1>1, <3>2, <3>3 DEF FoundAt
  <2> QED
    BY <1>3, <2>1
<1>5. FlattenSeq(fs) \in Seq(Tellings)
  <2>1. N \in Nat
    BY <1>2
  <2> QED
    BY <1>4, <2>1, MappedTexts
<1> QED
  BY <1>1, <1>2, <1>3, <1>5, FoundFacts DEF FoundOn

LEMMA PartitionsGrow ==
    ASSUME ChainsEnd, LaidOut, NEW s \in MountStates, s.phase = "boot", NEW d \in DOMAIN Disks,
           ProbeDevice(WholeDrive(d)) = NoVolume, NEW dev, dev = WholeDrive(d),
           NEW entries, entries = PartitionsOf(dev), NEW N, N = Len(entries),
           NEW g, g = Mounting(s, dev, entries), NEW before \in Seq(Tellings), before = Shown(s.volumes)
    PROVE  Grown(before, FoundOn(d), g[N])
<1>1. /\ N \in Nat /\ DOMAIN entries = 1 .. N
      /\ \A i \in 1 .. N : PartitionOf(dev, entries[i].start_lba) \in Devices
      /\ g[0] = s
      /\ \A i \in 1 .. N : g[i] = IF ~ InUse(entries[i]) THEN g[i - 1]
                                  ELSE Mount(g[i - 1], PartitionOf(dev, entries[i].start_lba))
  BY MountingFacts
<1>2. PICK fs : fs = [i \in 1 .. N |-> FoundAt(d, entries[i])]
  OBVIOUS
<1>3. FoundOn(d) = FlattenSeq(fs)
  BY <1>1, <1>2 DEF FoundOn
<1>4. \A i \in 1 .. N : fs[i] = (IF InUse(entries[i]) THEN Found(PartitionOf(dev, entries[i].start_lba)) ELSE <<>>)
                        /\ fs[i] \in Seq(Tellings)
  <2>1. ASSUME NEW i \in 1 .. N
        PROVE  fs[i] = (IF InUse(entries[i]) THEN Found(PartitionOf(dev, entries[i].start_lba)) ELSE <<>>)
    BY <1>2 DEF FoundAt
  <2>2. ASSUME NEW i \in 1 .. N PROVE Found(PartitionOf(dev, entries[i].start_lba)) \in Seq(Tellings)
    BY <1>1, FoundFacts
  <2>3. <<>> \in Seq(Tellings)
    OBVIOUS
  <2> QED
    BY <2>1, <2>2, <2>3
<1>5. fs \in Seq(Seq(Tellings)) /\ Len(fs) = N
  <2>1. fs \in [1 .. N -> Seq(Tellings)]
    BY <1>2, <1>4
  <2> QED
    BY <1>1, <2>1, SeqDef
<1>6. PICK h \in [0 .. N -> Seq(Tellings)] :
          h[0] = <<>> /\ h[N] = FoundOn(d) /\ \A i \in 1 .. N : h[i] = h[i - 1] \o fs[i]
  <2>1. \E h \in [0 .. Len(fs) -> Seq(Tellings)] :
            /\ h[0] = <<>> /\ h[Len(fs)] = FlattenSeq(fs)
            /\ \A i \in 1 .. Len(fs) : h[i] = h[i - 1] \o fs[i]
    BY <1>5, FlattenFacts
  <2> QED
    BY <1>3, <1>5, <2>1
<1>7. PICK S : S = {i \in 0 .. N : g[i].phase # "stuck" /\ Grown(before, h[i], g[i])}
  OBVIOUS
<1>8. 0 \in S
  <2>1. before \o <<>> = before
    BY ConcatEmptySeq
  <2>2. Grown(before, <<>>, s)
    BY <2>1 DEF Grown, UsedUp
  <2> QED
    BY <1>1, <1>6, <1>7, <2>2
<1>9. ASSUME NEW i \in 0 .. N - 1, i \in S PROVE i + 1 \in S
  <2>1. PICK j \in 1 .. N : j = i + 1 /\ j - 1 = i
    BY <1>1
  <2>2. g[i].phase # "stuck" /\ Grown(before, h[i], g[i]) /\ h[i] \in Seq(Tellings)
    BY <1>1, <1>6, <1>7, <1>9
  <2>3. h[j] = h[i] \o fs[j]
    BY <1>6, <2>1
  <2>4. CASE ~ InUse(entries[j])
    <3>1. g[j] = g[i] /\ fs[j] = <<>>
      BY <1>1, <1>4, <2>1, <2>4
    <3>2. h[j] = h[i]
      BY <2>2, <2>3, <3>1, ConcatEmptySeq
    <3> QED
      BY <1>7, <2>1, <2>2, <3>1, <3>2
  <2>5. CASE InUse(entries[j])
    <3>1. PICK p \in Devices : p = PartitionOf(dev, entries[j].start_lba)
      BY <1>1
    <3>2. g[j] = Mount(g[i], p) /\ fs[j] = Found(p)
      BY <1>1, <1>4, <2>1, <2>5, <3>1
    <3>3. ProbeDevice(p) # Stuck
      BY <1>1, <2>5, <3>1 DEF LaidOut
    <3>4. Grown(before, h[i] \o Found(p), Mount(g[i], p)) /\ Mount(g[i], p).phase # "stuck"
      BY <2>2, <3>3, MountGrows
    <3>5. Grown(before, h[j], g[j]) /\ g[j].phase # "stuck"
      BY <2>3, <3>2, <3>4
    <3> QED
      BY <1>7, <2>1, <3>5
  <2> QED
    BY <2>4, <2>5
<1>10. N \in S
  <2>1. \A i \in 0 .. N : i \in S
    BY <1>1, <1>8, <1>9, IntervalInduction
  <2> QED
    BY <1>1, <2>1
<1> QED
  BY <1>6, <1>7, <1>10

LEMMA DriveGrows ==
    ASSUME ChainsEnd, LaidOut, NEW s \in MountStates, s.phase = "boot", NEW d \in DOMAIN Disks,
           NEW before \in Seq(Tellings), before = Shown(s.volumes)
    PROVE  Grown(before, FoundOn(d), OrPartitions(s, Mount(s, WholeDrive(d)), WholeDrive(d)))
<1>1. PICK dev \in Devices : dev = WholeDrive(d)
  BY PartitionStarts, DriveFacts
<1>2. PICK whole \in MountStates : whole = Mount(s, dev)
  BY MountFacts
<1>3. PICK entries, N, g : entries = PartitionsOf(dev) /\ N = Len(entries) /\ g = Mounting(s, dev, entries)
  OBVIOUS
<1>4. PICK t : t = OrPartitions(s, whole, dev) /\ t = IF whole # s THEN whole ELSE g[N]
  BY <1>3 DEF OrPartitions
<1>5. Grown(before, Found(dev), whole) /\ Found(dev) \in Seq(Tellings)
  <2>1. before \o <<>> = before /\ <<>> \in Seq(Tellings)
    BY ConcatEmptySeq
  <2>2. Grown(before, <<>>, s)
    BY <2>1 DEF Grown, UsedUp
  <2>3. Grown(before, <<>> \o Found(dev), whole)
    BY <1>2, <2>1, <2>2, MountGrows
  <2>4. Found(dev) \in Seq(Tellings) /\ <<>> \o Found(dev) = Found(dev)
    BY FoundFacts, ConcatEmptySeq
  <2> QED
    BY <2>3, <2>4
<1>6. CASE ProbeDevice(dev) = NoVolume
  <2>1. Grown(before, FoundOn(d), g[N])
    BY <1>1, <1>3, <1>6, PartitionsGrow
  <2>2. whole = s \/ (whole.phase = "panic" /\ whole.volumes = s.volumes /\ Len(s.volumes) = MaxDevices)
    <3>1. whole = MountProbed(s, NoVolume)
      BY <1>2, <1>6 DEF Mount
    <3>2. whole = s \/ (whole = [s EXCEPT !.phase = "panic"] /\ Len(s.volumes) = MaxDevices)
      BY <3>1, MountCases
    <3> QED
      BY <3>2 DEF MountStates
  <2>3. CASE whole = s
    BY <1>1, <1>2, <1>4, <2>1, <2>3
  <2>4. CASE whole.phase = "panic" /\ whole.volumes = s.volumes /\ Len(s.volumes) = MaxDevices
    <3>1. t = whole
      BY <1>4, <2>4
    <3>2. Grown(before, FoundOn(d), whole)
      BY <2>4, FoundOnFacts DEF Grown, UsedUp
    <3> QED
      BY <1>1, <1>2, <1>4, <2>1, <3>1, <3>2
  <2> QED
    BY <2>2, <2>3, <2>4
<1>7. CASE ProbeDevice(dev) # NoVolume
  <2>1. FoundOn(d) = Found(dev)
    BY <1>1, <1>7 DEF FoundOn
  <2>2. whole # s
    <3>1. CASE whole.phase # "boot"
      BY <3>1
    <3>2. CASE whole.phase = "boot"
      <4>1. Shown(whole.volumes) = before \o Found(dev)
        BY <1>5, <3>2 DEF Grown, UsedUp
      <4>2. ProbeDevice(dev) # Stuck
        <5>1. whole = MountProbed(s, ProbeDevice(dev))
          BY <1>2 DEF Mount
        <5>2. ProbeDevice(dev) = Stuck => whole \in {[s EXCEPT !.phase = "panic"], [s EXCEPT !.phase = "stuck"]}
          BY <5>1, MountCases
        <5> QED
          BY <3>2, <5>2 DEF MountStates
      <4>3. Found(dev) = <<Device(OnInit(ProbeDevice(dev)))>>
        BY <1>7, <4>2 DEF Found
      <4>4. Found(dev) # <<>>
        BY <4>3
      <4>5. before \o Found(dev) # before
        BY <1>5, <4>4, ConcatEqualIffEmpty
      <4> QED
        BY <4>1, <4>5
    <3> QED
      BY <3>1, <3>2
  <2> QED
    BY <1>1, <1>2, <1>4, <1>5, <2>1, <2>2
<1> QED
  BY <1>6, <1>7

(* What MountsAll expects after the first n drives.                        *)
Expected(n) ==
    FlattenSeq([i \in 1 .. n |-> [j \in DOMAIN Holds[drives[i]] |-> HeldAs(drives[i], Holds[drives[i]][j])]])

LEMMA ExpectedFacts ==
    ASSUME LaidOut, StorageInv
    PROVE  /\ Expected(0) = <<>>
           /\ \A n \in 0 .. Len(drives) : Expected(n) \in Seq(Tellings)
           /\ \A n \in 1 .. Len(drives) : Expected(n) = Expected(n - 1) \o FoundOn(drives[n])
<1>1. PICK N \in Nat : N = Len(drives) /\ \A i \in 1 .. N : drives[i] \in DOMAIN Disks
  <2>1. drives \in Seq(DOMAIN Disks)
    BY DisksAssumption DEF StorageInv
  <2> QED
    BY <2>1, ElementOfSeq
<1>2. PICK fs : fs = [n \in 0 .. N |-> [i \in 1 .. n |-> FoundOn(drives[i])]]
  OBVIOUS
<1>3. ASSUME NEW n \in 0 .. N PROVE Expected(n) = FlattenSeq(fs[n])
  <2>1. \A i \in 1 .. n : drives[i] \in DOMAIN Disks
    BY <1>1
  <2>2. \A i \in 1 .. n : [j \in DOMAIN Holds[drives[i]] |-> HeldAs(drives[i], Holds[drives[i]][j])] = FoundOn(drives[i])
    BY <2>1 DEF LaidOut
  <2>3. fs[n] = [i \in 1 .. n |-> FoundOn(drives[i])]
    BY <1>2
  <2>4. fs[n] = [i \in 1 .. n |-> [j \in DOMAIN Holds[drives[i]] |-> HeldAs(drives[i], Holds[drives[i]][j])]]
    BY <2>2, <2>3
  <2> QED
    BY <2>4 DEF Expected
<1>4. ASSUME NEW n \in 0 .. N PROVE fs[n] \in Seq(Seq(Tellings)) /\ Len(fs[n]) = n /\ fs[n] \in [1 .. n -> Seq(Tellings)]
  <2>1. fs[n] \in [1 .. n -> Seq(Tellings)]
    BY <1>1, <1>2, FoundOnFacts
  <2>2. PICK m, f : m \in Nat /\ m = n /\ f = fs[n]
    OBVIOUS
  <2>3. f \in Seq(Seq(Tellings)) /\ Len(f) = m
    BY <2>1, <2>2, SeqDef
  <2> QED
    BY <2>1, <2>2, <2>3
<1>5. ASSUME NEW n \in 0 .. N PROVE FlattenSeq(fs[n]) \in Seq(Tellings)
  BY <1>4, MappedTexts
<1>6. ASSUME NEW n \in 0 .. N
      PROVE  \E h \in [0 .. n -> Seq(Tellings)] :
                 /\ h[0] = <<>> /\ h[n] = FlattenSeq(fs[n])
                 /\ \A i \in 1 .. n : h[i] = h[i - 1] \o FoundOn(drives[i])
  <2>1. \E h \in [0 .. Len(fs[n]) -> Seq(Tellings)] :
            /\ h[0] = <<>> /\ h[Len(fs[n])] = FlattenSeq(fs[n])
            /\ \A i \in 1 .. Len(fs[n]) : h[i] = h[i - 1] \o fs[n][i]
    BY <1>4, FlattenFacts
  <2>2. \A i \in 1 .. n : fs[n][i] = FoundOn(drives[i])
    BY <1>2
  <2> QED
    BY <1>4, <2>1, <2>2
<1>7. FlattenSeq(fs[0]) = <<>>
  <2>1. 0 \in 0 .. N
    OBVIOUS
  <2> QED
    BY <1>6, <2>1
<1>8. ASSUME NEW n \in 1 .. N PROVE FlattenSeq(fs[n]) = FlattenSeq(fs[n - 1]) \o FoundOn(drives[n])
  <2>1. PICK m \in 0 .. N : m = n - 1 /\ m \in Nat /\ n \in 0 .. N /\ n = m + 1
    OBVIOUS
  <2>2. PICK g \in [0 .. m -> Seq(Tellings)] :
            g[0] = <<>> /\ g[m] = FlattenSeq(fs[m]) /\ \A i \in 1 .. m : g[i] = g[i - 1] \o FoundOn(drives[i])
    BY <1>6
  <2>3. PICK h \in [0 .. n -> Seq(Tellings)] :
            h[0] = <<>> /\ h[n] = FlattenSeq(fs[n]) /\ \A i \in 1 .. n : h[i] = h[i - 1] \o FoundOn(drives[i])
    BY <1>6, <2>1
  <2>4. \A i \in 1 .. m : g[i - 1] = h[i - 1] => g[i] = h[i]
    <3>1. \A i \in 1 .. m : i \in 1 .. n
      BY <2>1
    <3> QED
      BY <2>2, <2>3, <3>1
  <2>5. g[m] = h[m]
    <3>1. m \in Nat /\ g[0] = h[0]
      BY <2>1, <2>2, <2>3
    <3> QED
      BY <2>4, <3>1, Alike
  <2>6. h[n] = h[m] \o FoundOn(drives[n])
    <3>1. n \in 1 .. n /\ n - 1 = m
      BY <2>1
    <3> QED
      BY <2>3, <3>1
  <2> QED
    BY <2>1, <2>2, <2>3, <2>5, <2>6
<1>9. Expected(0) = <<>>
  <2>1. 0 \in 0 .. N
    OBVIOUS
  <2> QED
    BY <1>3, <1>7, <2>1
<1>10. ASSUME NEW n \in 1 .. N PROVE Expected(n) = Expected(n - 1) \o FoundOn(drives[n])
  <2>1. n \in 0 .. N /\ n - 1 \in 0 .. N
    OBVIOUS
  <2>2. Expected(n) = FlattenSeq(fs[n]) /\ Expected(n - 1) = FlattenSeq(fs[n - 1])
    BY <1>3, <2>1
  <2> QED
    BY <1>8, <2>2
<1>11. \A n \in 0 .. N : Expected(n) \in Seq(Tellings)
  BY <1>3, <1>5
<1> QED
  BY <1>1, <1>9, <1>10, <1>11

LEMMA MountsAllMeans ==
    MountsAll <=> /\ IsPrefix(Shown(volumes), Expected(next - 1))
                  /\ phase = "panic" => Len(Shown(volumes)) = MaxDevices
                  /\ phase \notin UsedUp => Shown(volumes) = Expected(next - 1)
BY DEF MountsAll, Shown, Expected, UsedUp

LEMMA MountDriveMountsAll ==
    ASSUME ChainsEnd, LaidOut, StorageInv, MountsAll, MountDrive
    PROVE  MountsAll'
<1>1. PICK n \in 1 .. Len(drives) : n = next /\ n - 1 \in 0 .. Len(drives) /\ n \in 0 .. Len(drives) /\ phase = "boot"
  <2>1. drives \in Seq(DOMAIN Disks) /\ next \in 1 .. Len(drives)
    BY DisksAssumption DEF MountDrive, StorageInv
  <2> QED
    BY <2>1 DEF MountDrive
<1>2. PICK d \in DOMAIN Disks : d = drives[n]
  <2>1. drives \in Seq(DOMAIN Disks)
    BY DisksAssumption DEF StorageInv
  <2> QED
    BY <1>1, <2>1, ElementOfSeq
<1>3. PICK before \in Seq(Tellings), found \in Seq(Tellings) :
          /\ before = Shown(volumes) /\ found = FoundOn(d)
          /\ before = Expected(n - 1) /\ Expected(n) = before \o found
  BY <1>1, <1>2, ExpectedFacts, FoundOnFacts, MountsAllMeans DEF UsedUp
<1>4. PICK was : was = [volumes |-> volumes, buffers |-> buffers, phase |-> phase]
  OBVIOUS
<1>5. was \in MountStates /\ was.phase = "boot" /\ was.volumes = volumes
  BY <1>1, <1>4 DEF StorageInv, MountStates
<1>6. PICK s : s = OrPartitions(was, Mount(was, WholeDrive(d)), WholeDrive(d)) /\ Becomes(s)
  BY <1>1, <1>2, <1>4 DEF MountDrive
<1>7. Grown(before, found, s)
  BY <1>2, <1>3, <1>5, <1>6, DriveGrows
<1>8. /\ volumes' = s.volumes /\ next' = n + 1 /\ drives' = drives
      /\ (phase' = "panic" <=> s.phase = "panic") /\ (phase' \in UsedUp <=> s.phase \in UsedUp)
  BY <1>1, <1>6 DEF MountDrive, Becomes, UsedUp
<1>9. Expected(next - 1)' = before \o found
  <2>1. Expected(next - 1)' = Expected(n)
    BY <1>1, <1>8 DEF Expected
  <2> QED
    BY <1>3, <2>1
<1>10. PICK shown \in Seq(Tellings) : shown = Shown(s.volumes) /\ Len(shown) = Len(s.volumes)
  BY <1>7, ShownFacts DEF Grown, MountStates
<1>11. CASE s.phase \in UsedUp
  <2>1. PICK rest \in Seq(Tellings) : before \o found = shown \o rest /\ (s.phase = "panic" => Len(shown) = MaxDevices)
    BY <1>7, <1>10, <1>11 DEF Grown
  <2>2. IsPrefix(shown, shown \o rest)
    BY PrefixFacts
  <2>3. Shown(volumes)' = shown
    BY <1>8, <1>10 DEF Shown
  <2>4. /\ IsPrefix(Shown(volumes)', Expected(next - 1)') /\ phase' \in UsedUp
        /\ phase' = "panic" => Len(Shown(volumes)') = MaxDevices
    BY <1>8, <1>9, <1>11, <2>1, <2>2, <2>3
  <2> QED
    BY <2>4 DEF MountsAll, Shown, Expected, UsedUp
<1>12. CASE s.phase \notin UsedUp
  <2>1. shown = before \o found
    BY <1>7, <1>10, <1>12 DEF Grown
  <2>2. IsPrefix(shown, shown)
    <3>1. <<>> \in Seq(Tellings) /\ shown \o <<>> = shown
      BY ConcatEmptySeq
    <3> QED
      BY <3>1, PrefixFacts
  <2>3. Shown(volumes)' = shown
    BY <1>8, <1>10 DEF Shown
  <2>4. IsPrefix(Shown(volumes)', Expected(next - 1)') /\ phase' \notin UsedUp /\ Shown(volumes)' = Expected(next - 1)'
    BY <1>8, <1>9, <1>12, <2>1, <2>2, <2>3
  <2> QED
    BY <2>4 DEF MountsAll, Shown, Expected, UsedUp
<1> QED
  BY <1>11, <1>12

LEMMA MountsAllNext ==
    ASSUME ChainsEnd, LaidOut, StorageInv, MountsAll, [StorageNext]_storageVars
    PROVE  MountsAll'
<1>1. CASE MountDrive
  BY <1>1, MountDriveMountsAll
<1> DEFINE Stays == UNCHANGED <<drives, next, volumes>> /\ phase \notin UsedUp /\ phase' # "panic"
<1>2. CASE Stays
  <2>1. Shown(volumes)' = Shown(volumes) /\ Expected(next - 1)' = Expected(next - 1)
    BY <1>2 DEF Shown, Expected
  <2>2. /\ IsPrefix(Shown(volumes)', Expected(next - 1)')
        /\ phase' # "panic" /\ Shown(volumes)' = Expected(next - 1)'
    BY <1>2, <2>1, MountsAllMeans
  <2> QED
    BY <2>2 DEF MountsAll, Shown, Expected
<1>3. CASE UNCHANGED storageVars
  BY <1>3 DEF storageVars, MountsAll
<1>4. ASSUME NEW n \in DOMAIN volumes, NEW path \in Paths, NEW junk \in Junk,
             ListDir(n, path, junk) \/ OpenFile(n, path, junk)
      PROVE  Stays
  BY <1>4 DEF ListDir, OpenFile, AtPrompt, RunsOut, UsedUp
<1>5. ASSUME NEW length \in ReadLengths, ReadFile(length)
      PROVE  Stays
  BY <1>5 DEF ReadFile, RunsOut, UsedUp
<1>6. CASE Return
  BY <1>2, <1>6 DEF Return, UsedUp
<1> QED
  BY <1>1, <1>2, <1>3, <1>4, <1>5, <1>6 DEF StorageNext

LEMMA MountsAllInit == ASSUME LaidOut PROVE StorageInit => MountsAll
<1> SUFFICES ASSUME StorageInit PROVE MountsAll
  OBVIOUS
<1>1. StorageInv
  BY StorageInvInit
<1>2. next - 1 = 0 /\ volumes = <<>> /\ phase # "panic"
  BY DEF StorageInit
<1>3. Shown(volumes) = <<>> /\ Expected(next - 1) = <<>>
  BY <1>1, <1>2, ExpectedFacts DEF Shown
<1>4. IsPrefix(<<>>, <<>>)
  BY DEF IsPrefix
<1> QED
  BY <1>2, <1>3, <1>4, MountsAllMeans

(* Every volume that the drivers recognise is mounted, in the order of the *)
(* drives and of their partitions, from its own place and under its own    *)
(* label, and nothing else is, until the kernel stops: with its table full *)
(* when mount() panics, or for want of memory, however much of it there is *)
(* (mount_drive(), mount(), load_sectors()).  LaidOut says that Holds      *)
(* names what is recognised on each disk, one disk at a time.              *)
THEOREM AlwaysMountsAll == ASSUME ChainsEnd, LaidOut PROVE StorageSpec => []MountsAll
<1>1. StorageInit => MountsAll
  BY MountsAllInit
<1>2. StorageInv /\ MountsAll /\ [StorageNext]_storageVars => MountsAll'
  BY MountsAllNext
<1>3. StorageSpec => []StorageInv
  BY StorageTypes
<1> QED
  BY <1>1, <1>2, <1>3, PTL DEF StorageSpec

-----------------------------------------------------------------------------
(* Portions read, against the files the disks hold.                        *)

(* Where a path leads the driver through directories that it reads right,  *)
(* what is stored under it lies, byte by byte and with its size; a file or *)
(* directory on a FAT32 volume has a cluster to start from, and its chains *)
(* do not run into the free ones.  Nothing is said of what begins at a     *)
(* cluster beyond 16 bits.                                                 *)
TreeOf(v) == (CHOOSE held \in Range(Holds[v.dev.disk]) : held.offset = v.dev.offset).tree

FileLaidOut(v, found, stored) ==
    /\ stored.data \in Seq(0 .. 255) /\ found.size = Len(stored.data)
    /\ v.fs = "iso" => IsoInPlace(v.dev, found.inode, stored.data)
    /\ v.fs = "fat" /\ ~stored.pieces /\ stored.data # <<>> =>
           /\ InPlace(v, found.inode, stored.data)
           /\ v.type = "FAT32" => \A k \in Nat : k * ClusterBytes(v) < Len(stored.data) =>
                                                     0 \notin Range(Chain(v, found.inode + k))
DirLaidOut(v, found) ==
    v.fs = "fat" /\ v.type = "FAT32" => found.size = 0 /\ 0 \notin Range(Chain(v, found.inode))

TrustedIn(v, path) ==
    /\ v.fs = "fat" /\ v.bytesPerSector # SectorSize => Names(path) = <<>>
    /\ \A i \in 1 .. Len(Names(path)) :
           LET above == SubSeq(Names(path), 1, i) IN Names(above) \in DOMAIN TreeOf(v) => ~TreeOf(v)[above].far

Begins(v, stored) == v.fs = "fat" => ~stored.far

PathLaidOut(v, path, found) ==
    (/\ found # NotFound /\ Names(path) \in DOMAIN TreeOf(v)
     /\ TrustedIn(v, Front(Names(path))) /\ Begins(v, TreeOf(v)[Names(path)])) =>
        IF TreeOf(v)[Names(path)].kind = "file" THEN FileLaidOut(v, found, TreeOf(v)[Names(path)])
        ELSE DirLaidOut(v, found)

FilesLaidOut ==
    \A v \in FoundVolumes :
        /\ v.fs = "fat" /\ v.rootDirSectors = 0 => v.type = "FAT32"
        /\ \A path \in Paths, junk \in Junk : PathLaidOut(v, path, Resolve(v, path, junk))

(* A file in hand is one its path led to, and not read to its end.         *)
Opened(v, path, st) ==
    \E junk \in Junk : LET found == Resolve(v, path, junk)
                       IN found # NotFound /\ st.inode = found.inode /\ st.size = found.size
Unfinished(st) == st.position # st.size \/ st.size = 0

PortionInv ==
    /\ phase = "boot" => answer = NoAnswer
    /\ file # NoFile => Opened(volumes[file.v], file.path, file.state)
    /\ file # NoFile /\ answer.op # "read" => Unfinished(file.state)
    /\ PortionIsRight

InHand(v, path, st) ==
    /\ v \in FoundVolumes /\ VolumeOK(v) /\ Ends(v) /\ path \in Paths /\ st \in OpenStates
    /\ Opened(v, path, st) /\ Unfinished(st)
    /\ Names(path) \in DOMAIN TreeOf(v) /\ TrustedIn(v, Front(Names(path)))

LEMMA LaidFacts ==
    ASSUME FilesLaidOut, NEW v, NEW path, NEW st, InHand(v, path, st),
           NEW stored, stored = TreeOf(v)[Names(path)]
    PROVE  /\ Begins(v, stored) /\ stored.kind = "file" => FileLaidOut(v, st, stored)
           /\ Begins(v, stored) /\ stored.kind # "file" => DirLaidOut(v, st)
           /\ v.fs = "fat" /\ v.rootDirSectors = 0 => v.type = "FAT32"
<1>1. PICK junk, found : /\ junk \in Junk /\ found = Resolve(v, path, junk) /\ found # NotFound
                         /\ st.inode = found.inode /\ st.size = found.size
  BY DEF InHand, Opened
<1>2. PathLaidOut(v, path, found) /\ (v.fs = "fat" /\ v.rootDirSectors = 0 => v.type = "FAT32")
  BY <1>1 DEF FilesLaidOut, InHand
<1>3. /\ Begins(v, stored) /\ stored.kind = "file" => FileLaidOut(v, found, stored)
      /\ Begins(v, stored) /\ stored.kind # "file" => DirLaidOut(v, found)
  BY <1>1, <1>2 DEF PathLaidOut, InHand
<1>4. FileLaidOut(v, found, stored) => FileLaidOut(v, st, stored)
  BY <1>1, Zenon DEF FileLaidOut
<1>5. DirLaidOut(v, found) => DirLaidOut(v, st)
  BY <1>1, Zenon DEF DirLaidOut
<1> QED
  BY <1>2, <1>3, <1>4, <1>5

(* The read divides by zero only where it may.                             *)
LEMMA FaultIsReal ==
    ASSUME FilesLaidOut, NEW v, NEW path, NEW st, InHand(v, path, st), NEW length \in Nat,
           NEW stored, stored = TreeOf(v)[Names(path)], ReadTo(v, st, length).fault
    PROVE  v.type = "FAT32" /\ (stored.far \/ (stored.kind = "file" /\ (stored.data = <<>> \/ stored.pieces)))
<1>1. st \in OpenStates /\ VolumeOK(v) /\ Ends(v)
  BY DEF InHand
<1>2. v.fs = "fat" /\ FatReadFile(v, st, length).fault
  <2>1. v.fs = "iso" => ~ReadTo(v, st, length).fault
    BY <1>1, IsoReadFileFacts DEF ReadTo
  <2>2. v.fs \in {"fat", "iso"}
    BY <1>1 DEF VolumeOK
  <2> QED
    BY <2>1, <2>2 DEF ReadTo
<1>3. v.rootDirSectors = 0 /\ 0 \in Range(Chain(v, FirstCluster(v, st)))
  BY <1>1, <1>2, SolidReads
<1>4. v.type = "FAT32"
  BY <1>2, <1>3, LaidFacts
<1>5. PICK at \in Nat, size \in Nat, inode \in Nat : /\ at = st.position /\ size = st.size /\ inode = st.inode
                                                     /\ at <= size
  BY <1>1 DEF OpenStates
<1>6. PICK k \in Nat : FirstCluster(v, st) = inode + k /\ k * ClusterBytes(v) <= at
  <2>1. PICK b \in Nat \ {0}, n \in Nat \ {0} : b = v.bytesPerSector /\ n = v.sectorsPerCluster
    BY <1>1, <1>2 DEF VolumeOK
  <2>2. PICK z \in Nat \ {0} : z = b * n /\ z = ClusterBytes(v)
    BY <2>1, Located DEF ClusterBytes
  <2>3. FirstCluster(v, st) = inode + (at \div b) \div n
    BY <1>5, <2>1 DEF FirstCluster
  <2>4. (at \div b) \div n = at \div z /\ at \div z \in Nat /\ at % z \in 0 .. z - 1 /\ at = (at \div z) * z + (at % z)
    <3>1. /\ (at \div b) \div n = at \div (b * n) /\ b * n \in Nat \ {0}
          /\ at \div (b * n) \in Nat /\ at % (b * n) \in 0 .. b * n - 1
          /\ at = (at \div (b * n)) * (b * n) + (at % (b * n))
      BY Located
    <3> QED
      BY <2>2, <3>1, Zenon
  <2>5. PICK k \in Nat : k = at \div z
    BY <2>4
  <2>6. PICK p \in Nat : p = k * z
    OBVIOUS
  <2>7. p <= at
    BY <2>4, <2>5, <2>6
  <2> QED
    BY <2>2, <2>3, <2>4, <2>5, <2>6, <2>7
<1> SUFFICES ASSUME ~stored.far PROVE stored.kind = "file" /\ (stored.data = <<>> \/ stored.pieces)
  BY <1>4
<1>9. Begins(v, stored)
  BY DEF Begins
<1>7. stored.kind = "file"
  <2> SUFFICES ASSUME stored.kind # "file" PROVE FALSE
    OBVIOUS
  <2>1. size = 0 /\ 0 \notin Range(Chain(v, inode))
    BY <1>2, <1>4, <1>5, <1>9, LaidFacts DEF DirLaidOut
  <2>2. at = 0
    BY <1>5, <2>1
  <2>3. FirstCluster(v, st) = inode
    <3>1. PICK b \in Nat \ {0}, n \in Nat \ {0} : b = v.bytesPerSector /\ n = v.sectorsPerCluster
      BY <1>1, <1>2 DEF VolumeOK
    <3>2. 0 \div b = 0 /\ 0 \div n = 0
      OBVIOUS
    <3>3. (at \div b) \div n = 0
      BY <2>2, <3>2
    <3> QED
      BY <1>5, <3>1, <3>3 DEF FirstCluster
  <2> QED
    BY <1>3, <2>1, <2>3
<1>8. ASSUME stored.data # <<>>, ~stored.pieces PROVE FALSE
  <2>1. /\ stored.data \in Seq(0 .. 255) /\ size = Len(stored.data)
        /\ \A j \in Nat : j * ClusterBytes(v) < Len(stored.data) => 0 \notin Range(Chain(v, inode + j))
    BY <1>2, <1>4, <1>5, <1>7, <1>8, <1>9, LaidFacts DEF FileLaidOut
  <2>2. size # 0
    BY <1>8, <2>1, EmptySeq
  <2>3. at < size
    BY <1>5, <2>2 DEF InHand, Unfinished
  <2>4. PICK p \in Int : p = k * ClusterBytes(v) /\ p <= at
    <3>1. ClusterBytes(v) \in Nat \ {0}
      BY <1>1, <1>2, ClusterLength
    <3>2. k * ClusterBytes(v) \in Nat
      BY <3>1
    <3> QED
      BY <1>6, <3>2
  <2>5. p < Len(stored.data)
    BY <1>5, <2>1, <2>3, <2>4
  <2>6. 0 \notin Range(Chain(v, inode + k))
    BY <2>1, <2>4, <2>5
  <2> QED
    BY <1>3, <1>6, <2>6
<1> QED
  BY <1>7, <1>8

(* What PortionIsRight asks of a read that does not stop the kernel.       *)
RightPortion(v, stored, at, length, end, bytes) ==
    LET reach == Min({at + length, Len(stored.data)})
        oneCluster == at \div ClusterBytes(v) = (reach - 1) \div ClusterBytes(v)
        whole == ~stored.pieces /\ ~stored.far
    IN  stored.kind = "file" /\ (v.fs = "fat" => whole /\ (reach > at => oneCluster)) =>
            end = reach /\ bytes = SubSeq(stored.data, at + 1, reach)

LEMMA PortionOfFile ==
    ASSUME FilesLaidOut, NEW v, NEW path, NEW st, InHand(v, path, st), NEW length \in Nat,
           NEW stored, stored = TreeOf(v)[Names(path)], ~ReadTo(v, st, length).fault
    PROVE  RightPortion(v, stored, st.position, length, ReadTo(v, st, length).position, ReadTo(v, st, length).out)
<1>1. PICK reach : reach = Min({st.position + length, Len(stored.data)})
  OBVIOUS
<1>2. SUFFICES ASSUME stored.kind = "file",
                      v.fs = "fat" => ~stored.pieces /\ ~stored.far /\
                          (reach > st.position => st.position \div ClusterBytes(v) = (reach - 1) \div ClusterBytes(v))
               PROVE  /\ ReadTo(v, st, length).position = reach
                      /\ ReadTo(v, st, length).out = SubSeq(stored.data, st.position + 1, reach)
  BY <1>1, Zenon DEF RightPortion
<1>3. st \in OpenStates /\ VolumeOK(v) /\ Ends(v) /\ FileLaidOut(v, st, stored) /\ Unfinished(st)
  BY <1>2, LaidFacts DEF InHand, Begins
<1>4. PICK data \in Seq(0 .. 255) : data = stored.data /\ st.size = Len(data)
  BY <1>3 DEF FileLaidOut
<1>5. PICK at \in Nat, size \in Nat : at = st.position /\ size = st.size /\ at <= size
  BY <1>3 DEF OpenStates
<1>6. CASE v.fs = "fat" /\ data # <<>>
  <2>1. InPlace(v, st.inode, data)
    BY <1>2, <1>3, <1>4, <1>6 DEF FileLaidOut
  <2>2. st.position < st.size
    <3>1. size # 0
      BY <1>4, <1>5, <1>6, EmptySeq
    <3> QED
      BY <1>3, <1>5, <3>1 DEF Unfinished
  <2>3. reach = Min({st.position + length, Len(data)})
    BY <1>1, <1>4
  <2>4. reach > st.position => st.position \div ClusterBytes(v) = (reach - 1) \div ClusterBytes(v)
    BY <1>2, <1>6
  <2>5. FatReadFile(v, st, length) \in Delivered(st.size, reach, SubSeq(data, st.position + 1, reach))
    BY <1>3, <1>4, <1>6, <2>1, <2>2, <2>3, <2>4, FatPortion
  <2>6. ReadTo(v, st, length) = FatReadFile(v, st, length)
    BY <1>6 DEF ReadTo
  <2> QED
    BY <1>4, <2>5, <2>6 DEF Delivered
<1>7. CASE v.fs = "fat" /\ data = <<>>
  <2>1. st.size = 0 /\ at = 0
    BY <1>4, <1>5, <1>7
  <2>2. FatReadFile(v, st, length) \in Delivered(0, 0, <<>>)
    BY <1>3, <1>7, <2>1, EmptyPortion
  <2>3. ReadTo(v, st, length) = FatReadFile(v, st, length)
    BY <1>7 DEF ReadTo
  <2>4. ReadTo(v, st, length).position = 0 /\ ReadTo(v, st, length).out = <<>>
    BY <2>2, <2>3 DEF Delivered
  <2>5. reach = 0
    <3>1. PICK S : S = {length, 0}
      OBVIOUS
    <3>2. S \subseteq Nat /\ S # {}
      BY <3>1
    <3>3. Min(S) \in S /\ \A x \in S : Min(S) <= x
      BY <3>2, MinFacts
    <3>4. Min(S) = 0
      BY <3>1, <3>3
    <3>5. st.position + length = length /\ Len(stored.data) = 0
      BY <1>4, <1>5, <2>1
    <3> QED
      BY <1>1, <3>1, <3>4, <3>5
  <2>6. SubSeq(stored.data, st.position + 1, reach) = <<>>
    <3>1. 1 \in Int /\ 0 \in Int /\ 0 < 1 /\ at + 1 = 1
      BY <2>1
    <3>2. SubSeq(stored.data, 1, 0) = <<>>
      BY <3>1, SubSeqEmpty
    <3> QED
      BY <1>5, <2>5, <3>1, <3>2
  <2> QED
    BY <2>4, <2>5, <2>6
<1>8. CASE v.fs = "iso"
  <2>1. DeviceOK(v.dev) /\ IsoInPlace(v.dev, st.inode, data)
    BY <1>3, <1>4, <1>8 DEF FileLaidOut, VolumeOK
  <2>2. reach = Min({st.position + length, Len(data)})
    BY <1>1, <1>4
  <2>3. /\ IsoReadFile(v, st, length).out = SubSeq(data, st.position + 1, reach)
        /\ IsoReadFile(v, st, length).position = reach
    BY <1>3, <1>4, <2>1, <2>2, IsoPortion
  <2>4. ReadTo(v, st, length) = IsoReadFile(v, st, length)
    BY <1>8 DEF ReadTo
  <2> QED
    BY <1>4, <2>3, <2>4
<1> QED
  BY <1>3, <1>6, <1>7, <1>8 DEF VolumeOK

LEMMA RunsOutPortion ==
    ASSUME PortionInv, NEW n, NEW clusters, RunsOut(n, clusters), phase = "ready", answer = NoAnswer
    PROVE  PortionInv'
BY DEF RunsOut, PortionInv, PortionIsRight, Opened, Unfinished, NoAnswer

LEMMA ReadFilePortion ==
    ASSUME ChainsEnd, FilesLaidOut, StorageInv, PortionInv, NEW length \in ReadLengths, ReadFile(length)
    PROVE  PortionInv'
<1> SUFFICES ASSUME ~RunsOut(file.v, Chain(volumes[file.v], FirstCluster(volumes[file.v], file.state)))
             PROVE  PortionInv'
  BY RunsOutPortion DEF ReadFile
<1>1. file \in OpenFiles /\ file # NoFile /\ file.v \in DOMAIN volumes /\ file.state \in OpenStates /\ file.path \in Paths
  BY DEF StorageInv, ReadFile, OpenFiles
<1>2. PICK v, st, path : /\ v = volumes[file.v] /\ st = file.state /\ path = file.path
                         /\ VolumeOK(v) /\ Ends(v) /\ v \in FoundVolumes
  <2>1. volumes[file.v] \in FoundVolumes
    BY <1>1, ElementOfSeq DEF StorageInv
  <2> QED
    BY <1>1, <2>1, VolumeInHand
<1>3. PICK got : got = ReadTo(v, st, length)
  OBVIOUS
<1>4. length \in Nat
  BY StorageAssumption
<1>5. Opened(v, path, st) /\ Unfinished(st)
  BY <1>1, <1>2 DEF PortionInv, ReadFile, NoAnswer
<1>6. /\ answer'.op = "read" /\ answer'.v = file.v /\ answer'.path = path /\ answer'.at = st.position
      /\ answer'.length = length /\ answer'.end = got.position /\ answer'.out = got.out
  BY <1>2, <1>3 DEF ReadFile
<1>7. /\ phase = "ready" /\ phase' = (IF got.fault THEN "fault" ELSE phase)
      /\ file' = [file EXCEPT !.state.position = got.position] /\ volumes' = volumes
  BY <1>2, <1>3 DEF ReadFile
<1>8. phase' # "boot" /\ (phase' = "fault" <=> got.fault)
  <2>1. got.fault \in BOOLEAN
    BY <1>1, <1>2, <1>3, <1>4, ReadToFacts
  <2> QED
    BY <1>7, <2>1
<1>9. Opened(volumes[file.v], file.path, file.state)'
  <2>1. file'.v = file.v /\ file'.path = path /\ file'.state.inode = st.inode /\ file'.state.size = st.size
    BY <1>1, <1>2, <1>7 DEF OpenFiles, OpenStates
  <2>2. volumes'[file'.v] = v
    BY <1>2, <1>7, <2>1
  <2> QED
    BY <1>5, <2>1, <2>2 DEF Opened
<1>10. PortionIsRight'
  <2> SUFFICES ASSUME Names(path) \in DOMAIN TreeOf(v), TrustedIn(v, Front(Names(path))) PROVE PortionIsRight'
    BY <1>2, <1>6, <1>7 DEF PortionIsRight, Stored, Tree, TreeOf, Trusted, TrustedIn
  <2>1. InHand(v, path, st)
    BY <1>1, <1>2, <1>5 DEF InHand
  <2>2. PICK stored : stored = TreeOf(v)[Names(path)]
    OBVIOUS
  <2>3. got.fault => v.type = "FAT32" /\ (stored.far \/ (stored.kind = "file" /\ (stored.data = <<>> \/ stored.pieces)))
    BY <1>3, <1>4, <2>1, <2>2, FaultIsReal
  <2>4. ~got.fault => RightPortion(v, stored, st.position, length, got.position, got.out)
    BY <1>3, <1>4, <2>1, <2>2, PortionOfFile
  <2>5. v = (volumes[answer.v])' /\ stored = (Tree(answer.v)[Names(answer.path)])'
    BY <1>2, <1>6, <1>7, <2>2 DEF Tree, TreeOf
  <2>6. CASE got.fault
    <3>1. /\ phase' = "fault" /\ v.type = "FAT32"
          /\ stored.far \/ (stored.kind = "file" /\ (stored.data = <<>> \/ stored.pieces))
      BY <1>8, <2>3, <2>6
    <3> QED
      BY <2>5, <3>1, Zenon DEF PortionIsRight
  <2>7. CASE ~got.fault
    <3>1. phase' # "fault" /\ RightPortion(v, stored, answer'.at, answer'.length, answer'.end, answer'.out)
      BY <1>6, <1>8, <2>4, <2>7
    <3> QED
      BY <2>5, <3>1, Zenon DEF PortionIsRight, RightPortion
  <2> QED
    BY <2>6, <2>7
<1> QED
  BY <1>6, <1>8, <1>9, <1>10 DEF PortionInv

LEMMA OpenFilePortion ==
    ASSUME ChainsEnd, StorageInv, PortionInv,
           NEW n \in DOMAIN volumes, NEW path \in Paths, NEW junk \in Junk, OpenFile(n, path, junk)
    PROVE  PortionInv'
<1> SUFFICES ASSUME ~RunsOut(n, Searched(volumes[n], path, junk)) PROVE PortionInv'
  BY RunsOutPortion DEF OpenFile, AtPrompt
<1>1. PICK v, state : v = volumes[n] /\ state = Resolve(v, path, junk) /\ state \in FileStates
  <2>1. path \in Seq(Seq(STRING)) /\ junk \in NameBuffers
    BY DisksAssumption
  <2> QED
    BY <2>1, VolumeInHand, ResolveFacts
<1>2. /\ answer'.op = "open" /\ phase' = "ready" /\ volumes' = volumes
      /\ file' = IF state = NotFound THEN NoFile ELSE [path |-> path, v |-> n, state |-> state]
  BY <1>1 DEF OpenFile, AtPrompt
<1>3. ASSUME file' # NoFile
      PROVE  Opened(volumes[file.v], file.path, file.state)' /\ Unfinished(file.state)'
  <2>1. state # NotFound /\ file'.path = path /\ file'.v = n /\ file'.state = state
    BY <1>2, <1>3
  <2>2. Opened(v, path, state)
    BY <1>1, <2>1 DEF Opened
  <2>3. Unfinished(state)
    BY <1>1 DEF FileStates, Unfinished
  <2> QED
    BY <1>1, <1>2, <2>1, <2>2, <2>3 DEF Opened, Unfinished
<1> QED
  BY <1>2, <1>3 DEF PortionInv, PortionIsRight

LEMMA OtherPortions ==
    ASSUME PortionInv, MountDrive \/ Return \/ UNCHANGED storageVars
           \/ \E n \in DOMAIN volumes, path \in Paths, junk \in Junk : ListDir(n, path, junk),
           StorageInv
    PROVE  PortionInv'
<1>1. CASE MountDrive
  <2>1. phase = "boot" /\ answer = NoAnswer /\ answer' = NoAnswer /\ file = NoFile /\ file' = NoFile
    BY <1>1 DEF MountDrive, PortionInv, StorageInv
  <2>2. answer'.op # "read"
    BY <2>1 DEF NoAnswer
  <2> QED
    BY <2>1, <2>2 DEF PortionInv, PortionIsRight
<1>2. CASE Return
  <2>1. answer' = NoAnswer /\ answer'.op # "read" /\ volumes' = volumes
    BY <1>2 DEF Return, NoAnswer
  <2>2. file' = NoFile \/ (file' = file /\ (file # NoFile => Unfinished(file.state)))
    BY <1>2 DEF Return, PortionInv, Unfinished
  <2> QED
    BY <2>1, <2>2 DEF PortionInv, PortionIsRight, Opened, Unfinished
<1>3. ASSUME NEW n \in DOMAIN volumes, NEW path \in Paths, NEW junk \in Junk, ListDir(n, path, junk)
      PROVE  PortionInv'
  <2>1. /\ phase = "ready" /\ answer = NoAnswer
        /\ \/ \E clusters : RunsOut(n, clusters)
           \/ answer'.op = "dir" /\ file = NoFile /\ file' = NoFile /\ phase' = "ready"
    BY <1>3 DEF ListDir, AtPrompt
  <2> QED
    BY <2>1, RunsOutPortion DEF PortionInv, PortionIsRight
<1>4. CASE UNCHANGED storageVars
  <2>1. /\ answer' = answer /\ file' = file /\ phase' = phase /\ volumes' = volumes
    BY <1>4 DEF storageVars
  <2>2. PortionIsRight'
    <3>1. PortionIsRight
      BY DEF PortionInv
    <3> QED
      BY <2>1, <3>1 DEF PortionIsRight, Stored, Tree, Trusted
  <2>3. file' # NoFile => Opened(volumes[file.v], file.path, file.state)'
    BY <2>1 DEF PortionInv, Opened
  <2> QED
    BY <2>1, <2>2, <2>3 DEF PortionInv, Unfinished
<1> QED
  BY <1>1, <1>2, <1>3, <1>4

LEMMA PortionNext ==
    ASSUME ChainsEnd, FilesLaidOut, StorageInv, PortionInv, [StorageNext]_storageVars
    PROVE  PortionInv'
<1>1. ASSUME NEW n \in DOMAIN volumes, NEW path \in Paths, NEW junk \in Junk, OpenFile(n, path, junk)
      PROVE  PortionInv'
  BY <1>1, OpenFilePortion
<1>2. ASSUME NEW length \in ReadLengths, ReadFile(length) PROVE PortionInv'
  BY <1>2, ReadFilePortion
<1> QED
  BY <1>1, <1>2, OtherPortions DEF StorageNext

(* A portion delivered is that portion of the file (both read_file()): on  *)
(* an ISO 9660 volume always, and on a FAT volume for a file in one piece  *)
(* that begins within 16 bits, and a portion within a cluster.  Reading    *)
(* divides by zero only on a FAT32 volume, and there only in a file that   *)
(* is empty or in several pieces, or in what begins beyond 16 bits.        *)
(* FilesLaidOut says that the bytes lie where the path leads; the theorem  *)
(* is about how the driver gets from a position to a cluster or block, how *)
(* much of it it takes, and how it puts the parts together.                *)
THEOREM AlwaysPortionIsRight == ASSUME ChainsEnd, FilesLaidOut PROVE StorageSpec => []PortionIsRight
<1>1. StorageInit => PortionInv
  BY DEF StorageInit, PortionInv, PortionIsRight, NoAnswer
<1>2. StorageInv /\ PortionInv /\ [StorageNext]_storageVars => PortionInv'
  BY PortionNext
<1>3. StorageSpec => []StorageInv
  BY StorageTypes
<1>4. PortionInv => PortionIsRight
  BY DEF PortionInv
<1> QED
  BY <1>1, <1>2, <1>3, <1>4, PTL DEF StorageSpec

=============================================================================
