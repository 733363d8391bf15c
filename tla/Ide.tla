-------------------------------- MODULE Ide ---------------------------------
(***************************************************************************)
(* The IDE driver of core/drivers/ide.cpp on one bus (the two buses share  *)
(* nothing): detection at boot, then transfers in portions by polling.     *)
(*                                                                         *)
(* The drives are the environment.  A drive takes up to 400 ns to show     *)
(* that it is busy with a command ("late": its status still shows how the  *)
(* last command ended), works for as long as it likes and can fail.  While *)
(* it is not idle it ignores the command block, drive select included.     *)
(*                                                                         *)
(* A sector's content is its address: what a read delivers is the drive    *)
(* and number of the sector it came from.                                  *)
(***************************************************************************)
EXTENDS Integers, Sequences

CONSTANTS
    LbaLow,         \* sector numbers that fit the three low registers: 2^24
    LbaHigh,        \* values of the four bits in the drive register: 16
    Sectors,        \* the length of a disk
    MaxPortion      \* sectors in one command: 255

ASSUME IdeAssumption == /\ {LbaLow, LbaHigh, Sectors, MaxPortion} \subseteq Nat \ {0}
                        /\ Sectors <= LbaLow * LbaHigh

VARIABLES
    kind,       \* what is connected as master and as slave
    sel, high,  \* the drive register: the selected drive and its LBA bits
    drive,      \* the selected drive: phase, command, next sector, sectors left
    err,        \* the drives whose status shows an error
    devices,    \* kide::devices
    pc, call,   \* the driver and the call it serves
    done,       \* totalRead or written of the call
    idx,        \* sectorIdx of the command
    out,        \* the caller's buffer
    heard,      \* every drive select of the call took effect
    faulted,    \* the drive failed the present command
    missed      \* cells of the call that a drive failed to serve

driveVars == <<sel, high, drive, err>>
callVars == <<call, done, idx, out, missed>>
vars == <<kind, sel, high, drive, err, devices, pc, call, done, idx, out, heard, faulted, missed>>

Drives == {"master", "slave"}
Kinds == {"disk", "chs", "packet", "none"}      \* chs: a disk without LBA
NoSector == <<"none", 0>>
Sector == {NoSector} \cup Drives \X (0 .. Sectors - 1)
Idle == [phase |-> "idle", cmd |-> "none", lba |-> 0, left |-> 0]

Init == /\ kind \in [Drives -> Kinds]
        /\ sel = "master" /\ high = 0 /\ drive = Idle /\ err = {}
        /\ devices = <<>> /\ pc = "boot"
        /\ call = [op |-> "identify", drive |-> "master", start |-> 0, count |-> 1]
        /\ done = 0 /\ idx = 0 /\ out = <<>>
        /\ heard = TRUE /\ faulted = FALSE /\ missed = {}

Reading(op) == op \in {"read", "identify"}
Portion == IF call.count - done < MaxPortion THEN call.count - done ELSE MaxPortion
Cell == done + idx
Busy == drive.phase = "busy"
Present == kind[sel] # "none"

-----------------------------------------------------------------------------
(* The drives.                                                             *)

Accepts == /\ drive.phase = "late"
           /\ drive' = [drive EXCEPT !.phase = "busy"]
           /\ err' = err \ {sel}
           /\ UNCHANGED <<kind, sel, high, devices, pc, callVars, heard, faulted>>

Serves == \/ drive.cmd = "identify" /\ kind[sel] # "packet"
          \/ drive.cmd \in {"read", "write"} /\ (drive.lba < Sectors \/ drive.left = 0)
          \/ drive.cmd = "flush"

Proceeds == /\ Busy /\ Serves
            /\ drive' = IF drive.left > 0 THEN [drive EXCEPT !.phase = "data"] ELSE Idle
            /\ UNCHANGED <<kind, sel, high, err, devices, pc, callVars, heard, faulted>>

Fails == /\ Busy
         /\ drive' = Idle
         /\ err' = err \cup {sel}
         /\ faulted' = TRUE
         /\ missed' = IF drive.left > 0 THEN missed \cup (Cell .. done + Portion - 1) ELSE missed
         /\ UNCHANGED <<kind, sel, high, devices, pc, call, done, idx, out, heard>>

Drive == Accepts \/ Proceeds \/ Fails

(* A command written to the bus, with the sector the registers now give.   *)
Issue(cmd, low, left) ==
    IF drive.phase = "idle" /\ Present
    THEN /\ drive' = [phase |-> "late", cmd |-> cmd, lba |-> high * LbaLow + low, left |-> left]
         /\ faulted' = FALSE
    ELSE UNCHANGED <<drive, faulted>>

-----------------------------------------------------------------------------
(* Both: select, command, poll.                                            *)

(* The status of a bus without drives reads 0xFF.                          *)
FloatingBus == /\ pc = "boot" /\ \A d \in Drives : kind[d] = "none"
               /\ pc' = "idle"
               /\ UNCHANGED <<kind, driveVars, devices, callVars, heard, faulted>>

FindDrives == /\ pc = "boot" /\ \E d \in Drives : kind[d] # "none"
              /\ pc' = "select"
              /\ UNCHANGED <<kind, driveVars, devices, callVars, heard, faulted>>

LbaTop == ((call.start + done) \div LbaLow) % LbaHigh

SelectDrive ==
    /\ pc = "select"
    /\ IF drive.phase = "idle"
       THEN sel' = call.drive /\ high' = LbaTop
       ELSE UNCHANGED <<sel, high>>
    /\ heard' = (heard /\ <<sel', high'>> = <<call.drive, LbaTop>>)
    /\ pc' = IF call.op = "identify" THEN "command" ELSE "ready"
    /\ UNCHANGED <<kind, drive, err, devices, callVars, faulted>>

(* The select waits 400 ns, then BSY is awaited.                           *)
Ready == /\ pc = "ready" /\ drive.phase \notin {"late", "busy"}
         /\ pc' = "command"
         /\ UNCHANGED <<kind, driveVars, devices, callVars, heard, faulted>>

MutCommand == /\ pc = "command"
              /\ Issue(call.op, call.start % LbaLow, Portion)
              /\ idx' = 0
              /\ pc' = IF call.op = "identify" THEN "present" ELSE "delay"
              /\ UNCHANGED <<kind, sel, high, err, devices, call, done, out, heard, missed>>

Command == /\ pc = "command"
           /\ Issue(call.op, (call.start + done) % LbaLow, Portion)
           /\ idx' = 0
           /\ pc' = IF call.op = "identify" THEN "present" ELSE "delay"
           /\ UNCHANGED <<kind, sel, high, err, devices, call, done, out, heard, missed>>

MutDelay == /\ pc = "delay"
            /\ pc' = "poll"
            /\ UNCHANGED <<kind, driveVars, devices, callVars, heard, faulted>>

(* Four reads of the status, after which the drive shows its own.          *)
Delay == /\ pc = "delay" /\ drive.phase # "late"
         /\ pc' = "poll"
         /\ UNCHANGED <<kind, driveVars, devices, callVars, heard, faulted>>

AfterCommand == CASE call.op = "identify" -> "rejected"
                  [] call.op = "read" -> "next"
                  [] call.op = "write" -> "flush"

MutPollError == FALSE

PollError == /\ pc = "poll" /\ ~Busy /\ sel \in err
             /\ pc' = AfterCommand
             /\ UNCHANGED <<kind, driveVars, devices, callVars, heard, faulted>>

(* One sector; the data request goes away within the 400 ns that follow.   *)
MutTransfer ==
    /\ pc = "poll" /\ drive.phase = "data" /\ sel \notin err
    /\ out' = IF call.op = "read" THEN [out EXCEPT ![idx] = <<sel, drive.lba>>] ELSE out
    /\ idx' = idx + 1
    /\ drive' = IF Reading(call.op) /\ drive.left = 1 THEN Idle
                ELSE [drive EXCEPT !.phase = "busy", !.lba = @ + 1, !.left = @ - 1]
    /\ pc' = IF idx' < Portion THEN "poll"
             ELSE IF call.op = "identify" THEN "analyze" ELSE AfterCommand
    /\ UNCHANGED <<kind, sel, high, err, devices, call, done, heard, faulted, missed>>

Transfer ==
    /\ pc = "poll" /\ drive.phase = "data" /\ sel \notin err
    /\ out' = IF call.op = "read" THEN [out EXCEPT ![Cell] = <<sel, drive.lba>>] ELSE out
    /\ idx' = idx + 1
    /\ drive' = IF Reading(call.op) /\ drive.left = 1 THEN Idle
                ELSE [drive EXCEPT !.phase = "busy", !.lba = @ + 1, !.left = @ - 1]
    /\ pc' = IF idx' < Portion THEN "poll"
             ELSE IF call.op = "identify" THEN "analyze" ELSE AfterCommand
    /\ UNCHANGED <<kind, sel, high, err, devices, call, done, heard, faulted, missed>>

-----------------------------------------------------------------------------
(* ata_register_device(): master, then slave.                              *)

CheckPresent == /\ pc = "present"
                /\ pc' = IF Present THEN "type" ELSE "rejected"
                /\ UNCHANGED <<kind, driveVars, devices, callVars, heard, faulted>>

(* The signature is in the registers once the packet drive has refused.    *)
ReadDevType == /\ pc = "type" /\ ~Busy
               /\ pc' = IF kind[sel] = "packet" /\ drive.phase = "idle" THEN "rejected" ELSE "delay"
               /\ UNCHANGED <<kind, driveVars, devices, callVars, heard, faulted>>

RegisterNext == /\ IF call.drive = "master"
                   THEN call' = [call EXCEPT !.drive = "slave"] /\ pc' = "select"
                   ELSE call' = call /\ pc' = "idle"
                /\ UNCHANGED <<kind, driveVars, done, idx, out, heard, faulted, missed>>

MutAnalyzeIdentify == /\ pc = "analyze"
                      /\ devices' = Append(devices, call.drive)
                      /\ RegisterNext

AnalyzeIdentify == /\ pc = "analyze"
                   /\ devices' = IF kind[sel] = "disk" THEN Append(devices, call.drive) ELSE devices
                   /\ RegisterNext

Rejected == pc = "rejected" /\ devices' = devices /\ RegisterNext

-----------------------------------------------------------------------------
(* IDEDeviceImpl::read() and write(), which ignore what a portion returns. *)

Call(op, d, start, count) ==
    /\ pc = "idle"
    /\ call' = [op |-> op, drive |-> d, start |-> start, count |-> count]
    /\ done' = 0 /\ idx' = 0 /\ missed' = {}
    /\ out' = [i \in 0 .. count - 1 |-> NoSector]
    /\ heard' = TRUE
    /\ pc' = "select"
    /\ UNCHANGED <<kind, driveVars, devices, faulted>>

CallAny == \E op \in {"read", "write"}, i \in 1 .. Len(devices), start \in 0 .. Sectors - 1 :
               \E count \in 1 .. Sectors - start : Call(op, devices[i], start, count)

Flush == /\ pc = "flush"
         /\ Issue("flush", 0, 0)
         /\ pc' = "next"
         /\ UNCHANGED <<kind, sel, high, err, devices, callVars, heard>>

MutNextPortion == /\ pc = "next"
                  /\ done' = done + MaxPortion
                  /\ idx' = 0
                  /\ pc' = IF done' < call.count THEN "select" ELSE "idle"
                  /\ UNCHANGED <<kind, driveVars, devices, call, out, heard, faulted, missed>>

NextPortion == /\ pc = "next"
               /\ done' = done + Portion
               /\ idx' = 0
               /\ pc' = IF done' < call.count THEN "select" ELSE "idle"
               /\ UNCHANGED <<kind, driveVars, devices, call, out, heard, faulted, missed>>

Host == \/ FloatingBus \/ FindDrives \/ SelectDrive \/ Ready \/ Command \/ Delay
        \/ PollError \/ Transfer \/ CheckPresent \/ ReadDevType \/ AnalyzeIdentify
        \/ Rejected \/ Flush \/ NextPortion

Next == Drive \/ Host \/ CallAny

(* A drive ends what it does, and the driver is straight code.             *)
Spec == Init /\ [][Next]_vars /\ WF_vars(Drive) /\ WF_vars(Host)

-----------------------------------------------------------------------------

(* Types; the cells of a transfer stay inside the caller's buffer.         *)
TypeOK ==
    /\ kind \in [Drives -> Kinds]
    /\ sel \in Drives /\ high \in 0 .. LbaHigh - 1 /\ err \subseteq Drives
    /\ drive \in [phase : {"idle", "late", "busy", "data"}, left : 0 .. MaxPortion,
                  cmd : {"none", "identify", "read", "write", "flush"}, lba : 0 .. LbaLow * LbaHigh]
    /\ devices \in {<<>>, <<"master">>, <<"slave">>, <<"master", "slave">>}
    /\ pc \in {"boot", "select", "ready", "command", "present", "type", "delay", "poll",
               "analyze", "rejected", "flush", "next", "idle"}
    /\ call \in [op : {"identify", "read", "write"}, drive : Drives,
                 start : 0 .. Sectors - 1, count : 1 .. Sectors]
    /\ Cell \in 0 .. call.count
    /\ call.op # "identify" => out \in [0 .. call.count - 1 -> Sector]
    /\ missed \subseteq 0 .. call.count - 1 /\ {heard, faulted} \subseteq BOOLEAN

(* After the boot the registered devices are disks with LBA, and a disk    *)
(* is missing only if it failed IDENTIFY: the late signature of a packet   *)
(* drive or its refusal never makes it a disk.  ata_identify().            *)
OnlyDisksRegistered ==
    /\ \A i \in 1 .. Len(devices) : kind[devices[i]] = "disk"
    /\ \A i, j \in 1 .. Len(devices) : devices[i] = devices[j] => i = j
    /\ pc = "idle" /\ call.op = "identify" =>
           \A d \in Drives : kind[d] = "disk" /\ d \notin err => \E i \in 1 .. Len(devices) : devices[i] = d

(* When read() returns, every cell holds its own sector, whatever portions *)
(* it took and wherever the 28-bit number was split over the registers; a  *)
(* failed portion leaves its cells untouched and shifts none of the later. *)
ReadIsRight ==
    pc = "idle" /\ call.op = "read" /\ heard =>
        \A i \in 0 .. call.count - 1 :
            out[i] = IF i \in missed THEN NoSector ELSE <<call.drive, call.start + i>>

(* write() puts cell i into sector start + i of its drive and into no      *)
(* other, over portions, failures and the cache flush in between.          *)
WritesWhereAsked ==
    [][Transfer /\ call.op = "write" /\ heard =>
           <<sel, drive.lba>> = <<call.drive, call.start + Cell>>]_vars

(* The driver reports an error only if the drive failed this very command: *)
(* the delay keeps it from seeing how the one before ended.                *)
FailureIsReal == [][PollError => faulted]_vars

(* Detection and every call end: no polling loop waits for a drive that    *)
(* has failed, is missing or did not hear the command.                     *)
EveryCallEnds == pc # "idle" ~> pc = "idle"
=============================================================================
