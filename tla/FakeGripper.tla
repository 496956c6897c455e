------------------------------ MODULE FakeGripper ------------------------------
(***************************************************************************)
(* The fake gripper behind makeFakeGripper: RegisterModel (the device),    *)
(* GripperServer (its Modbus server) and GripperSerial (the transport),    *)
(* driven by GripperModbusClient's calls and by raw register accesses.     *)
(* Everything is synchronous: a write delivers a request and the reply is  *)
(* there when it returns.                                                  *)
(***************************************************************************)
EXTENDS Units, Sequences

CONSTANTS
    kCommandAddress, kStatusAddress,  \* where the two blocks begin
    kBlockRegisters,                  \* registers per block
    kRegisterCountOnWire,             \* of which the client transfers these
    Grippers,                         \* profiles an application may scale by
    Openings,                         \* openings it may ask for
    Faults,                           \* fault bytes staged in the device
    RawWrites                         \* single-register writes: <<address, value>>

UINT16_MAX == 65535
Word == 0..UINT16_MAX

ASSUME RegisterAssumption ==
    /\ {kCommandAddress, kStatusAddress} \subseteq Nat
    /\ {kBlockRegisters, kRegisterCountOnWire} \subseteq Nat
    /\ kRegisterCountOnWire \in 3..kBlockRegisters
    /\ kCommandAddress + kBlockRegisters <= kStatusAddress
    /\ Grippers \subseteq Profile
    /\ Openings \subseteq Int
    /\ Faults \subseteq 1..255
    /\ RawWrites \subseteq Nat \X Word

kRegisterCount == kStatusAddress + kBlockRegisters
kReportedCurrent == 42
Registers == 0..(kRegisterCount - 1)

VARIABLES
    registers,             \* the register file
    previousActivateBit,   \* rACT edge tracking
    activationDone,
    toClient,              \* reply words the client has not taken
    at,                    \* where the client's call stands
    wanted,                \* words of the reply it still has to take
    asked,                 \* the opening and the profile of its command, if any
    status                 \* the block its last exchange or read returned

deviceVars == <<registers, previousActivateBit, activationDone>>
vars == <<deviceVars, toClient, at, wanted, asked, status>>

-----------------------------------------------------------------------------
(* Blocks and registers: two bytes a register, the first one high.         *)
registersFromBytes(b, n) == [i \in 0..(n - 1) |-> 256 * b[2 * i] + b[2 * i + 1]]

bytesFromRegisters(r, n) ==
    [i \in 0..(2 * n - 1) |-> IF i % 2 = 0 THEN r[i \div 2] \div 256
                                           ELSE r[i \div 2] % 256]

Bit(flag) == IF flag THEN 1 ELSE 0

(* GripperCommand: rACT and rGTO in byte 0, rPR in byte 3, rSP in byte 4.  *)
CommandBytes(c) ==
    [i \in 0..(2 * kBlockRegisters - 1) |->
       CASE i = 0 -> Bit(c.act) + 8 * Bit(c.gto)
         [] i = 3 -> c.pos
         [] i = 4 -> c.speed
         [] OTHER -> 0]

CommandOf(b) == [act |-> b[0] % 2 = 1, gto |-> (b[0] \div 8) % 2 = 1,
                 pos |-> b[3], speed |-> b[4]]

(* GripperStatus: gACT, gGTO, gSTA and gOBJ in byte 0, then the rest.      *)
StatusBytes(s) ==
    [i \in 0..(2 * kBlockRegisters - 1) |->
       CASE i = 0 -> Bit(s.act) + 8 * Bit(s.gto) + 16 * s.sta + 64 * s.obj
         [] i = 2 -> s.fault
         [] i = 3 -> s.echo
         [] i = 4 -> s.pos
         [] i = 5 -> s.current
         [] OTHER -> 0]

StatusOf(b) == [act |-> b[0] % 2 = 1, gto |-> (b[0] \div 8) % 2 = 1,
                sta |-> (b[0] \div 16) % 4, obj |-> b[0] \div 64,
                fault |-> b[2], echo |-> b[3], pos |-> b[4], current |-> b[5]]

BlockAt(r, address) == [i \in 0..(kBlockRegisters - 1) |-> r[address + i]]
BytesAt(r, address) == bytesFromRegisters(BlockAt(r, address), kBlockRegisters)

command(r) == CommandOf(BytesAt(r, kCommandAddress))
statusIn(r) == StatusOf(BytesAt(r, kStatusAddress))

(* The file with the words of a block, or of part of one, from address on. *)
Stored(r, address, n, words) ==
    [i \in Registers |-> IF i \in address..(address + n - 1)
                           THEN words[i - address] ELSE r[i]]

setStatus(r, s) ==
    Stored(r, kStatusAddress, kBlockRegisters,
           registersFromBytes(StatusBytes(s), kBlockRegisters))

(* Mutant: clearing rACT does not reset the activation.                    *)
DoneKept(act) == activationDone \/ act

(* A rising edge completes the activation at once, rACT clear resets it.   *)
Done(act) == act /\ (activationDone \/ ~previousActivateBit)

(* Mutant: the fault goes with any new command.                            *)
FaultForgotten(act, fault) == 0

FaultKept(act, fault) == IF act THEN fault ELSE 0

processCommand(c, fault) ==
    LET complete == Done(c.act)
    IN  [act |-> c.act, gto |-> complete /\ c.gto,
         sta |-> IF complete THEN 3 ELSE 0,
         obj |-> IF complete /\ c.gto THEN 3 ELSE 0,
         fault |-> FaultKept(c.act, fault), echo |-> c.pos, pos |-> c.pos,
         current |-> kReportedCurrent]

-----------------------------------------------------------------------------
(* The device and its server.                                              *)

containsRange(address, quantity) == address + quantity - 1 < kRegisterCount

InCommandBlock(i) == i \in kCommandAddress..(kCommandAddress + kBlockRegisters - 1)

read(r, address, quantity) ==
    [k \in 1..quantity |-> IF InCommandBlock(address + k - 1) THEN 0
                                                  ELSE r[address + k - 1]]

(* The registers are stored, then the device acts on the command block     *)
(* they leave.                                                             *)
write(address, quantity, words) ==
    LET stored == Stored(registers, address, quantity, words)
        c == command(stored)
    IN  /\ registers' = setStatus(stored, processCommand(c, statusIn(stored).fault))
        /\ activationDone' = Done(c.act)
        /\ previousActivateBit' = c.act

(* A reply: its function code, its registers and its checksum.             *)
Answer(words) == <<"head">> \o words \o <<"foot">>
Refusal == <<"exception", "code", "foot">>

(* Mutant: the last word stays in the queue.                               *)
drainShort(max) == IF max >= Len(toClient) THEN Len(toClient) - 1 ELSE max

drain(max) == IF max < Len(toClient) THEN max ELSE Len(toClient)

Replies(words) == toClient' = toClient \o words
Refuses == Replies(Refusal) /\ UNCHANGED deviceVars

-----------------------------------------------------------------------------
(* The server: nanomodbus's handlers, which answer a request within the    *)
(* client's own write.  A range outside the registers is refused.          *)
handle_read_registers(address, quantity) ==
    \/ /\ containsRange(address, quantity)
       /\ Replies(Answer(read(registers, address, quantity)))
       /\ UNCHANGED deviceVars
    \/ ~containsRange(address, quantity) /\ Refuses

handle_write_multiple_registers(address, quantity, words) ==
    \/ /\ containsRange(address, quantity)
       /\ write(address, quantity, words)
       /\ Replies(Answer(<<>>))
    \/ ~containsRange(address, quantity) /\ Refuses

(* Written first, then read.  Only the exchange asks for it, always with   *)
(* ranges that exist.                                                      *)
handle_read_write_registers(from, to, quantity, words) ==
    /\ write(to, quantity, words)
    /\ Replies(Answer(read(registers', from, quantity)))

-----------------------------------------------------------------------------
(* The client.  Before a request nanomodbus empties the line: a read with  *)
(* a zero timeout, which GripperSerial answers with nothing.               *)
Sends(opening, quantity) ==
    /\ at = "idle"
    /\ at' = "head"
    /\ asked' = opening
    /\ wanted' = quantity
    /\ UNCHANGED status

readStatus ==
    /\ Sends({}, kRegisterCountOnWire)
    /\ handle_read_registers(kStatusAddress, kRegisterCountOnWire)

(* A command for an opening, at any speed the profile allows for.          *)
CommandFor(p, o, act, gto) ==
    { [act |-> act, gto |-> gto, pos |-> pos, speed |-> speed] :
        pos \in openingToRegister([num |-> o, den |-> 1], p),
        speed \in speedToRegister(p.maxSpeed, p) }

CommandWords(c) == registersFromBytes(CommandBytes(c), kRegisterCountOnWire)

(* FC 0x10                                                                 *)
writeCommand(c) ==
    /\ Sends({}, 0)
    /\ handle_write_multiple_registers(kCommandAddress, kRegisterCountOnWire,
                                       CommandWords(c))

(* FC 0x17                                                                 *)
exchange(p, o, c) ==
    /\ Sends({[profile |-> p, opening |-> o]}, kRegisterCountOnWire)
    /\ handle_read_write_registers(kStatusAddress, kCommandAddress,
                                   kRegisterCountOnWire, CommandWords(c))

(* Requests only a raw frame makes: other addresses, one register.         *)
RawRead(address) ==
    /\ Sends({}, 1)
    /\ handle_read_registers(address, 1)

RawWrite(address, word) ==
    /\ Sends({}, 0)
    /\ handle_write_multiple_registers(address, 1, [i \in {0} |-> word])

(* recv_res_header, of an answer and of an exception; the latter takes the *)
(* code and the checksum too.                                              *)
TakeHead ==
    /\ at = "head"
    /\ toClient # <<>>
    /\ toClient' = SubSeq(toClient, drain(1) + 1, Len(toClient))
    /\ at' = IF Head(toClient) = "head" THEN "rest" ELSE "refused"
    /\ UNCHANGED <<deviceVars, wanted, asked, status>>

TakeRest ==
    /\ at = "rest"
    /\ LET taken == drain(wanted + 1)
           words == SubSeq(toClient, 1, wanted)
       IN  /\ toClient' = SubSeq(toClient, taken + 1, Len(toClient))
           /\ status' = IF wanted = kRegisterCountOnWire
                          THEN bytesFromRegisters([i \in 0..(wanted - 1) |-> words[i + 1]],
                                                  wanted)
                          ELSE status
    /\ at' = "idle"
    /\ UNCHANGED <<deviceVars, wanted, asked>>

TakeException ==
    /\ at = "refused"
    /\ toClient' = SubSeq(toClient, drain(2) + 1, Len(toClient))
    /\ at' = "idle"
    /\ UNCHANGED <<deviceVars, wanted, asked, status>>

(* A caller staging a device state reaches into the registers.             *)
Stage(fault) ==
    /\ at = "idle"
    /\ registers' = setStatus(registers, [statusIn(registers) EXCEPT !.fault = fault])
    /\ UNCHANGED <<previousActivateBit, activationDone, toClient, at, wanted, asked,
                   status>>

Init ==
    /\ registers = [i \in Registers |-> 0]
    /\ previousActivateBit = FALSE
    /\ activationDone = FALSE
    /\ toClient = <<>>
    /\ at = "idle"
    /\ wanted = 0
    /\ asked = {}
    /\ status = [i \in 0..(2 * kRegisterCountOnWire - 1) |-> 0]

Next ==
    \/ readStatus
    \/ \E p \in Grippers, o \in Openings, act, gto \in BOOLEAN :
         \E c \in CommandFor(p, o, act, gto) : writeCommand(c) \/ exchange(p, o, c)
    \/ \E address \in 0..kRegisterCount : RawRead(address)
    \/ \E w \in RawWrites : RawWrite(w[1], w[2])
    \/ TakeHead \/ TakeRest \/ TakeException
    \/ \E fault \in Faults : Stage(fault)

Spec == Init /\ [][Next]_vars

-----------------------------------------------------------------------------
(* PROPERTIES                                                              *)

(* A call takes its reply whole, an answer or a refusal, so that the next  *)
(* one finds nothing of it: what GripperSerial's empty answer to a read    *)
(* without a timeout relies on (gripper_serial.cpp, "drains see no stale   *)
(* bytes").                                                                *)
NothingLeftBehind == at = "idle" => toClient = <<>>

(* An opening asked for through units, packed, sent, acted on and read     *)
(* back in a status comes back within half a register step of the nearest  *)
(* opening the gripper has.                                                *)
OpeningReadsBack ==
    at = "idle" =>
      \A a \in asked : \A back \in openingFromRegister(status[4], a.profile) :
        LET nearest == Clamp(a.opening, a.profile.minOpening, a.profile.maxOpening)
            off == back.num - nearest * back.den
        IN  2 * off <= openingRange(a.profile) /\ -2 * off <= openingRange(a.profile)

(* The status block always reports on the command block the registers      *)
(* hold, whichever of its registers were written and in which order:       *)
(* complete exactly while rACT is set, moved exactly while rGTO is too.    *)
StatusFollowsCommand ==
    LET c == command(registers)
        s == statusIn(registers)
    IN  /\ s.act = c.act /\ (s.sta = 3) = c.act /\ s.gto = (c.act /\ c.gto)
        /\ activationDone = c.act /\ previousActivateBit = c.act

(* A fault the device has stays until the command block has rACT clear.    *)
FaultLatches ==
    [][statusIn(registers).fault # 0 /\ command(registers').act
         => statusIn(registers').fault # 0]_vars
=============================================================================
