---------------------------- MODULE GripperBlocks ----------------------------
(***************************************************************************)
(* The two register blocks the SDK and a gripper trade: the command block  *)
(* the gripper reads and the status block it answers with.  A block is a   *)
(* record of the fields the control logic tells apart.  Speed and force    *)
(* always travel together and no decision of the SDK looks at them, so     *)
(* they are one field, drive.                                              *)
(***************************************************************************)
EXTENDS Naturals

CONSTANTS
    Position,   \* values of the position request byte rPR and its echo gPR
    Drive,      \* speed and force settings
    MaxDrive    \* full speed and full force, 0xFF and 0xFF

ASSUME ByteAssumption ==
    /\ Position \subseteq 0..255 /\ 0 \in Position
    /\ Drive \subseteq 0..255    /\ {0, MaxDrive} \subseteq Drive

(* GripperCommand: rACT, rGTO, the position request, speed and force.      *)
Command == [act : BOOLEAN, gto : BOOLEAN, pos : Position, drive : Drive]

(* GripperStatus: gACT and gGTO echo rACT and rGTO, moving stands for gOBJ *)
(* saying Moving, echo for gPR.                                            *)
Status == [act : BOOLEAN, gto : BOOLEAN, moving : BOOLEAN, echo : Position]

(* One completed exchange: the block carried and the status that answered. *)
Exchange == [command : Command, status : Status]

(* StampedExchange: an exchange and its exchangeCount.                     *)
Record == [count : Nat, command : Command, status : Status]

(* Value-initialized blocks.                                               *)
ZeroCommand == [act |-> FALSE, gto |-> FALSE, pos |-> 0, drive |-> 0]
ZeroStatus  == [act |-> FALSE, gto |-> FALSE, moving |-> FALSE, echo |-> 0]

Stamp(n, x) == [count |-> n, command |-> x.command, status |-> x.status]

(* Whether a gripper that applied block c may report status s: gACT and gPR *)
(* echo the block, and gGTO is reported only while rGTO asks for it.       *)
Reports(c, s) ==
    /\ s.act = c.act
    /\ s.echo = c.pos
    /\ s.gto => c.gto

(* Mutant: a new connection starts from the defaults.                      *)
SeedDefaults(s) ==
    [act |-> TRUE, gto |-> FALSE, pos |-> 0, drive |-> MaxDrive]

(* The command a new connection starts from: the defaults, with rACT, rGTO *)
(* and the position request as the gripper echoes them, so that attaching  *)
(* neither releases nor moves it.                                          *)
SeedCommand(s) ==
    [act |-> s.act, gto |-> s.gto, pos |-> s.echo, drive |-> MaxDrive]
=============================================================================
