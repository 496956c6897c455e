---------------------------- MODULE ModbusClient ----------------------------
(***************************************************************************)
(* GripperModbusClient over the transports a driver is made with: a Modbus *)
(* RTU line to a gripper (ModbusLink), or the fake gripper in the same     *)
(* process (FakeGripper), which answers before a write returns.            *)
(***************************************************************************)
EXTENDS ModbusLink, FakeGripper

VARIABLE transport   \* the Serial the client was given

ClientInit ==
    /\ transport \in {"line", "fake"}
    /\ LinkInit
    /\ Init

ClientNext ==
    \/ transport = "line" /\ LinkNext /\ UNCHANGED <<vars, transport>>
    \/ transport = "fake" /\ Next /\ UNCHANGED <<linkVars, transport>>

ClientSpec == ClientInit /\ [][ClientNext]_<<vars, linkVars, transport>>
=============================================================================
