---------------------------- MODULE MCModbusClient ----------------------------
(* Blocks of four registers, of which three travel, with a register before, *)
(* between and none after them; openings in tenths of a millimetre.         *)
EXTENDS ModbusClient

k2F85 == [minSpeed |-> 200, maxSpeed |-> 1500, minOpening |-> 0, maxOpening |-> 850,
          openPosition |-> 3, closedPosition |-> 230]
kHandE == [minSpeed |-> 200, maxSpeed |-> 1500, minOpening |-> 0, maxOpening |-> 500,
           openPosition |-> 3, closedPosition |-> 250]

MCGrippers == {k2F85, kHandE}
(* Both ends, one of them out of reach, and one between two registers. *)
MCOpenings == {0, 312, 900}
MCFaults == {5}
(* The action register alone, the register between the blocks, and one past *)
(* the file.                                                                *)
MCRawWrites == {<<1, 0>>, <<1, 256>>, <<1, 9 * 256>>, <<5, 1>>, <<10, 256>>}
=============================================================================
