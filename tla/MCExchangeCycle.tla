--------------------------- MODULE MCExchangeCycle ---------------------------
(* Small instances of ExchangeCycle: two positions, one speed setting. *)
EXTENDS ExchangeCycle

At(p) == [act |-> TRUE, gto |-> TRUE, pos |-> p, drive |-> MaxDrive]

MCPosition == {0, 1}
MCDrive == {0, 255}
(* A move to either position. *)
MCAppCommand == {At(0), At(1)}
(* Everything a gripper may say: it goes only when activated and moves only
   when told to go. *)
MCDeviceStatus == {s \in Status : (s.gto => s.act) /\ (s.moving => s.gto)}
(* A gripper at rest, that goes whenever it is activated; one that holds is
   left to the runs over MCDeviceStatus. *)
MCQuietStatus == {s \in MCDeviceStatus : ~s.moving /\ s.gto = s.act}
MCLeftCommand == {At(0)}
(* Moving, holding or never used. *)
MCAnyLeftCommand == {At(1), [At(1) EXCEPT !.gto = FALSE], ZeroCommand}
(* waitForMotionEnd, and the wait that every record satisfies. *)
MCStatusPredicate ==
    [p \in {"motionEnd", "any"} |->
       IF p = "any" THEN Status ELSE {s \in Status : ~s.moving}]
=============================================================================
