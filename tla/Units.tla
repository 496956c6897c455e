-------------------------------- MODULE Units --------------------------------
(***************************************************************************)
(* units.hpp: openings and speeds to register bytes and back.  Lengths are *)
(* integers in one small unit, or fractions [num, den] of it; an optional  *)
(* is a set of at most one value.  What is not finite in the code has no   *)
(* integer and is left out, as is the last bit of a double.                *)
(***************************************************************************)
EXTENDS Integers

(* DeviceProfile, the fields an opening or a speed is scaled against.      *)
Profile == [minSpeed: Nat, maxSpeed: Nat, minOpening: Nat, maxOpening: Nat,
            openPosition: 0..255, closedPosition: 0..255]

registerPositionRange(p) == p.closedPosition - p.openPosition
openingRange(p) == p.maxOpening - p.minOpening

(* std::clamp                                                              *)
Clamp(v, lo, hi) == IF v < lo THEN lo ELSE IF v > hi THEN hi ELSE v

(* Mutant: the fraction is cut off instead of rounded.                     *)
roundedRegisterCut(num, den) == num \div den

(* std::lround(num / den) of a non-negative fraction.                      *)
roundedRegister(num, den) == (2 * num + den) \div (2 * den)

registerFromSpan(v, minimum, maximum) ==
    IF v < 0 \/ maximum <= minimum THEN {}
    ELSE {roundedRegister(255 * Clamp(v - minimum, 0, maximum - minimum),
                          maximum - minimum)}

speedToRegister(v, p) == registerFromSpan(v, p.minSpeed, p.maxSpeed)

openingToRegister(o, p) ==
    LET span == openingRange(p)
        open == Clamp(o.num - p.minOpening * o.den, 0, span * o.den)
    IN  IF span <= 0 \/ registerPositionRange(p) <= 0 THEN {}
        ELSE {roundedRegister(p.openPosition * span * o.den
                                + (span * o.den - open) * registerPositionRange(p),
                              span * o.den)}

openingFromRegister(v, p) ==
    LET band == registerPositionRange(p)
        closed == Clamp(v - p.openPosition, 0, band)
    IN  IF band <= 0 \/ openingRange(p) <= 0 THEN {}
        ELSE {[num |-> p.minOpening * band + (band - closed) * openingRange(p),
               den |-> band]}
=============================================================================
