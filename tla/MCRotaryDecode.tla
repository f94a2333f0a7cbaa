--------------------------- MODULE MCRotaryDecode ---------------------------
(* The wiring of the example command line of README.md, and its options.   *)
EXTENDS RotaryDecode, RotaryOptions

Typed == Options(<<<<"-rc", 27>>, <<"-rd", 22>>, <<"-rc", 17>>>>)
TypedClk == Typed.p_clk
TypedDt == Typed.p_dt
TypedSw == Typed.p_sw
=============================================================================
