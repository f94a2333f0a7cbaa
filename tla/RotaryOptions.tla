--------------------------- MODULE RotaryOptions ----------------------------
(* How main (RotaryEncoder.c) turns its -rc, -rd and -rs options into pins. *)
EXTENDS SequencesExt

DefaultPins == [p_clk |-> 22, p_dt |-> 27, p_sw |-> 17]

\* One option: the last one given wins, and another one leaves the pins alone.
ApplyOption(pins, opt) ==
  CASE opt[1] = "-rc" -> [pins EXCEPT !.p_clk = opt[2]]
    [] opt[1] = "-rd" -> [pins EXCEPT !.p_dt = opt[2]]
    [] opt[1] = "-rs" -> [pins EXCEPT !.p_sw = opt[2]]
    [] OTHER -> pins

Options(args) == FoldLeft(ApplyOption, DefaultPins, args)
=============================================================================
