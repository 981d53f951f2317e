---------------------------- MODULE MCEngine ----------------------------
(***************************************************************************)
(* Requests over two short days: overlapping, touching, nested and         *)
(* unsorted windows and busy times, zones apart and changing their clocks. *)
(***************************************************************************)
EXTENDS Engine

\* Every list of at most two intervals with these ends.
Lists(ends) ==
  LET spans == {iv \in [start : ends, end : ends] : iv.start < iv.end}
  IN  {<<>>} \cup {<<x>> : x \in spans} \cup {<<x, y>> : x \in spans, y \in spans}

Fixed(offset) == [at |-> 0, before |-> offset, after |-> offset]
Forward == [at |-> 11, before |-> 2, after |-> 3]
Back    == [at |-> 11, before |-> 3, after |-> 2]

Persons == [zone : {Fixed(0), Forward, Back}, busy : Lists({5, 8, 17, 20})]
Second    == [zone |-> Fixed(1), busy |-> <<Interval(18, 19)>>]

MCWeights ==
  [f \in Factors |-> CASE f = "fairness" -> 30 [] f \in {"comfort", "proximity"} -> 20
                       [] OTHER -> 15]

MCWindowLists == Lists({1, 8, 14, 23}) \ {<<>>}
MCZones       == {Fixed(0), Fixed(-3)}
MCPanels      == {<<p>> : p \in Persons} \cup {<<p, Second>> : p \in Persons}
MCLengths     == {<<1, 0>>, <<1, 1>>, <<2, 1>>}

\* The clocks change at night.
ASSUME PlainAssumption == PlainZones
===============================================================================
