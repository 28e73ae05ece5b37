------------------------- MODULE MCManagedExchange -------------------------
(* Frames of at most two bytes; one client sends any of them, the other the  *)
(* valid one.  Raw ones: a valid one, one with a second line behind it, and  *)
(* one for every check of the parser.  Commands: of the largest size and too *)
(* large, with and without buckets, with a bad number.                       *)
EXTENDS ManagedExchange

CONSTANTS c1, c2

Valid == [line |-> 1, extra |-> 0, members |-> <<"version", "op", "name", "labels", "value">>,
          trailing |-> FALSE, object |-> TRUE, version |-> "one", op |-> "counter_add",
          typed |-> TRUE, numbers |-> TRUE]

RawFrames ==
  {Valid, [Valid EXCEPT !.extra = 1], [Valid EXCEPT !.line = 0], [Valid EXCEPT !.trailing = TRUE],
   [Valid EXCEPT !.members = Append(@, "op")], [Valid EXCEPT !.object = FALSE, !.members = <<>>],
   [Valid EXCEPT !.members = Tail(@)], [Valid EXCEPT !.version = "mistyped"],
   [Valid EXCEPT !.version = "other"], [Valid EXCEPT !.op = "reset"], [Valid EXCEPT !.op = "declare"],
   [Valid EXCEPT !.members = Append(@, "help")], [Valid EXCEPT !.typed = FALSE]}

MCCommands ==
  [op : {"declare", "gauge_set", "reset"}, arguments : BOOLEAN, number : BOOLEAN, buckets : BOOLEAN,
   size : {2, 3}]

MCFrames ==
  [c \in {c1, c2} |-> IF c = c1 THEN RawFrames \cup CommandFrames ELSE {Valid}]
=============================================================================
