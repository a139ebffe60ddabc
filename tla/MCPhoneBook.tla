----------------------------- MODULE MCPhoneBook -----------------------------
(* PhoneBook for TLC: short lines of every kind, and a few names.           *)
EXTENDS PhoneBook

Numbers == [a \in {"aux-0", "aux-1", "aux-2", "aux-5"} |->
  CASE a = "aux-0" -> 0 [] a = "aux-1" -> 1 [] a = "aux-2" -> 2 [] a = "aux-5" -> 5]

Lines == UNION {[1 .. n -> {",", "'", "x"}] : n \in 0 .. 5}

Names == {<<"aux-1">>, <<"x", ",", "aux-2">>, <<"'", "aux-0">>, <<"aux-5", "'", "aux-1">>, <<"x">>}

=============================================================================
