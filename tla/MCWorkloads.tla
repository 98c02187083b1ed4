---------------------------- MODULE MCWorkloads ----------------------------
(***************************************************************************)
(* Files of up to three lines of every kind that the parsers tell apart,   *)
(* and a Zipf distribution (alpha = 1) over three keys in eighths, whose   *)
(* probabilities add up to 7 eighths after rounding.                       *)
(***************************************************************************)
EXTENDS Workloads

CONSTANTS a, b

Spaced(words) == [comma |-> FALSE, words |-> words]
Commas(words) == [comma |-> TRUE, words |-> words]

MCLines ==
    {Spaced(<<>>), Spaced(<<"#">>), Spaced(<<a>>), Spaced(<<"PUT">>), Spaced(<<"SET", a>>),
     Spaced(<<"GET", b, a>>), Spaced(<<b, a>>),
     Commas(<<a, "op", b>>), Commas(<<a, "GET", b>>), Commas(<<b, "SET", a>>),
     Commas(<<a, "PUT", b, b>>), Commas(<<a, b, b>>), Commas(<<a, "PUT">>),
     Commas(<<a, "GET", NoWord>>), Commas(<<a, "GET", NoWord, b>>)}

MCWeight == <<6, 3, 2>>

Share(part, whole, length) == [part |-> part, whole |-> whole, scan_length |-> length]

MCConfigs == {Share(0, 2, 2), Share(1, 2, 3), Share(2, 3, 2), Share(1, 1, 2), Share(1, 3, 1)}
=============================================================================
