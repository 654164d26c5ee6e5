------------------------------- MODULE MCJson -------------------------------
(***************************************************************************)
(* Native JSON for the instances: values of the sizes that are just within *)
(* and just beyond a limit, numbers that are read as others, and a value   *)
(* nested deeper than a reader follows.                                    *)
(***************************************************************************)
EXTENDS CompletionModel

MCJsonValues ==
  {"digit", "number", "near", "room", "widens", "limit", "grows", "over", "deep"}

MCJsonSize(v) ==
  CASE v \in {"room", "widens"} -> MaximumJson - CommandFrame
    [] v \in {"limit", "grows"} -> MaximumJson
    [] v = "over" -> MaximumJson + 1
    [] OTHER -> 1

MCJsonDepth(v) == IF v = "deep" THEN MaximumDepth + 1 ELSE 0

MCReread(v) ==
  CASE v = "number" -> "near"
    [] v = "widens" -> "limit"
    [] v = "grows" -> "over"
    [] OTHER -> v

=============================================================================
