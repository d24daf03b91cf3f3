---------------------------- MODULE MCExecStream ----------------------------
(* Responses for TLC: every well-formed shape with at most one row, a stream  *)
(* that fails midway, and each way of breaking the format once.               *)
EXTENDS ExecStream

F(tag) == [tag |-> tag, count |-> 0, flaw |-> "none"]
End(n) == [tag |-> "RESULT_END", count |-> n, flaw |-> "none"]
Flawed(tag, flaw) == [tag |-> tag, count |-> 0, flaw |-> flaw]

WellFormed ==
  { <<F("COMMAND_OK")>>,
    <<F("META"), End(0)>>,
    <<F("META"), F("ROW"), End(1)>>,
    <<F("META"), F("ROW"), F("TRANSACTION_ABORT")>>,
    <<F("TRANSACTION_ABORT")>>,
    <<F("ERROR")>> }

Malformed ==
  { <<F("META"), F("META"), End(0)>>,
    <<F("ROW"), End(1)>>,
    <<F("META"), F("ROW"), End(0)>>,
    <<F("META"), F("COMMAND_OK")>>,
    <<F("OTHER"), F("COMMAND_OK")>>,
    <<Flawed("META", "header"), End(0)>>,
    <<Flawed("COMMAND_OK", "flags")>>,
    <<Flawed("ERROR", "payload")>> }

MCResponses == WellFormed \cup Malformed
=============================================================================
