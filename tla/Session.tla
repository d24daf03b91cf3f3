------------------------------ MODULE Session ------------------------------
(***************************************************************************)
(* What a caller of RmdbClient may rely on, and no more: a connection takes *)
(* one call at a time, every call ends in one result, and as long as no     *)
(* call has failed on the connection the answer it gets is the server's     *)
(* answer to that very call.  After a failed call (`lost`) the promise is   *)
(* void: an answer may be one that an earlier call of the connection was    *)
(* waiting for, or one that nobody gave, made of the rest of another.       *)
(***************************************************************************)
EXTENDS Naturals

VARIABLES
  link,     \* "down" | "idle" | "busy"
  calls,    \* calls sent on the current connection
  lost,     \* a call of this connection ended without its whole answer
  last      \* the last result: its kind, and the call it is the answer to, or 0

vars == <<link, calls, lost, last>>

Answers  == {"Query", "Command", "Abort", "Server"}
Failures == {"Connection", "Timeout", "Protocol"}

\* An answer to call n; a failure answers no call, nor does an answer of 0.
Answer(kind, n) == [kind |-> kind, of |-> n]
Failure(kind)   == [kind |-> kind, of |-> 0]

Init ==
  /\ link = "down"
  /\ calls = 0
  /\ lost = FALSE
  /\ last = Failure("Connection")

Opened == [kind |-> "Opened", of |-> 0]

Open ==
  /\ link = "down"
  /\ link' = "idle"
  /\ calls' = 0
  /\ lost' = FALSE
  /\ last' = Opened

OpenFails ==
  /\ link = "down"
  /\ \E kind \in Failures : last' = Failure(kind)
  /\ UNCHANGED <<link, calls, lost>>

\* A call that never reaches the wire leaves the connection as it was.
Refuse ==
  /\ link = "idle"
  /\ last' = Failure("Protocol")
  /\ UNCHANGED <<link, calls, lost>>

Call ==
  /\ link = "idle"
  /\ link' = "busy"
  /\ calls' = calls + 1
  /\ UNCHANGED <<lost, last>>

Reply ==
  /\ link = "busy"
  /\ link' = "idle"
  /\ \E kind \in Answers, n \in 0..calls :
       /\ lost \/ n = calls
       /\ last' = Answer(kind, n)
  /\ UNCHANGED <<calls, lost>>

\* Sending or reading failed: from here on the connection is not trusted.
Fail ==
  /\ link \in {"idle", "busy"}
  /\ link' = "idle"
  /\ lost' = TRUE
  /\ \E kind \in Failures : last' = Failure(kind)
  /\ UNCHANGED calls

Close ==
  /\ link = "idle"
  /\ link' = "down"
  /\ UNCHANGED <<calls, lost, last>>

Next == Open \/ OpenFails \/ Refuse \/ Call \/ Reply \/ Fail \/ Close

Spec == Init /\ [][Next]_vars
=============================================================================
