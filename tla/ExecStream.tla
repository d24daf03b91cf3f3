----------------------------- MODULE ExecStream -----------------------------
(***************************************************************************)
(* One RMDB Wire Protocol v3 connection, from RmdbClient::connect to close  *)
(* (src/src/connection/client.rs): the client that sends an EXEC_STREAM     *)
(* request and reads frames until one ends the response, the server that    *)
(* answers requests one after another, and the byte stream between them.    *)
(*                                                                          *)
(* The caller is any: it may go on calling after any error, as the          *)
(* transactions do.  A frame is cut in two units, its front and its back,   *)
(* because read_exact consumes bytes before it times out: whatever was read *)
(* of a frame whose reading is given up is gone, and the next call begins   *)
(* to read inside of it.  What it makes of those bytes is left open: they   *)
(* may be refused, they may pass for a frame, or for a header whose payload *)
(* never comes (the Misread actions).  A frame made of them has `req` 0.    *)
(* `stream` holds what the server has sent and the client has not read, on  *)
(* the network or in the socket buffer, so a read may time out whatever     *)
(* `stream` holds.                                                          *)
(***************************************************************************)
EXTENDS Integers, Sequences

CONSTANTS
  Responses,   \* the sequences of frames the server answers a request with
  MaxCalls     \* bound on the requests of one connection

Tags  == {"META", "ROW", "RESULT_END", "COMMAND_OK", "TRANSACTION_ABORT",
          "ERROR", "OTHER"}
Final == {"RESULT_END", "COMMAND_OK", "TRANSACTION_ABORT", "ERROR"}

\* Where a frame breaks the format: FrameHeader::decode refuses "header",
\* exec_stream refuses "flags" and the parse_* functions refuse "payload".
Flaws == {"none", "header", "flags", "payload"}

\* `count` is the row_count of a RESULT_END and 0 in any other frame.
Frame == [tag : Tags, count : Nat, flaw : Flaws]

ASSUME MaxCallsAssumption == MaxCalls \in Nat

\* A response ends with its only final frame.
ASSUME ResponsesAssumption ==
  \A r \in Responses :
    /\ r \in Seq(Frame)
    /\ Len(r) > 0
    /\ \A i \in 1..Len(r) : r[i].tag \in Final <=> i = Len(r)

Answers  == {"Query", "Command", "Abort", "Server"}
Failures == {"Connection", "Timeout", "Protocol"}

VARIABLES
  pc,       \* "closed" | "ready" | "reading"
  asked,    \* requests written on this connection
  served,   \* requests the server has answered on it
  stream,   \* units the server has sent and the client has not read
  eof,      \* the server's end is closed
  half,     \* read_frame has consumed the front of a frame
  got,      \* the frames the running call has taken: META, then ROWs
  result,   \* what the last call returned
  tainted,  \* (history) a call gave up before the end of its response
  adrift    \* (history) one did so inside of a frame

clientVars == <<pc, asked, half, got, result, tainted, adrift>>
serverVars == <<served, eof>>
vars == <<clientVars, serverVars, stream>>

Part == {"front", "back"}
Unit == [req : Nat, frame : Frame, part : Part]
Taken == [req : Nat, frame : Frame]

\* The units of response r to request n.
Units(n, r) ==
  [u \in 1..(2 * Len(r)) |->
     [req |-> n, frame |-> r[(u + 1) \div 2],
      part |-> IF u % 2 = 1 THEN "front" ELSE "back"]]

Outcome(kind, n, frames) == [kind |-> kind, req |-> n, frames |-> frames]

Init ==
  /\ pc = "closed"
  /\ asked = 0
  /\ served = 0
  /\ stream = <<>>
  /\ eof = FALSE
  /\ half = FALSE
  /\ got = <<>>
  /\ result = Outcome("Connection", 0, <<>>)
  /\ tainted = FALSE
  /\ adrift = FALSE

---------------------------------------------------------------------------
(* The client. *)

\* connect and handshake succeed: a fresh socket, nothing sent on it.
Connect ==
  /\ pc = "closed"
  /\ pc' = "ready"
  /\ asked' = 0
  /\ served' = 0
  /\ stream' = <<>>
  /\ eof' = FALSE
  /\ half' = FALSE
  /\ got' = <<>>
  /\ result' = Outcome("Opened", 0, <<>>)
  /\ tainted' = FALSE
  /\ adrift' = FALSE

\* Refused or no route: Connection; 30s without a connection or an echo:
\* Timeout; closed or another echo during the handshake: Protocol.
ConnectFails ==
  /\ pc = "closed"
  /\ \E kind \in Failures : result' = Outcome(kind, 0, <<>>)
  /\ UNCHANGED <<pc, asked, half, got, tainted, adrift, stream>>
  /\ UNCHANGED serverVars

\* close, or the RmdbClient is dropped and its socket with it.
Close ==
  /\ pc = "ready"
  /\ pc' = "closed"
  /\ UNCHANGED <<asked, half, got, result, tainted, adrift, stream>>
  /\ UNCHANGED serverVars

\* mutant: map_read_err is not applied
GivesUpRaw(kind) ==
  /\ pc' = "ready"
  /\ result' = Outcome(IF kind = "Connection" THEN "Io" ELSE kind, asked, <<>>)
  /\ UNCHANGED asked
  /\ tainted' = TRUE
  /\ half' = FALSE
  /\ got' = <<>>

\* The call ends with an error before its response does.
GiveUp(kind) ==
  /\ pc' = "ready"
  /\ result' = Outcome(kind, asked, <<>>)
  /\ UNCHANGED asked
  /\ tainted' = TRUE
  /\ half' = FALSE
  /\ got' = <<>>

\* encode_exec_stream refuses the SQL text: nothing is written.
RefuseSql ==
  /\ pc = "ready"
  /\ result' = Outcome("Protocol", asked, <<>>)
  /\ UNCHANGED <<pc, asked, half, got, tainted, adrift, stream>>
  /\ UNCHANGED serverVars

Send ==
  /\ pc = "ready"
  /\ asked < MaxCalls
  /\ pc' = "reading"
  /\ asked' = asked + 1
  /\ half' = FALSE
  /\ got' = <<>>
  /\ UNCHANGED <<result, tainted, adrift, stream>>
  /\ UNCHANGED serverVars

\* write_all on a socket the server has closed.
SendFails ==
  /\ pc = "ready"
  /\ eof
  /\ GiveUp("Connection")
  /\ UNCHANGED <<adrift, stream>>
  /\ UNCHANGED serverVars

\* The first units of read_frame: the header, or as much as is there.
ReadFront ==
  /\ pc = "reading"
  /\ ~half
  /\ stream # <<>>
  /\ Head(stream).part = "front"
  /\ Head(stream).frame.flaw # "header"
  /\ half' = TRUE
  /\ stream' = Tail(stream)
  /\ UNCHANGED <<pc, asked, got, result, tainted, adrift>>
  /\ UNCHANGED serverVars

\* decode refuses the header; the payload stays unread.
BadHeader ==
  /\ pc = "reading"
  /\ ~half
  /\ stream # <<>>
  /\ Head(stream).part = "front"
  /\ Head(stream).frame.flaw = "header"
  /\ stream' = Tail(stream)
  /\ GiveUp("Protocol")
  /\ adrift' = TRUE
  /\ UNCHANGED serverVars

\* What the match of exec_stream takes in its present state: columns is Some
\* once META was taken, and then every other frame taken is a row.
HasMeta  == got # <<>>
RowCount == Len(got) - 1

\* mutant: the RESULT_END row_count is not compared
ExpectsAnyCount(f) ==
  /\ f.flaw = "none"
  /\ \/ f.tag = "META" /\ ~HasMeta
     \/ f.tag \in {"ROW", "RESULT_END"} /\ HasMeta
     \/ f.tag = "COMMAND_OK" /\ ~HasMeta
     \/ f.tag \in {"TRANSACTION_ABORT", "ERROR"}

Expects(f) ==
  /\ f.flaw = "none"
  /\ \/ f.tag = "META" /\ ~HasMeta
     \/ f.tag = "ROW" /\ HasMeta
     \/ f.tag = "RESULT_END" /\ HasMeta /\ f.count = RowCount
     \/ f.tag = "COMMAND_OK" /\ ~HasMeta
     \/ f.tag \in {"TRANSACTION_ABORT", "ERROR"}

\* mutant: the call returns with the first row
EndsOnRow(f) == f.tag \in Final \cup {"ROW"}

\* The frame that ends the call.
EndsCall(f) == f.tag \in Final

AnswerKind(f) ==
  CASE f.tag = "COMMAND_OK"        -> "Command"
    [] f.tag = "TRANSACTION_ABORT" -> "Abort"
    [] f.tag = "ERROR"             -> "Server"
    [] OTHER                       -> "Query"

AtFrame ==
  /\ pc = "reading"
  /\ half
  /\ stream # <<>>
  /\ Head(stream).part = "back"

Took == Append(got, [req |-> Head(stream).req, frame |-> Head(stream).frame])

TakeFrame ==
  /\ AtFrame
  /\ Expects(Head(stream).frame)
  /\ ~EndsCall(Head(stream).frame)
  /\ got' = Took
  /\ half' = FALSE
  /\ stream' = Tail(stream)
  /\ UNCHANGED <<pc, asked, result, tainted, adrift>>
  /\ UNCHANGED serverVars

FinishCall ==
  /\ AtFrame
  /\ Expects(Head(stream).frame)
  /\ EndsCall(Head(stream).frame)
  /\ result' = Outcome(AnswerKind(Head(stream).frame), asked, Took)
  /\ pc' = "ready"
  /\ got' = <<>>
  /\ half' = FALSE
  /\ stream' = Tail(stream)
  /\ UNCHANGED <<asked, tainted, adrift>>
  /\ UNCHANGED serverVars

\* Garbled columns may not fit the cells of a row that the server sent.
Refuses(f) ==
  \/ ~Expects(f)
  \/ f.tag = "ROW" /\ HasMeta /\ got[1].req = 0

RejectFrame ==
  /\ AtFrame
  /\ Refuses(Head(stream).frame)
  /\ stream' = Tail(stream)
  /\ GiveUp("Protocol")
  /\ UNCHANGED adrift
  /\ UNCHANGED serverVars

\* 300s without the whole header, or without the whole payload.
TimeOut ==
  /\ pc = "reading"
  /\ GiveUp("Timeout")
  /\ adrift' = (adrift \/ half)
  /\ UNCHANGED stream
  /\ UNCHANGED serverVars

\* map_read_err: end of file, or the connection was reset.
Disconnected ==
  /\ pc = "reading"
  /\ eof
  /\ stream = <<>>
  /\ GiveUp("Connection")
  /\ UNCHANGED <<adrift, stream>>
  /\ UNCHANGED serverVars

---------------------------------------------------------------------------
(* Reading with a lost frame boundary.  Eight bytes from the rest of a frame *)
(* are read as a header.  decode only refuses a reserved field that is not 0 *)
(* and a length above 1 MiB, so what comes next is up to the bytes, and the  *)
(* bytes are anything.  They may use up any number of the units that are     *)
(* there, and end in the middle of the next one.                             *)

BeyondBoundary ==
  /\ pc = "reading"
  /\ ~half
  /\ stream # <<>>
  /\ Head(stream).part = "back"

Consume(k) == stream' = SubSeq(stream, k + 1, Len(stream))

\* A frame that no server sent, its payload as this call can use it.
Garbled(tag) ==
  [tag   |-> tag,
   count |-> IF tag = "RESULT_END" /\ HasMeta THEN RowCount ELSE 0,
   flaw  |-> "none"]

TookGarbled(tag) == Append(got, [req |-> 0, frame |-> Garbled(tag)])

\* The header, or the frame it makes of what follows, is refused.
MisreadRefused ==
  /\ BeyondBoundary
  /\ \E k \in 0..Len(stream) : Consume(k)
  /\ GiveUp("Protocol")
  /\ UNCHANGED adrift
  /\ UNCHANGED serverVars

\* Its length swallows what follows, and more than ever comes.
MisreadStarves ==
  /\ BeyondBoundary
  /\ \E k \in 0..Len(stream) : Consume(k)
  /\ \/ GiveUp("Timeout")
     \/ eof /\ stream' = <<>> /\ GiveUp("Connection")
  /\ UNCHANGED adrift
  /\ UNCHANGED serverVars

\* It passes for a frame of a result.  Bound: each uses up a unit, as one
\* rest would otherwise pass for any number of rows.
MisreadTaken ==
  /\ BeyondBoundary
  /\ \E k \in 1..Len(stream), tag \in Tags :
       /\ Expects(Garbled(tag))
       /\ ~EndsCall(Garbled(tag))
       /\ got' = TookGarbled(tag)
       /\ Consume(k)
  /\ UNCHANGED <<pc, asked, half, result, tainted, adrift>>
  /\ UNCHANGED serverVars

\* It passes for the frame that ends the call: an empty COMMAND_OK out of a
\* cut RESULT_END and the zeros of the next header, for one.
MisreadFinishes ==
  /\ BeyondBoundary
  /\ \E k \in 0..Len(stream), tag \in Tags :
       /\ Expects(Garbled(tag))
       /\ EndsCall(Garbled(tag))
       /\ result' = Outcome(AnswerKind(Garbled(tag)), asked, TookGarbled(tag))
       /\ Consume(k)
  /\ pc' = "ready"
  /\ got' = <<>>
  /\ UNCHANGED <<asked, half, tainted, adrift>>
  /\ UNCHANGED serverVars

---------------------------------------------------------------------------
(* The server: one request at a time, in the order they were written. *)

Serve ==
  /\ pc # "closed"
  /\ ~eof
  /\ served < asked
  /\ served' = served + 1
  /\ \E r \in Responses : stream' = stream \o Units(served + 1, r)
  /\ UNCHANGED eof
  /\ UNCHANGED clientVars

\* The server goes away; of what it had sent, a prefix still arrives.
ServerCloses ==
  /\ pc # "closed"
  /\ ~eof
  /\ eof' = TRUE
  /\ \E k \in 0..Len(stream) : stream' = SubSeq(stream, 1, k)
  /\ UNCHANGED served
  /\ UNCHANGED clientVars

Client ==
  \/ Connect \/ ConnectFails \/ Close \/ RefuseSql \/ Send \/ SendFails
  \/ ReadFront \/ BadHeader \/ TakeFrame \/ FinishCall \/ RejectFrame
  \/ TimeOut \/ Disconnected
  \/ MisreadRefused \/ MisreadStarves \/ MisreadTaken \/ MisreadFinishes

Server == Serve \/ ServerCloses

Next == Client \/ Server

Spec == Init /\ [][Next]_vars

---------------------------------------------------------------------------
(* Properties. *)

TypeOK ==
  /\ pc \in {"closed", "ready", "reading"}
  /\ asked \in 0..MaxCalls
  /\ served \in 0..asked
  /\ stream \in Seq(Unit)
  /\ eof \in BOOLEAN
  /\ half \in BOOLEAN
  /\ got \in Seq(Taken)
  /\ result \in [kind : Answers \cup Failures \cup {"Opened"}, req : Nat,
                 frames : Seq(Taken)]
  /\ tainted \in BOOLEAN
  /\ adrift \in BOOLEAN

\* While no call of the connection has given up, an answer is made of frames
\* the server sent for that call and for no other: the attribution that the
\* frame loop of exec_stream relies on, as no frame names its request.
AnswersOwnCall ==
  ~tainted /\ result.kind \in Answers =>
    \A i \in 1..Len(result.frames) : result.frames[i].req = result.req

\* As long as no call has given up inside of a frame, an answer is made of
\* frames of one response, be it a late one: a time-out between two frames
\* costs the attribution and no more.  After one inside of a frame an answer
\* may begin with a frame nobody sent, and what read_frame and exec_stream
\* still guarantee is this: an answer that does not begin so is of one
\* response, and a query answer is META, rows, and a RESULT_END that counts them.
AnswerIsOneResponse ==
  result.kind \in Answers =>
    LET fs == result.frames
        n  == Len(fs)
    IN  /\ ~adrift => fs[1].req # 0
        /\ fs[1].req # 0 => \A i \in 1..n : fs[i].req = fs[1].req
        /\ result.kind = "Query" =>
             /\ n >= 2
             /\ fs[1].frame.tag = "META"
             /\ \A i \in 2..(n - 1) : fs[i].frame.tag = "ROW"
             /\ fs[n].frame.tag = "RESULT_END"
             /\ fs[n].frame.count = n - 2

NothingOutstanding == served = asked /\ stream = <<>>

\* A request is only written when every earlier one of the connection has been
\* answered and its answer read, as long as no call gave up.
SendsAlone ==
  [][~tainted /\ asked' = asked + 1 => NothingOutstanding]_vars

\* What RmdbClient promises its callers.
Sess == INSTANCE Session WITH
  link  <- CASE pc = "closed" -> "down" [] pc = "ready" -> "idle" [] OTHER -> "busy",
  calls <- asked,
  lost  <- tainted,
  last  <- [kind |-> result.kind,
            of   |-> IF result.kind \in Answers THEN result.frames[1].req ELSE 0]

\* exec_stream and connect implement that promise.
ImplementsSession == Sess!Spec

---------------------------------------------------------------------------
(* The inductive invariant behind AnswersOwnCall and AnswerIsOneResponse. *)

EndsResponse(u) == u.part = "back" /\ u.frame.tag \in Final

\* A response leaves the stream only by its end, or because the server closed;
\* fronts and backs alternate.
StreamShape ==
  /\ \A i \in 1..(Len(stream) - 1) :
       /\ ~EndsResponse(stream[i]) => stream[i + 1].req = stream[i].req
       /\ stream[i].part = "back" <=> stream[i + 1].part = "front"
  /\ stream # <<>> /\ ~eof => EndsResponse(stream[Len(stream)])
  /\ \A i \in 1..Len(stream) : stream[i].req \in 1..asked

\* What the running call holds is the beginning of the response whose rest is
\* next in the stream, unless it began beyond a frame boundary.
CallShape ==
  /\ pc # "reading" => got = <<>> /\ ~half
  /\ half => (stream = <<>> => eof)
  /\ got # <<>> =>
       /\ got[1].frame.tag = "META"
       /\ got[1].req \in 0..asked
       /\ \A i \in 2..Len(got) : got[i].frame.tag = "ROW"
       /\ got[1].req # 0 =>
            /\ \A i \in 1..Len(got) : got[i].req = got[1].req
            /\ stream = <<>> => eof
            /\ stream # <<>> => Head(stream).req = got[1].req

\* Where the client is in a frame: it knows, unless a call gave up inside of
\* one, and it always does behind a frame that it has taken whole.
BoundaryKnown ==
  /\ adrift => tainted
  /\ ~adrift \/ half \/ (got # <<>> /\ got[1].req # 0) =>
       (stream # <<>> => (Head(stream).part = "back" <=> half))
  /\ ~adrift /\ got # <<>> => got[1].req # 0

\* Before anything was given up, the stream holds the answer to the running
\* call and nothing else.
InSync ==
  ~tainted =>
    /\ pc # "reading" => NothingOutstanding
    /\ served < asked => served = asked - 1 /\ stream = <<>>
    /\ \A i \in 1..Len(stream) : stream[i].req = asked
    /\ \A i \in 1..Len(got) : got[i].req = asked
    /\ \A i \in 1..Len(stream) : EndsResponse(stream[i]) => i = Len(stream)

ResultShape ==
  /\ AnswersOwnCall
  /\ AnswerIsOneResponse
  /\ result.kind \in Answers =>
       result.frames # <<>> /\ result.frames[1].req \in Nat

IInv ==
  TypeOK /\ StreamShape /\ CallShape /\ BoundaryKnown /\ InSync /\ ResultShape
=============================================================================
