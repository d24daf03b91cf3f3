---------------------------- MODULE TextSession ----------------------------
(***************************************************************************)
(* One connection of the text protocol (--legacy-protocol): send_cmd and    *)
(* ping of src/src/connection/client.rs under the cursor.  Nothing marks    *)
(* the end of a response: whatever the one read of a call returns, at most  *)
(* its buffer of 8192 bytes, is the answer.                                 *)
(*                                                                          *)
(* A response is a number of pieces; a read returns the pieces that have    *)
(* arrived, at most Buffer of them.  The server is external.                *)
(***************************************************************************)
EXTENDS Integers, Sequences, FiniteSetsExt

CONSTANTS
  Buffer,     \* pieces a read can return
  MaxPieces,  \* bound on the length of a response
  MaxCalls    \* bound on the calls of a connection

ASSUME TextAssumption == {Buffer, MaxPieces, MaxCalls} \subseteq Nat \ {0}

VARIABLES
  prompt,     \* every response arrives at once, and fits into the buffer
  link,       \* "down" | "idle" | "busy": a call waits for its answer
  eof,        \* the server has closed the connection
  sent,       \* the commands sent on this connection
  served,     \* how many of them the server has begun to answer
  owed,       \* pieces of that answer still to be sent
  stream,     \* pieces that have arrived
  open,       \* the server's session is in a transaction
  asker,      \* who waits: "cursor", or "begin" or "commit" of a ping
  pinged,     \* how the last ping of this connection ended
  lost,       \* a call of this connection ended without an answer
  last        \* the last result: kind, the call it answers, pieces

serverVars == <<eof, served, owed, stream, open>>
vars == <<prompt, link, sent, serverVars, asker, pinged, lost, last>>

Commands == {"begin", "commit", "update", "query"}
Texts    == {"abort", "error", "text"}   \* how a response begins

Piece(n, text, number) == [of |-> n, text |-> text, number |-> number]

Response(n, text, length) == [k \in 1..length |-> Piece(n, text, k)]

Answer(kind, pieces) == [kind |-> kind, of |-> pieces[1].of, pieces |-> pieces]
Failure(kind)        == [kind |-> kind, of |-> 0, pieces |-> <<>>]

Init ==
  /\ prompt \in BOOLEAN
  /\ link = "down" /\ eof = FALSE
  /\ sent = <<>> /\ served = 0 /\ owed = <<>> /\ stream = <<>>
  /\ open = FALSE
  /\ asker = "cursor" /\ pinged = "never"
  /\ lost = FALSE
  /\ last = Failure("Connection")

---------------------------------------------------------------------------
(* The server. *)

\* What the next command does to the session, and how its response begins.
Serve ==
  /\ ~eof /\ owed = <<>> /\ served < Len(sent)
  /\ served' = served + 1
  /\ \E text \in Texts, length \in 1..MaxPieces :
       /\ prompt => length <= Buffer
       /\ owed' = Response(served + 1, text, length)
       /\ open' = CASE text = "abort" -> FALSE
                    [] text = "text" /\ sent[served + 1] = "begin"  -> TRUE
                    [] text = "text" /\ sent[served + 1] = "commit" -> FALSE
                    [] OTHER -> open
  /\ UNCHANGED <<prompt, link, eof, sent, stream, asker, pinged, lost, last>>

Arrive ==
  /\ ~eof
  /\ \E k \in 1..Len(owed) :
       /\ prompt => k = Len(owed)
       /\ stream' = stream \o SubSeq(owed, 1, k)
       /\ owed' = SubSeq(owed, k + 1, Len(owed))
  /\ UNCHANGED <<prompt, link, eof, sent, served, open, asker, pinged, lost, last>>

\* The end of a connection ends its transaction.
ServerCloses ==
  /\ link # "down" /\ ~eof
  /\ eof' = TRUE
  /\ owed' = <<>>
  /\ open' = FALSE
  /\ UNCHANGED <<prompt, link, sent, served, stream, asker, pinged, lost, last>>

---------------------------------------------------------------------------
(* The client. *)

\* mutant: what the old connection still held is read on the new one.
ConnectsWithOldStream ==
  /\ link = "down"
  /\ link' = "idle" /\ eof' = FALSE
  /\ sent' = <<>> /\ served' = 0 /\ owed' = <<>>
  /\ open' = FALSE /\ pinged' = "never" /\ lost' = FALSE
  /\ last' = Failure("Opened")
  /\ UNCHANGED <<prompt, stream, asker>>

\* No handshake: nothing tells a server of the other protocol.
Connect ==
  /\ link = "down"
  /\ link' = "idle" /\ eof' = FALSE
  /\ sent' = <<>> /\ served' = 0 /\ owed' = <<>> /\ stream' = <<>>
  /\ open' = FALSE /\ pinged' = "never" /\ lost' = FALSE
  /\ last' = Failure("Opened")
  /\ UNCHANGED <<prompt, asker>>

ConnectFails ==
  /\ link = "down"
  /\ \E kind \in {"Connection", "Timeout"} : last' = Failure(kind)
  /\ UNCHANGED <<prompt, link, sent, serverVars, asker, pinged, lost>>

Sends(command) ==
  /\ link = "idle"
  /\ Len(sent) < MaxCalls
  /\ sent' = Append(sent, command)
  /\ link' = "busy"
  /\ UNCHANGED <<prompt, serverVars, pinged, lost, last>>

Call ==
  /\ asker = "cursor"
  /\ \E command \in Commands : Sends(command)
  /\ UNCHANGED asker

PingBegins ==
  /\ asker = "cursor"
  /\ Sends("begin")
  /\ asker' = "begin"

\* mutant: the ping sends BEGIN twice.
PingBeginsAgain ==
  /\ link = "idle" /\ asker = "begin"
  /\ Sends("begin")
  /\ asker' = "commit"

\* The answer to BEGIN, an abort too, is only warned of.
PingCommits ==
  /\ link = "idle" /\ asker = "begin"
  /\ Sends("commit")
  /\ asker' = "commit"

\* mutant: the ping does not end with its second answer.
StaysInPing(result) ==
  /\ link' = "idle"
  /\ last' = result
  /\ asker' = IF result.of # 0 THEN asker ELSE "cursor"
  /\ pinged' = IF asker = "cursor"      THEN pinged
               ELSE IF result.of = 0    THEN "failed"
               ELSE IF asker = "commit" THEN "ok" ELSE pinged

\* The caller has the result: a ping waits for its second answer.
Returns(result) ==
  /\ link' = "idle"
  /\ last' = result
  /\ asker' = IF asker = "begin" /\ result.of # 0 THEN asker ELSE "cursor"
  /\ pinged' = IF asker = "cursor"      THEN pinged
               ELSE IF result.of = 0    THEN "failed"
               ELSE IF asker = "commit" THEN "ok" ELSE pinged

Fails(kind) ==
  /\ Returns(Failure(kind))
  /\ lost' = TRUE

SendFails ==
  /\ link = "idle" /\ eof
  /\ Fails("Connection")
  /\ UNCHANGED <<prompt, sent, serverVars>>

\* Only a text that begins with "abort" is an error: an error text is no rows
\* to a query, and success to anything else.
KindOf(piece, command) ==
  IF piece.text = "abort" /\ piece.number = 1 THEN "Abort"
  ELSE IF command = "query" THEN "Query" ELSE "Command"

\* mutant: what a read returns is taken for an answer only up to its first
\* piece, the others stay for the next read.
ReadsOne ==
  /\ link = "busy" /\ stream # <<>>
  /\ stream' = Tail(stream)
  /\ Returns(Answer(KindOf(stream[1], sent[Len(sent)]), SubSeq(stream, 1, 1)))
  /\ UNCHANGED <<prompt, sent, eof, served, owed, open, lost>>

Read ==
  /\ link = "busy" /\ stream # <<>>
  /\ LET n == Min({Buffer, Len(stream)})
     IN  /\ stream' = SubSeq(stream, n + 1, Len(stream))
         /\ Returns(Answer(KindOf(stream[1], sent[Len(sent)]), SubSeq(stream, 1, n)))
  /\ UNCHANGED <<prompt, sent, eof, served, owed, open, lost>>

TimeOut ==
  /\ link = "busy" /\ stream = <<>>
  /\ Fails("Timeout")
  /\ UNCHANGED <<prompt, sent, serverVars>>

\* A read of nothing, or one that fails.
Disconnected ==
  /\ link = "busy" /\ stream = <<>> /\ eof
  /\ Fails("Connection")
  /\ UNCHANGED <<prompt, sent, serverVars>>

Close ==
  /\ link = "idle" /\ asker = "cursor"
  /\ link' = "down"
  /\ open' = FALSE
  /\ UNCHANGED <<prompt, sent, eof, served, owed, stream, asker, pinged, lost, last>>

Next ==
  \/ Connect \/ ConnectFails \/ Call \/ PingBegins \/ PingCommits \/ SendFails
  \/ Read \/ TimeOut \/ Disconnected \/ Close
  \/ Serve \/ Arrive \/ ServerCloses

Spec == Init /\ [][Next]_vars
---------------------------------------------------------------------------

Pieces == [of : 1..MaxCalls, text : Texts, number : 1..MaxPieces]

TypeOK ==
  /\ {prompt, eof, open, lost} \subseteq BOOLEAN
  /\ link \in {"down", "idle", "busy"}
  /\ sent \in Seq(Commands) /\ Len(sent) <= MaxCalls
  /\ served \in 0..Len(sent)
  /\ owed \in Seq(Pieces) /\ stream \in Seq(Pieces)
  /\ asker \in {"cursor", "begin", "commit"}
  /\ asker = "commit" => link = "busy"
  /\ pinged \in {"never", "ok", "failed"}
  /\ last.of \in 0..Len(sent) \/ link = "down"

\* When responses arrive in one piece that fits into the buffer, and no call of
\* the connection failed, what a call returns is the whole response to it, and
\* an abort exactly if the server aborted.
AnswerIsWhole ==
  prompt /\ ~lost /\ link # "down" /\ last.of # 0 /\ link = "idle" =>
    /\ last.of = Len(sent)
    /\ {last.pieces[k].of : k \in DOMAIN last.pieces} = {last.of}
    /\ owed = <<>> /\ stream = <<>>
    /\ last.kind = "Abort" <=> last.pieces[1].text = "abort"

\* A ping of BEGIN and COMMIT that returns Ok has left no transaction behind,
\* in which everything that follows would be done and undone; again only with
\* responses of one piece, and unless COMMIT was answered with an error.
PingLeavesNothing ==
  [][asker = "commit" /\ asker' = "cursor" /\ pinged' = "ok" /\ prompt /\ ~lost
       /\ last'.pieces[1].text # "error" => ~open]_vars

Sess == INSTANCE Session WITH
  calls <- Len(sent),
  last  <- [kind |-> last.kind, of |-> last.of]

\* With such responses the text connection keeps the promise that the wire
\* client keeps in every case: transactions over the one are those over the
\* other.
ImplementsSession ==
  /\ prompt => Sess!Init
  /\ [][prompt => Sess!Next]_(Sess!vars)
=============================================================================
