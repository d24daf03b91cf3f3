------------------------- MODULE TextSessionProofs -------------------------
(***************************************************************************)
(* For a buffer of any size and any number of calls: while every response   *)
(* arrives in one piece that fits, the text protocol keeps what Session     *)
(* promises.  Nothing in the code makes the responses do so.                *)
(***************************************************************************)
EXTENDS TextSession, TLAPS

PieceOf(n) == [of : 1..n, text : Texts, number : Nat]

\* s is the whole response to the last command, which fits into one read, and
\* no COMMIT that it reports as done has left the transaction open.
Whole(s) ==
  \E text \in Texts, length \in 1..MaxPieces :
    /\ length <= Buffer
    /\ s = Response(Len(sent), text, length)
    /\ sent[Len(sent)] = "commit" /\ text # "error" => ~open

\* The last answer was such a response.
WasWhole ==
  /\ last.of = Len(sent)
  /\ {last.pieces[k].of : k \in DOMAIN last.pieces} = {last.of}
  /\ last.kind = "Abort" <=> last.pieces[1].text = "abort"

TextIInv ==
  /\ prompt \in BOOLEAN /\ lost \in BOOLEAN
  /\ sent \in Seq(Commands) /\ served \in 0..Len(sent)
  /\ owed \in Seq(PieceOf(served)) /\ stream \in Seq(PieceOf(served))
  /\ link = "busy" => sent # <<>>
  /\ asker \in {"begin", "commit"} => link # "down"
  /\ asker = "commit" => link = "busy" /\ sent[Len(sent)] = "commit"
  /\ link = "idle" /\ prompt /\ ~lost =>
       /\ served = Len(sent) /\ owed = <<>> /\ stream = <<>>
       /\ last.of # 0 => WasWhole
  /\ link = "busy" /\ prompt /\ ~lost =>
       \/ served = Len(sent) - 1 /\ owed = <<>> /\ stream = <<>>
       \/ served = Len(sent) /\ stream = <<>> /\ (owed = <<>> \/ Whole(owed))
       \/ served = Len(sent) /\ owed = <<>> /\ Whole(stream)

LEMMA ResponseIs ==
  ASSUME NEW n \in Nat \ {0}, NEW text \in Texts, NEW length \in Nat \ {0}
  PROVE  LET s == Response(n, text, length)
         IN  /\ s \in Seq(PieceOf(n)) /\ Len(s) = length /\ s # <<>>
             /\ \A k \in 1..length : s[k].of = n /\ s[k].text = text /\ s[k].number = k
<1> DEFINE s == Response(n, text, length)
<1>1. /\ DOMAIN s = 1..length
      /\ \A k \in 1..length : s[k] = [of |-> n, text |-> text, number |-> k]
  BY DEF Response, Piece
<1>2. \A k \in 1..length : [of |-> n, text |-> text, number |-> k] \in PieceOf(n)
  BY DEF PieceOf
<1>3. s \in [1..length -> PieceOf(n)]
  BY <1>1, <1>2 DEF Response, Piece
<1> HIDE DEF s
<1>4. s \in Seq(PieceOf(n)) /\ Len(s) = length
  BY <1>3
<1>5. QED
  BY <1>1, <1>4 DEF s

LEMMA More == ASSUME NEW n \in Nat, NEW s \in Seq(PieceOf(n)) PROVE s \in Seq(PieceOf(n + 1))
<1>1. PieceOf(n) \subseteq PieceOf(n + 1)
  BY DEF PieceOf
<1>2. QED
  BY <1>1

LEMMA ServeKeeps ==
  ASSUME TextIInv, Serve
  PROVE  TextIInv'
<1>1. /\ served' = served + 1 /\ served < Len(sent) /\ owed = <<>>
      /\ UNCHANGED <<prompt, link, eof, sent, stream, asker, pinged, lost, last>>
  BY DEF Serve
<1>2. PICK text \in Texts, length \in 1..MaxPieces :
        /\ prompt => length <= Buffer
        /\ owed' = Response(served + 1, text, length)
        /\ open' = CASE text = "abort" -> FALSE
                     [] text = "text" /\ sent[served + 1] = "begin"  -> TRUE
                     [] text = "text" /\ sent[served + 1] = "commit" -> FALSE
                     [] OTHER -> open
  BY DEF Serve
<1>3. served \in Nat /\ Len(sent) \in Nat /\ length \in Nat \ {0}
  BY TextAssumption DEF TextIInv
<1>4. owed' \in Seq(PieceOf(served + 1)) /\ stream' \in Seq(PieceOf(served + 1))
  <2>1. owed' \in Seq(PieceOf(served + 1))
    BY <1>2, <1>3, ResponseIs
  <2>2. stream \in Seq(PieceOf(served + 1))
    BY <1>3, More DEF TextIInv
  <2>3. QED
    BY <1>1, <2>1, <2>2
<1>5. link = "busy" /\ prompt /\ ~lost =>
        /\ served' = Len(sent) /\ stream = <<>>
        /\ Whole(owed)'
  <2>1. SUFFICES ASSUME link = "busy", prompt, ~lost
                 PROVE  served + 1 = Len(sent) /\ stream = <<>> /\ Whole(owed)'
    BY <1>1
  <2>2. served + 1 = Len(sent) /\ stream = <<>>
    BY <1>1, <1>3, <2>1 DEF TextIInv
  <2>3. sent[Len(sent)] = "commit" /\ text # "error" => open' = FALSE
    BY <1>2, <2>2 DEF Texts
  <2>4. QED
    BY <1>1, <1>2, <2>1, <2>2, <2>3 DEF Whole
<1>6. ~(link = "idle" /\ prompt /\ ~lost)
  BY <1>1, <1>3 DEF TextIInv
<1>7. QED
  BY <1>1, <1>3, <1>4, <1>5, <1>6 DEF TextIInv

LEMMA ArriveKeeps ==
  ASSUME TextIInv, Arrive
  PROVE  TextIInv'
<1>1. UNCHANGED <<prompt, link, eof, sent, served, open, asker, pinged, lost, last>>
  BY DEF Arrive
<1>2. PICK k \in 1..Len(owed) :
        /\ prompt => k = Len(owed)
        /\ stream' = stream \o SubSeq(owed, 1, k)
        /\ owed' = SubSeq(owed, k + 1, Len(owed))
  BY DEF Arrive
<1>3. owed \in Seq(PieceOf(served)) /\ stream \in Seq(PieceOf(served)) /\ owed # <<>>
  BY <1>2 DEF TextIInv
<1>4. owed' \in Seq(PieceOf(served)) /\ stream' \in Seq(PieceOf(served))
  BY <1>2, <1>3
<1>5. prompt /\ stream = <<>> => owed' = <<>> /\ stream' = owed
  BY <1>2, <1>3
<1>6. link = "busy" /\ prompt /\ ~lost =>
        served = Len(sent) /\ owed' = <<>> /\ Whole(stream)'
  <2>1. SUFFICES ASSUME link = "busy", prompt, ~lost
                 PROVE  served = Len(sent) /\ owed' = <<>> /\ Whole(stream)'
    OBVIOUS
  <2>2. served = Len(sent) /\ stream = <<>> /\ Whole(owed)
    BY <1>3, <2>1 DEF TextIInv
  <2>3. QED
    BY <1>1, <1>5, <2>1, <2>2 DEF Whole
<1>7. ~(link = "idle" /\ prompt /\ ~lost)
  BY <1>3 DEF TextIInv
<1>8. QED
  BY <1>1, <1>4, <1>6, <1>7 DEF TextIInv

LEMMA ServerClosesKeeps ==
  ASSUME TextIInv, ServerCloses
  PROVE  TextIInv'
<1>1. /\ owed' = <<>> /\ open' = FALSE
      /\ UNCHANGED <<prompt, link, sent, served, stream, asker, pinged, lost, last>>
  BY DEF ServerCloses
<1>2. owed' \in Seq(PieceOf(served))
  BY <1>1
<1>3. Whole(stream) => Whole(stream)'
  BY <1>1 DEF Whole
<1>4. WasWhole => WasWhole'
  BY <1>1 DEF WasWhole
<1>5. QED
  BY <1>1, <1>2, <1>3, <1>4 DEF TextIInv

LEMMA LinkKeeps ==
  ASSUME TextIInv, Connect \/ ConnectFails \/ Close
  PROVE  TextIInv'
<1>1. CASE Connect
  <2>1. /\ link' = "idle" /\ sent' = <<>> /\ served' = 0 /\ owed' = <<>> /\ stream' = <<>>
        /\ lost' = FALSE /\ last'.of = 0 /\ UNCHANGED <<prompt, asker>> /\ link = "down"
    BY <1>1 DEF Connect, Failure
  <2>2. /\ sent' \in Seq(Commands) /\ Len(sent') = 0 /\ served' \in 0..Len(sent')
        /\ owed' \in Seq(PieceOf(served')) /\ stream' \in Seq(PieceOf(served'))
    BY <2>1
  <2>3. QED
    BY <2>1, <2>2 DEF TextIInv
<1>2. CASE ConnectFails
  <2>1. link = "down" /\ UNCHANGED <<prompt, link, sent, served, owed, stream, asker, lost>>
    BY <1>2 DEF ConnectFails, serverVars
  <2>2. QED
    BY <2>1 DEF TextIInv
<1>3. CASE Close
  <2>1. /\ link' = "down" /\ asker = "cursor"
        /\ UNCHANGED <<prompt, sent, served, owed, stream, asker, lost>>
    BY <1>3 DEF Close
  <2>2. QED
    BY <2>1 DEF TextIInv
<1>4. QED
  BY <1>1, <1>2, <1>3

LEMMA SendsKeeps ==
  ASSUME TextIInv, Call \/ PingBegins \/ PingCommits
  PROVE  TextIInv'
<1>1. PICK command \in Commands :
        /\ Sends(command)
        /\ asker' = "commit" => command = "commit"
  BY DEF Call, PingBegins, PingCommits, Commands
<1>2. /\ link = "idle" /\ link' = "busy" /\ sent' = Append(sent, command)
      /\ UNCHANGED <<prompt, served, owed, stream, lost>>
  BY <1>1 DEF Sends, serverVars
<1>3. sent \in Seq(Commands) /\ served \in 0..Len(sent)
  BY DEF TextIInv
<1>4. /\ sent' \in Seq(Commands) /\ Len(sent') = Len(sent) + 1 /\ sent' # <<>>
      /\ sent'[Len(sent')] = command
  BY <1>2, <1>3
<1>5. served' \in 0..Len(sent') /\ (served = Len(sent) => served' = Len(sent') - 1)
  BY <1>2, <1>3, <1>4
<1>6. QED
  BY <1>1, <1>2, <1>4, <1>5 DEF TextIInv

LEMMA FailsKeeps ==
  ASSUME TextIInv, SendFails \/ TimeOut \/ Disconnected
  PROVE  TextIInv'
<1>1. /\ \E kind : Fails(kind)
      /\ UNCHANGED <<prompt, sent, served, owed, stream>> /\ link # "down"
  BY DEF SendFails, TimeOut, Disconnected, serverVars
<1>2. link' = "idle" /\ lost' = TRUE /\ asker' = "cursor"
  BY <1>1 DEF Fails, Returns, Failure
<1>3. QED
  BY <1>1, <1>2 DEF TextIInv

\* What a read returns.
LEMMA ReadReturns ==
  ASSUME TextIInv, Read
  PROVE  LET n == Min({Buffer, Len(stream)})
             result == Answer(KindOf(stream[1], sent[Len(sent)]), SubSeq(stream, 1, n))
         IN  /\ n \in 1..Len(stream) /\ Returns(result)
             /\ stream' = SubSeq(stream, n + 1, Len(stream))
             /\ result.of = stream[1].of /\ result.of \in 1..served
             /\ result.pieces = SubSeq(stream, 1, n)
             /\ result.kind \in {"Abort", "Query", "Command"}
             /\ Len(stream) <= Buffer => n = Len(stream)
<1> DEFINE n == Min({Buffer, Len(stream)})
           pieces == SubSeq(stream, 1, n)
<1>1. /\ stream # <<>> /\ stream' = SubSeq(stream, n + 1, Len(stream))
      /\ Returns(Answer(KindOf(stream[1], sent[Len(sent)]), pieces))
  BY DEF Read
<1>2. stream \in Seq(PieceOf(served)) /\ served \in Nat /\ Buffer \in Nat \ {0}
  BY TextAssumption DEF TextIInv
<1>3. Len(stream) \in Nat \ {0} /\ stream[1] \in PieceOf(served)
  BY <1>1, <1>2
<1>4. n \in 1..Len(stream) /\ (Len(stream) <= Buffer => n = Len(stream))
  <2>1. \E x \in {Buffer, Len(stream)} : \A y \in {Buffer, Len(stream)} : x <= y
    BY <1>2, <1>3
  <2>2. n \in {Buffer, Len(stream)} /\ n <= Buffer /\ n <= Len(stream)
    BY <2>1 DEF Min
  <2>3. QED
    BY <1>2, <1>3, <2>2
<1> HIDE DEF n
<1>5. pieces[1] = stream[1] /\ stream[1].of \in 1..served
  BY <1>2, <1>3, <1>4 DEF PieceOf
<1>6. QED
  BY <1>1, <1>4, <1>5 DEF n, Answer, KindOf

LEMMA ReadKeeps ==
  ASSUME TextIInv, Read
  PROVE  TextIInv'
<1> DEFINE n == Min({Buffer, Len(stream)})
           result == Answer(KindOf(stream[1], sent[Len(sent)]), SubSeq(stream, 1, n))
<1>1. /\ n \in 1..Len(stream) /\ Returns(result)
      /\ stream' = SubSeq(stream, n + 1, Len(stream))
      /\ result.of = stream[1].of /\ result.of \in 1..served
      /\ result.pieces = SubSeq(stream, 1, n)
      /\ Len(stream) <= Buffer => n = Len(stream)
  BY ReadReturns
<1>2. /\ link = "busy" /\ UNCHANGED <<prompt, sent, served, owed, lost>>
      /\ result.kind = KindOf(stream[1], sent[Len(sent)])
  BY DEF Read, Answer
<1> HIDE DEF n, result
<1>3. /\ link' = "idle" /\ last' = result /\ asker' \in {asker, "cursor"}
      /\ asker' # "commit"
  BY <1>1 DEF Returns, TextIInv
<1>4. stream \in Seq(PieceOf(served)) /\ served \in Nat
  BY DEF TextIInv
<1>5. stream' \in Seq(PieceOf(served))
  BY <1>1, <1>4
<1>6. prompt /\ ~lost =>
        /\ served = Len(sent) /\ owed = <<>> /\ stream' = <<>>
        /\ WasWhole'
  <2>1. SUFFICES ASSUME prompt, ~lost
                 PROVE  served = Len(sent) /\ owed = <<>> /\ stream' = <<>> /\ WasWhole'
    OBVIOUS
  <2>2. served = Len(sent) /\ owed = <<>> /\ Whole(stream) /\ sent # <<>>
    BY <1>1, <1>2, <1>4, <2>1 DEF TextIInv
  <2>3. PICK text \in Texts, length \in 1..MaxPieces :
          length <= Buffer /\ stream = Response(Len(sent), text, length)
    BY <2>2 DEF Whole
  <2>4. Len(sent) \in Nat \ {0} /\ length \in Nat \ {0}
    BY <2>2, TextAssumption DEF TextIInv
  <2>5. /\ Len(stream) = length
        /\ \A k \in 1..length : /\ stream[k].of = Len(sent) /\ stream[k].text = text
                                /\ stream[k].number = k
    BY <2>3, <2>4, ResponseIs
  <2>6. n = length /\ stream' = <<>> /\ result.pieces = stream
    BY <1>1, <1>4, <2>3, <2>4, <2>5
  <2>7. \A k \in DOMAIN stream : stream[k].of = Len(sent)
    BY <1>4, <2>5
  <2>8. result.kind = "Abort" <=> stream[1].text = "abort"
    BY <1>2, <2>4, <2>5 DEF KindOf
  <2>9. {result.pieces[k].of : k \in DOMAIN result.pieces} = {Len(sent)}
    <3>1. 1 \in DOMAIN stream
      BY <1>4, <2>4, <2>5
    <3>2. QED
      BY <2>6, <2>7, <3>1
  <2>10. result.of = Len(sent) /\ result.pieces[1].text = stream[1].text
    BY <1>1, <2>4, <2>5, <2>6
  <2>11. QED
    BY <1>2, <1>3, <2>2, <2>6, <2>8, <2>9, <2>10 DEF WasWhole
<1>7. QED
  BY <1>2, <1>3, <1>5, <1>6 DEF TextIInv

LEMMA TextStep == TextIInv /\ [Next]_vars => TextIInv'
<1> SUFFICES ASSUME TextIInv, [Next]_vars
             PROVE  TextIInv'
  OBVIOUS
<1>1. CASE Connect \/ ConnectFails \/ Close
  BY <1>1, LinkKeeps
<1>2. CASE Call \/ PingBegins \/ PingCommits
  BY <1>2, SendsKeeps
<1>3. CASE SendFails \/ TimeOut \/ Disconnected
  BY <1>3, FailsKeeps
<1>4. CASE Read
  BY <1>4, ReadKeeps
<1>5. CASE Serve
  BY <1>5, ServeKeeps
<1>6. CASE Arrive
  BY <1>6, ArriveKeeps
<1>7. CASE ServerCloses
  BY <1>7, ServerClosesKeeps
<1>8. CASE UNCHANGED vars
  BY <1>8 DEF vars, serverVars, TextIInv, Whole, WasWhole
<1>9. QED
  BY <1>1, <1>2, <1>3, <1>4, <1>5, <1>6, <1>7, <1>8 DEF Next

LEMMA TextHolds == Spec => []TextIInv
<1>1. ASSUME Init
      PROVE  TextIInv
  <2>1. /\ prompt \in BOOLEAN /\ link = "down" /\ lost = FALSE /\ asker = "cursor"
        /\ sent = <<>> /\ served = 0 /\ owed = <<>> /\ stream = <<>>
    BY <1>1 DEF Init
  <2>2. /\ sent \in Seq(Commands) /\ Len(sent) = 0 /\ served \in 0..Len(sent)
        /\ owed \in Seq(PieceOf(served)) /\ stream \in Seq(PieceOf(served))
    BY <2>1
  <2>3. QED
    BY <2>1, <2>2 DEF TextIInv
<1>2. QED
  BY <1>1, TextStep, PTL DEF Spec

---------------------------------------------------------------------------

\* With responses of one piece that fit into the buffer, what a call returns is
\* the whole response to it (send_cmd in client.rs), however long a response
\* and a buffer are.
THEOREM AnswersAreWhole == Spec => []AnswerIsWhole
<1>1. TextIInv => AnswerIsWhole
  BY DEF TextIInv, AnswerIsWhole, WasWhole
<1>2. QED
  BY <1>1, TextHolds, PTL

\* Then a ping that returns Ok has left no transaction behind (ping in client.rs).
THEOREM PingsLeaveNothing == Spec => PingLeavesNothing
<1> DEFINE PingEnds ==
      /\ asker = "commit" /\ asker' = "cursor" /\ pinged' = "ok"
      /\ prompt /\ ~lost /\ last'.pieces[1].text # "error"
<1>1. ASSUME TextIInv, [Next]_vars, PingEnds
      PROVE  ~open
  <2>1. link = "busy" /\ sent[Len(sent)] = "commit" /\ sent # <<>> /\ sent \in Seq(Commands)
    BY <1>1 DEF TextIInv
  <2>2. CASE Read
    <3> DEFINE n == Min({Buffer, Len(stream)})
    <3>1. n \in 1..Len(stream) /\ last'.pieces = SubSeq(stream, 1, n)
      BY <1>1, <2>2, ReadReturns DEF Returns
    <3> HIDE DEF n
    <3>2. stream \in Seq(PieceOf(served))
      BY <1>1 DEF TextIInv
    <3>3. stream # <<>> /\ last'.pieces[1] = stream[1]
      BY <3>1, <3>2
    <3>4. Whole(stream)
      BY <1>1, <2>1, <3>3 DEF TextIInv
    <3>5. PICK text \in Texts, length \in 1..MaxPieces :
            /\ stream = Response(Len(sent), text, length)
            /\ sent[Len(sent)] = "commit" /\ text # "error" => ~open
      BY <3>4 DEF Whole
    <3>6. Len(sent) \in Nat \ {0} /\ length \in Nat \ {0}
      BY <2>1, TextAssumption
    <3>7. stream[1].text = text
      BY <3>5, <3>6, ResponseIs
    <3>8. QED
      BY <1>1, <2>1, <3>3, <3>5, <3>7
  <2>3. ASSUME NEW kind, Fails(kind)
        PROVE  FALSE
    <3>1. Failure(kind).of = 0
      BY DEF Failure
    <3>2. pinged' = "failed"
      BY <1>1, <2>3, <3>1 DEF Fails, Returns
    <3>3. QED
      BY <1>1, <3>2
  <2>4. CASE SendFails \/ TimeOut \/ Disconnected
    BY <2>3, <2>4 DEF SendFails, TimeOut, Disconnected
  <2>5. CASE Connect \/ ConnectFails \/ Call \/ PingBegins \/ PingCommits \/ Close
    BY <1>1, <2>1, <2>5
       DEF Connect, ConnectFails, Call, PingBegins, PingCommits, Close
  <2>6. CASE Serve \/ Arrive \/ ServerCloses
    BY <1>1, <2>6 DEF Serve, Arrive, ServerCloses
  <2>7. CASE UNCHANGED vars
    BY <1>1, <2>7 DEF vars
  <2>8. QED
    BY <1>1, <2>2, <2>4, <2>5, <2>6, <2>7 DEF Next
<1>2. QED
  BY <1>1, TextHolds, PTL DEF Spec, PingLeavesNothing

LEMMA SessStep == TextIInv /\ [Next]_vars => [prompt => Sess!Next]_(Sess!vars)
<1> SUFFICES ASSUME TextIInv, [Next]_vars, prompt
             PROVE  [Sess!Next]_(Sess!vars)
  OBVIOUS
<1> USE DEF Sess!Next
<1>1. sent \in Seq(Commands) /\ served \in 0..Len(sent) /\ Len(sent) \in Nat
  BY DEF TextIInv
<1>2. CASE Connect
  <2>1. Sess!Open
    BY <1>2 DEF Connect, Failure, Sess!Open, Sess!Opened
  <2>2. QED
    BY <2>1
<1>3. CASE ConnectFails
  <2>1. Sess!OpenFails
    BY <1>3 DEF ConnectFails, Failure, Sess!OpenFails, Sess!Failures, Sess!Failure
  <2>2. QED
    BY <2>1
<1>4. CASE Close
  <2>1. Sess!Close
    BY <1>4 DEF Close, Sess!Close
  <2>2. QED
    BY <2>1
<1>5. CASE Call \/ PingBegins \/ PingCommits
  <2>1. PICK command \in Commands : Sends(command)
    BY <1>5 DEF Call, PingBegins, PingCommits, Commands
  <2>2. Len(sent') = Len(sent) + 1
    BY <1>1, <2>1 DEF Sends
  <2>3. Sess!Call
    BY <2>1, <2>2 DEF Sends, Sess!Call
  <2>4. QED
    BY <2>3
<1>6. CASE SendFails \/ TimeOut \/ Disconnected
  <2>1. PICK kind \in {"Connection", "Timeout"} : Fails(kind)
    BY <1>6 DEF SendFails, TimeOut, Disconnected
  <2>2. link \in {"idle", "busy"} /\ UNCHANGED sent
    BY <1>6 DEF SendFails, TimeOut, Disconnected
  <2>3. Sess!Fail
    BY <2>1, <2>2 DEF Fails, Returns, Failure, Sess!Fail, Sess!Failures, Sess!Failure
  <2>4. QED
    BY <2>3
<1>7. CASE Read
  <2>1. /\ link = "busy" /\ link' = "idle" /\ UNCHANGED <<prompt, sent, lost>>
        /\ last'.of \in 1..served
        /\ last'.kind \in {"Abort", "Query", "Command"}
    BY <1>7, ReadReturns DEF Read, Returns
  <2>2. ~lost => last'.of = Len(sent)
    <3>1. TextIInv'
      BY <1>7, ReadKeeps
    <3>2. last'.of # 0
      BY <1>1, <2>1
    <3>3. QED
      BY <2>1, <3>1, <3>2 DEF TextIInv, WasWhole
  <2>3. last'.of \in 1..Len(sent)
    BY <1>1, <2>1
  <2>4. Sess!Reply
    BY <2>1, <2>2, <2>3 DEF Sess!Reply, Sess!Answer, Sess!Answers
  <2>5. QED
    BY <2>4
<1>8. CASE Serve \/ Arrive \/ ServerCloses
  BY <1>8 DEF Serve, Arrive, ServerCloses, Sess!vars
<1>9. CASE UNCHANGED vars
  BY <1>9 DEF vars, Sess!vars
<1>10. QED
  BY <1>2, <1>3, <1>4, <1>5, <1>6, <1>7, <1>8, <1>9 DEF Next

\* And to its caller the connection is then the Session that the wire client
\* always is.
THEOREM Implementation == Spec => ImplementsSession
<1>1. Init => (prompt => Sess!Init)
  BY DEF Init, Failure, Sess!Init, Sess!Failure
<1>2. QED
  BY <1>1, SessStep, TextHolds, PTL DEF Spec, ImplementsSession

---------------------------------------------------------------------------

LEMMA Tailed ==
  ASSUME NEW s \in Seq(Pieces), NEW n \in 0..Len(s)
  PROVE  SubSeq(s, n + 1, Len(s)) \in Seq(Pieces) /\ SubSeq(s, 1, n) \in Seq(Pieces)
OBVIOUS

LEMMA NothingYet ==
  /\ <<>> \in Seq(Pieces) /\ <<>> \in Seq(Commands)
  /\ Len(<<>>) = 0 /\ MaxCalls \in Nat /\ 0 <= MaxCalls
BY TextAssumption

LEMMA ServerTypes ==
  ASSUME TextIInv, TypeOK, Serve \/ Arrive \/ ServerCloses
  PROVE  TypeOK'
<1> USE DEF TypeOK
<1>1. CASE Serve
  <2>1. PICK text \in Texts, length \in 1..MaxPieces :
          owed' = Response(served + 1, text, length)
    BY <1>1 DEF Serve
  <2>2. /\ served' = served + 1 /\ served < Len(sent) /\ Len(sent) \in Nat
        /\ Len(sent) <= MaxCalls /\ served \in Nat
        /\ {MaxCalls, MaxPieces} \subseteq Nat
        /\ UNCHANGED <<prompt, link, eof, sent, stream, asker, pinged, lost, last>>
    BY <1>1, TextAssumption DEF Serve
  <2>3. \A k \in 1..length : Piece(served + 1, text, k) \in Pieces
    BY <2>2 DEF Piece, Pieces
  <2>4. owed' \in [1..length -> Pieces] /\ length \in Nat
    BY <2>1, <2>2, <2>3 DEF Response
  <2>5. owed' \in Seq(Pieces)
    BY <2>4
  <2>6. open' \in BOOLEAN
    BY <1>1 DEF Serve, Texts
  <2>7. QED
    BY <2>2, <2>5, <2>6
<1>2. CASE Arrive
  <2>1. PICK k \in 1..Len(owed) : /\ stream' = stream \o SubSeq(owed, 1, k)
                                  /\ owed' = SubSeq(owed, k + 1, Len(owed))
    BY <1>2 DEF Arrive
  <2>2. owed' \in Seq(Pieces) /\ stream' \in Seq(Pieces)
    BY <2>1, Tailed
  <2>3. QED
    BY <1>2, <2>2 DEF Arrive
<1>3. CASE ServerCloses
  BY <1>3, NothingYet DEF ServerCloses
<1>4. QED
  BY <1>1, <1>2, <1>3

LEMMA ClientTypes ==
  ASSUME TextIInv, TypeOK,
         \/ Connect \/ ConnectFails \/ Call \/ PingBegins \/ PingCommits \/ SendFails
         \/ Read \/ TimeOut \/ Disconnected \/ Close
  PROVE  TypeOK'
<1> USE DEF TypeOK, serverVars
<1>1. CASE Connect
  <2>1. prompt' \in BOOLEAN /\ eof' \in BOOLEAN /\ open' \in BOOLEAN /\ lost' \in BOOLEAN
    BY <1>1 DEF Connect
  <2>2. /\ link' = "idle" /\ asker' = asker /\ pinged' = "never" /\ last'.of = 0
        /\ sent' = <<>> /\ served' = 0 /\ owed' = <<>> /\ stream' = <<>>
    BY <1>1 DEF Connect, Failure
  <2>3. asker # "commit"
    BY <1>1 DEF Connect
  <2>4. QED
    BY <2>1, <2>2, <2>3, NothingYet
<1>2. CASE ConnectFails
  BY <1>2 DEF ConnectFails, Failure
<1>3. ASSUME NEW command \in Commands, Sends(command), asker' \in {"cursor", "begin", "commit"}
      PROVE  TypeOK'
  <2>1. /\ sent' \in Seq(Commands) /\ Len(sent') = Len(sent) + 1 /\ Len(sent') <= MaxCalls
        /\ Len(sent) \in Nat
    BY <1>3, TextAssumption DEF Sends
  <2>2. last' = last /\ last.of \in 0..Len(sent) /\ link' = "busy"
        /\ UNCHANGED <<prompt, served, eof, owed, stream, open, pinged, lost>>
    BY <1>3 DEF Sends
  <2>3. QED
    BY <1>3, <2>1, <2>2
<1>4. CASE Call \/ PingBegins \/ PingCommits
  BY <1>3, <1>4 DEF Call, PingBegins, PingCommits, Commands
<1>5. ASSUME NEW kind, Fails(kind), UNCHANGED <<prompt, sent, serverVars>>
      PROVE  TypeOK'
  BY <1>5 DEF Fails, Returns, Failure
<1>6. CASE SendFails \/ TimeOut \/ Disconnected
  BY <1>5, <1>6 DEF SendFails, TimeOut, Disconnected
<1>7. CASE Close
  BY <1>7 DEF Close
<1>8. CASE Read
  <2> DEFINE n == Min({Buffer, Len(stream)})
  <2>1. stream \in Seq(PieceOf(served)) /\ stream # <<>> /\ served \in 0..Len(sent)
        /\ Buffer \in Nat \ {0}
    BY <1>8, TextAssumption DEF Read, TextIInv
  <2>2. n \in 1..Len(stream)
    BY <2>1 DEF Min
  <2> HIDE DEF n
  <2>3. stream' \in Seq(Pieces)
    <3>1. stream' = SubSeq(stream, n + 1, Len(stream)) /\ stream \in Seq(Pieces)
      BY <1>8 DEF Read, n
    <3>2. n \in 0..Len(stream)
      BY <2>2
    <3>3. QED
      BY <3>1, <3>2, Tailed
  <2>4. last'.of = SubSeq(stream, 1, n)[1].of
    BY <1>8 DEF Read, Returns, Answer, n
  <2>5. last'.of \in 0..Len(sent)
    <3>1. SubSeq(stream, 1, n)[1] = stream[1] /\ stream[1] \in PieceOf(served)
      BY <2>1, <2>2
    <3>2. stream[1].of \in 1..served
      BY <3>1 DEF PieceOf
    <3>3. last'.of = stream[1].of
      BY <2>4, <3>1
    <3>4. served \in Nat /\ Len(sent) \in Nat /\ served <= Len(sent)
      BY <2>1
    <3>5. QED
      BY <3>2, <3>3, <3>4
  <2>6. /\ link' = "idle" /\ asker' \in {"cursor", "begin"} /\ pinged' \in {"never", "ok", "failed"}
        /\ UNCHANGED <<prompt, sent, eof, served, owed, open, lost>>
    BY <1>8 DEF Read, Returns
  <2>7. QED
    BY <2>3, <2>5, <2>6
<1>9. QED
  BY <1>1, <1>2, <1>4, <1>6, <1>7, <1>8

\* Every variable of a text connection keeps its type, and the result a call
\* returns never answers a command that was not sent (client.rs).
THEOREM TextTypeCorrect == Spec => []TypeOK
<1>1. Init => TypeOK
  <2> SUFFICES ASSUME Init PROVE TypeOK
    OBVIOUS
  <2>1. prompt \in BOOLEAN /\ eof \in BOOLEAN /\ open \in BOOLEAN /\ lost \in BOOLEAN
    BY DEF Init
  <2>2. /\ link = "down" /\ asker = "cursor" /\ pinged = "never"
        /\ sent = <<>> /\ served = 0 /\ owed = <<>> /\ stream = <<>>
    BY DEF Init
  <2>3. QED
    BY <2>1, <2>2, NothingYet DEF TypeOK
<1>2. TextIInv /\ TypeOK /\ [Next]_vars => TypeOK'
  <2>1. CASE UNCHANGED vars
    BY <2>1 DEF vars, serverVars, TypeOK
  <2>2. QED
    BY <2>1, ServerTypes, ClientTypes DEF Next
<1>3. QED
  BY <1>1, <1>2, TextHolds, PTL DEF Spec
=============================================================================
