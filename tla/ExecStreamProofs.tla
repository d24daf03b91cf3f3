-------------------------- MODULE ExecStreamProofs --------------------------
(***************************************************************************)
(* For every set of responses and every bound on the calls: exec_stream     *)
(* keeps the inductive invariant IInv, hence answers are attributed to      *)
(* their own call until one gives up, and are of one response until one     *)
(* gives up inside of a frame; and the client implements Session.           *)
(***************************************************************************)
EXTENDS ExecStream, SequenceTheorems, TLAPS

---------------------------------------------------------------------------
(* What happens to the stream. *)

LEMMA NonEmpty ==
  ASSUME NEW S, NEW s \in Seq(S)
  PROVE  /\ Len(s) \in Nat
         /\ s # <<>> <=> Len(s) > 0
         /\ s # <<>> => Head(s) = s[1]
BY EmptySeq

\* The units of a response carry its request, and only the last one ends it.
LEMMA UnitsShape ==
  ASSUME NEW n \in Nat, NEW r \in Responses
  PROVE  /\ Units(n, r) \in Seq(Unit)
         /\ Len(Units(n, r)) = 2 * Len(r)
         /\ Len(Units(n, r)) > 0
         /\ \A u \in 1..Len(Units(n, r)) :
              /\ Units(n, r)[u].req = n
              /\ EndsResponse(Units(n, r)[u]) <=> u = Len(Units(n, r))
              /\ Units(n, r)[u].part = "back" <=> u % 2 = 0
              /\ Units(n, r)[u].part = "front" <=> u % 2 = 1
<1>1. r \in Seq(Frame) /\ Len(r) \in Nat /\ Len(r) > 0
  BY ResponsesAssumption
<1>2. \A u \in 1..(2 * Len(r)) : (u + 1) \div 2 \in 1..Len(r)
  BY <1>1
<1>3. \A u \in 1..(2 * Len(r)) : r[(u + 1) \div 2] \in Frame
  BY <1>1, <1>2, ElementOfSeq
<1>4. Units(n, r) \in [1..(2 * Len(r)) -> Unit]
  BY <1>1, <1>3 DEF Units, Unit, Part
<1>5. Units(n, r) \in Seq(Unit) /\ Len(Units(n, r)) = 2 * Len(r)
  <2>1. 2 * Len(r) \in Nat
    BY <1>1
  <2>2. Units(n, r) \in Seq(Unit)
    BY <1>4, <2>1, SeqDef
  <2>3. /\ Len(Units(n, r)) \in Nat
        /\ DOMAIN Units(n, r) = 1..Len(Units(n, r))
    BY <2>2, LenProperties
  <2>4. DOMAIN Units(n, r) = 1..(2 * Len(r))
    BY DEF Units
  <2>5. \A a, b \in Nat : 1..a = 1..b => a = b
    <3>1. SUFFICES ASSUME NEW a \in Nat, NEW b \in Nat, 1..a = 1..b, a < b
                   PROVE  FALSE
      OBVIOUS
    <3>2. b \in 1..b /\ b \notin 1..a
      BY <3>1
    <3>3. QED
      BY <3>1, <3>2
  <2>6. Len(Units(n, r)) = 2 * Len(r)
    BY <2>1, <2>3, <2>4, <2>5
  <2>7. QED
    BY <2>2, <2>6
<1>6. ASSUME NEW u \in 1..(2 * Len(r))
      PROVE  /\ Units(n, r)[u].req = n
             /\ EndsResponse(Units(n, r)[u]) <=> u = 2 * Len(r)
             /\ Units(n, r)[u].part = "back" <=> u % 2 = 0
             /\ Units(n, r)[u].part = "front" <=> u % 2 = 1
  <2>1. /\ Units(n, r)[u].req = n
        /\ Units(n, r)[u].frame = r[(u + 1) \div 2]
        /\ Units(n, r)[u].part = "back" <=> u % 2 = 0
        /\ Units(n, r)[u].part = "front" <=> u % 2 = 1
    BY <1>1 DEF Units
  <2>2. r[(u + 1) \div 2].tag \in Final <=> (u + 1) \div 2 = Len(r)
    BY <1>2, ResponsesAssumption
  <2>3. (u % 2 = 0 /\ (u + 1) \div 2 = Len(r)) <=> u = 2 * Len(r)
    BY <1>1
  <2>4. QED
    BY <2>1, <2>2, <2>3 DEF EndsResponse
<1>7. QED
  BY <1>1, <1>5, <1>6

\* Reading a unit.
LEMMA TailShape ==
  ASSUME stream \in Seq(Unit), stream # <<>>, StreamShape,
         stream' = Tail(stream), asked' = asked, eof' = eof
  PROVE  /\ stream' \in Seq(Unit)
         /\ StreamShape'
         /\ Head(stream) = stream[1]
         /\ Head(stream) \in Unit
         /\ Len(stream') = Len(stream) - 1
         /\ \A i \in 1..Len(stream') : stream'[i] = stream[i + 1]
         /\ ~EndsResponse(Head(stream)) /\ stream' # <<>> =>
              Head(stream').req = Head(stream).req
         /\ ~EndsResponse(Head(stream)) /\ stream' = <<>> => eof
         /\ stream' # <<>> =>
              (Head(stream).part = "back" <=> Head(stream').part = "front")
<1>1. /\ stream' \in Seq(Unit)
      /\ Len(stream') = Len(stream) - 1
      /\ \A i \in 1..Len(stream') : stream'[i] = stream[i + 1]
      /\ Head(stream) \in Unit
  BY HeadTailProperties
<1>2. Len(stream) \in Nat /\ Len(stream) > 0 /\ Head(stream) = stream[1]
  OBVIOUS
<1>3. stream' # <<>> <=> Len(stream') > 0
  BY <1>1, NonEmpty
<1>4. StreamShape'
  BY <1>1, <1>2, <1>3 DEF StreamShape, EndsResponse
<1>5. stream' # <<>> => Head(stream') = stream[2]
  BY <1>1, <1>2, <1>3
<1>6. ~EndsResponse(Head(stream)) /\ stream' # <<>> =>
        Head(stream').req = Head(stream).req
  BY <1>1, <1>2, <1>3, <1>5 DEF StreamShape
<1>7. ~EndsResponse(Head(stream)) /\ stream' = <<>> => eof
  BY <1>1, <1>2, <1>3 DEF StreamShape
<1>8. stream' # <<>> =>
        (Head(stream).part = "back" <=> Head(stream').part = "front")
  BY <1>1, <1>2, <1>3, <1>5 DEF StreamShape
<1>9. QED
  BY <1>1, <1>2, <1>4, <1>6, <1>7, <1>8

\* Reading with a lost frame boundary drops a beginning of the stream.
LEMMA SuffixShape ==
  ASSUME stream \in Seq(Unit), StreamShape, NEW k \in 0..Len(stream),
         Consume(k), asked' = asked, eof' = eof
  PROVE  stream' \in Seq(Unit) /\ StreamShape'
<1> USE DEF Consume
<1>1. Len(stream) \in Nat
  OBVIOUS
<1>2. \A i \in (k + 1)..Len(stream) : stream[i] \in Unit
  BY <1>1
<1>3. /\ stream' \in Seq(Unit)
      /\ Len(stream') = IF k + 1 <= Len(stream) THEN Len(stream) - k ELSE 0
      /\ \A i \in 1..(Len(stream) - k) : stream'[i] = stream[i + k]
  BY <1>1, <1>2, SubSeqProperties
<1>4. Len(stream') = Len(stream) - k
  BY <1>1, <1>3
<1>5. stream' # <<>> <=> Len(stream') > 0
  BY <1>3, NonEmpty
<1>6. \A i \in 1..Len(stream') : stream'[i] = stream[i + k] /\ i + k \in 1..Len(stream)
  BY <1>1, <1>3, <1>4
<1>7. \A i \in 1..(Len(stream') - 1) :
        /\ ~EndsResponse(stream'[i]) => stream'[i + 1].req = stream'[i].req
        /\ stream'[i].part = "back" <=> stream'[i + 1].part = "front"
  <2>1. SUFFICES ASSUME NEW i \in 1..(Len(stream') - 1)
                 PROVE  /\ ~EndsResponse(stream'[i]) =>
                             stream'[i + 1].req = stream'[i].req
                        /\ stream'[i].part = "back" <=> stream'[i + 1].part = "front"
    OBVIOUS
  <2>2. /\ i + k \in 1..(Len(stream) - 1)
        /\ i \in 1..Len(stream') /\ i + 1 \in 1..Len(stream')
        /\ (i + 1) + k = (i + k) + 1
    BY <1>1, <1>4
  <2>3. stream'[i] = stream[i + k] /\ stream'[i + 1] = stream[(i + k) + 1]
    BY <1>6, <2>2
  <2>4. QED
    BY <2>2, <2>3 DEF StreamShape
<1>8. stream' # <<>> /\ ~eof' => EndsResponse(stream'[Len(stream')])
  <2>1. SUFFICES ASSUME stream' # <<>>, ~eof'
                 PROVE  EndsResponse(stream'[Len(stream')])
    OBVIOUS
  <2>2. /\ Len(stream') \in 1..Len(stream')
        /\ Len(stream') + k = Len(stream)
        /\ Len(stream) > 0
    BY <1>1, <1>4, <1>5, <2>1
  <2>3. stream'[Len(stream')] = stream[Len(stream)] /\ stream # <<>>
    BY <1>6, <2>2, NonEmpty
  <2>4. QED
    BY <2>1, <2>3 DEF StreamShape
<1>9. \A i \in 1..Len(stream') : stream'[i].req \in 1..asked'
  BY <1>6 DEF StreamShape
<1>10. QED
  BY <1>3, <1>7, <1>8, <1>9 DEF StreamShape, EndsResponse

\* The server goes away: an end of the stream is lost.
LEMMA PrefixShape ==
  ASSUME stream \in Seq(Unit), StreamShape, NEW k \in 0..Len(stream),
         stream' = SubSeq(stream, 1, k), asked' = asked, eof' = TRUE
  PROVE  /\ stream' \in Seq(Unit)
         /\ StreamShape'
         /\ Len(stream') = k
         /\ \A i \in 1..k : stream'[i] = stream[i]
         /\ stream' # <<>> => stream # <<>> /\ Head(stream') = Head(stream)
<1>1. Len(stream) \in Nat
  OBVIOUS
<1>2. \A i \in 1..k : stream[i] \in Unit
  BY <1>1
<1>3. /\ stream' \in Seq(Unit)
      /\ Len(stream') = IF 1 <= k THEN k ELSE 0
      /\ \A i \in 1..k : stream'[i] = stream[i]
  BY <1>1, <1>2, SubSeqProperties
<1>4. Len(stream') = k
  BY <1>1, <1>3
<1>5. stream' # <<>> <=> k > 0
  BY <1>3, <1>4, EmptySeq
<1>6. stream' # <<>> => stream # <<>> /\ Head(stream') = Head(stream)
  BY <1>1, <1>3, <1>4, <1>5
<1>7. StreamShape'
  BY <1>1, <1>3, <1>4 DEF StreamShape, EndsResponse
<1>8. QED
  BY <1>3, <1>4, <1>6, <1>7

LEMMA Parity == \A u \in Nat : u % 2 = 0 <=> (u + 1) % 2 = 1
OBVIOUS

\* The server answers.
LEMMA ServeShape ==
  ASSUME stream \in Seq(Unit), StreamShape, asked \in Nat, served \in 0..asked,
         served < asked, NEW r \in Responses,
         stream' = stream \o Units(served + 1, r), asked' = asked,
         ~eof, eof' = eof
  PROVE  /\ stream' \in Seq(Unit)
         /\ StreamShape'
         /\ stream' # <<>>
         /\ stream # <<>> => Head(stream') = Head(stream)
         /\ stream = <<>> => /\ stream' = Units(served + 1, r)
                             /\ Head(stream').part = "front"
<1> DEFINE us == Units(served + 1, r)
<1>1. /\ us \in Seq(Unit)
      /\ Len(us) \in Nat /\ Len(us) > 0
      /\ \A u \in 1..Len(us) :
           us[u].req = served + 1 /\ (EndsResponse(us[u]) <=> u = Len(us))
  BY UnitsShape
<1>1a. \A u \in 1..Len(us) :
         (us[u].part = "back" <=> u % 2 = 0) /\ (us[u].part = "front" <=> u % 2 = 1)
  BY UnitsShape
<1>1b. us[1].part = "front"
  BY <1>1, <1>1a
<1>1c. \A u \in 1..Len(us) :
         u + 1 <= Len(us) => (us[u].part = "back" <=> us[u + 1].part = "front")
  BY <1>1, <1>1a, Parity
<1> HIDE DEF us
<1>2. /\ stream' \in Seq(Unit)
      /\ Len(stream') = Len(stream) + Len(us)
      /\ \A i \in 1..(Len(stream) + Len(us)) :
           stream'[i] = IF i <= Len(stream) THEN stream[i] ELSE us[i - Len(stream)]
  BY <1>1, ConcatProperties DEF us
<1>3. Len(stream) \in Nat /\ (stream # <<>> <=> Len(stream) > 0)
  BY EmptySeq
<1>4. stream' # <<>>
  BY <1>1, <1>2, <1>3, EmptySeq
<1>5. stream # <<>> => Head(stream') = Head(stream)
  BY <1>1, <1>2, <1>3, <1>4
<1>6. ASSUME NEW i \in 1..Len(stream') PROVE stream'[i].req \in 1..asked
  <2>1. CASE i <= Len(stream)
    BY <1>1, <1>2, <1>3, <2>1 DEF StreamShape
  <2>2. CASE ~(i <= Len(stream))
    <3>1. i - Len(stream) \in 1..Len(us) /\ stream'[i] = us[i - Len(stream)]
      BY <1>1, <1>2, <1>3, <2>2
    <3>2. stream'[i].req = served + 1
      BY <1>1, <3>1
    <3>3. QED
      BY <3>2
  <2>3. QED
    BY <2>1, <2>2
<1>7. EndsResponse(stream'[Len(stream')])
  BY <1>1, <1>2, <1>3
<1>8. ASSUME NEW i \in 1..(Len(stream') - 1), ~EndsResponse(stream'[i])
      PROVE  stream'[i + 1].req = stream'[i].req
  <2>1. CASE i < Len(stream)
    BY <1>1, <1>2, <1>3, <1>8, <2>1 DEF StreamShape
  <2>2. CASE i = Len(stream)
    BY <1>1, <1>2, <1>3, <1>8, <2>2 DEF StreamShape
  <2>3. CASE i > Len(stream)
    <3>1. /\ i - Len(stream) \in 1..Len(us)
          /\ (i + 1) - Len(stream) \in 1..Len(us)
          /\ i \in 1..(Len(stream) + Len(us))
          /\ i + 1 \in 1..(Len(stream) + Len(us))
          /\ ~(i + 1 <= Len(stream))
      BY <1>1, <1>2, <1>3, <2>3
    <3>2. /\ stream'[i] = us[i - Len(stream)]
          /\ stream'[i + 1] = us[(i + 1) - Len(stream)]
      BY <1>2, <2>3, <3>1
    <3>3. QED
      BY <1>1, <3>1, <3>2
  <2>4. i < Len(stream) \/ i = Len(stream) \/ i > Len(stream)
    BY <1>2, <1>3, <1>1
  <2>5. QED
    BY <2>1, <2>2, <2>3, <2>4
<1>9. ASSUME NEW i \in 1..(Len(stream') - 1)
      PROVE  stream'[i].part = "back" <=> stream'[i + 1].part = "front"
  <2>1. CASE i < Len(stream)
    BY <1>1, <1>2, <1>3, <2>1 DEF StreamShape
  <2>2. CASE i = Len(stream)
    <3>1. stream'[i] = stream[Len(stream)] /\ stream'[i + 1] = us[1]
      BY <1>1, <1>2, <1>3, <2>2
    <3>2. stream[Len(stream)].part = "back"
      BY <1>3, <2>2 DEF StreamShape, EndsResponse
    <3>3. QED
      BY <1>1b, <3>1, <3>2
  <2>3. CASE i > Len(stream)
    <3>1. /\ i - Len(stream) \in 1..Len(us)
          /\ (i + 1) - Len(stream) = (i - Len(stream)) + 1
          /\ (i - Len(stream)) + 1 <= Len(us)
          /\ i \in 1..(Len(stream) + Len(us))
          /\ i + 1 \in 1..(Len(stream) + Len(us))
          /\ ~(i + 1 <= Len(stream))
      BY <1>1, <1>2, <1>3, <2>3
    <3>2. /\ stream'[i] = us[i - Len(stream)]
          /\ stream'[i + 1] = us[(i - Len(stream)) + 1]
      BY <1>2, <2>3, <3>1
    <3>3. QED
      BY <1>1c, <3>1, <3>2
  <2>4. i < Len(stream) \/ i = Len(stream) \/ i > Len(stream)
    BY <1>2, <1>3, <1>1
  <2>5. QED
    BY <2>1, <2>2, <2>3, <2>4
<1>10. StreamShape'
  BY <1>6, <1>7, <1>8, <1>9 DEF StreamShape, EndsResponse
<1>11. stream = <<>> => stream' = us
  BY <1>1, ConcatEmptySeq DEF us
<1>12. stream = <<>> => Head(stream').part = "front"
  BY <1>1, <1>1b, <1>2, <1>3, <1>4, <1>11
<1>13. QED
  BY <1>2, <1>4, <1>5, <1>10, <1>11, <1>12 DEF us

---------------------------------------------------------------------------
(* Types. *)

Results == [kind : Answers \cup Failures \cup {"Opened"}, req : Nat,
            frames : Seq(Taken)]

\* A result that carries no frame.
LEMMA BlankType ==
  /\ <<>> \in Seq(Unit) /\ <<>> \in Seq(Taken)
  /\ \A kind \in Failures \cup {"Opened"}, n \in Nat :
       Outcome(kind, n, <<>>) \in Results
<1>1. <<>> \in Seq(Unit) /\ <<>> \in Seq(Taken)
  BY EmptySeq
<1>2. QED
  BY <1>1 DEF Outcome, Results

LEMMA TypeInit == Init => TypeOK
<1>1. Outcome("Connection", 0, <<>>) \in Results
  BY BlankType DEF Failures
<1>2. 0 \in 0..MaxCalls
  BY MaxCallsAssumption
<1>3. Init => stream \in Seq(Unit) /\ got \in Seq(Taken)
  BY BlankType DEF Init
<1>4. Init => result \in Results
  BY <1>1 DEF Init
<1>5. Init => pc \in {"closed"} /\ asked = 0 /\ served \in 0..asked
  BY DEF Init
<1>6. Init => {eof, half, tainted, adrift} \subseteq BOOLEAN
  BY DEF Init
<1>7. QED
  BY <1>2, <1>3, <1>4, <1>5, <1>6 DEF TypeOK, Results

LEMMA GiveUpType ==
  ASSUME TypeOK, NEW kind \in Failures, GiveUp(kind)
  PROVE  /\ pc' \in {"closed", "ready", "reading"}
         /\ asked' \in 0..MaxCalls
         /\ half' \in BOOLEAN
         /\ got' \in Seq(Taken)
         /\ result' \in Results
         /\ tainted' \in BOOLEAN
<1>1. asked \in 0..MaxCalls /\ asked \in Nat
  BY MaxCallsAssumption DEF TypeOK
<1>2. Outcome(kind, asked, <<>>) \in Results
  BY <1>1, BlankType
<1>3. QED
  BY <1>1, <1>2, BlankType DEF GiveUp

LEMMA TookType ==
  ASSUME TypeOK, stream # <<>>
  PROVE  /\ Head(stream) \in Unit
         /\ Took \in Seq(Taken)
         /\ Len(Took) = Len(got) + 1
         /\ \A i \in 1..Len(got) : Took[i] = got[i]
         /\ Took[Len(got) + 1].req = Head(stream).req
         /\ Took[Len(got) + 1].frame = Head(stream).frame
         /\ Took # <<>>
<1>1. Head(stream) \in Unit
  BY HeadTailProperties DEF TypeOK
<1>2. [req |-> Head(stream).req, frame |-> Head(stream).frame] \in Taken
  BY <1>1 DEF Unit, Taken
<1>3. got \in Seq(Taken)
  BY DEF TypeOK
<1>4. QED
  BY <1>1, <1>2, <1>3, AppendProperties DEF Took

LEMMA AnswerKindType == ASSUME NEW f PROVE AnswerKind(f) \in Answers
BY DEF AnswerKind, Answers

\* A frame made of the rest of another.
LEMMA GarbledType ==
  ASSUME TypeOK, NEW tag \in Tags
  PROVE  /\ TookGarbled(tag) \in Seq(Taken)
         /\ Len(TookGarbled(tag)) = Len(got) + 1
         /\ \A i \in 1..Len(got) : TookGarbled(tag)[i] = got[i]
         /\ TookGarbled(tag)[Len(got) + 1].req = 0
         /\ TookGarbled(tag)[Len(got) + 1].frame = Garbled(tag)
         /\ TookGarbled(tag) # <<>>
<1>1. got \in Seq(Taken) /\ Len(got) \in Nat /\ (got # <<>> <=> Len(got) > 0)
  BY EmptySeq DEF TypeOK
<1>2. Garbled(tag) \in Frame
  BY <1>1 DEF Garbled, Frame, HasMeta, RowCount, Flaws
<1>3. [req |-> 0, frame |-> Garbled(tag)] \in Taken
  BY <1>2 DEF Taken
<1>4. QED
  BY <1>1, <1>3, AppendProperties DEF TookGarbled

\* A misread call that gives up.
LEMMA MisreadGivesUp ==
  ASSUME MisreadRefused \/ MisreadStarves
  PROVE  /\ BeyondBoundary
         /\ \E k \in 0..Len(stream) : Consume(k)
         /\ \E kind \in Failures : GiveUp(kind)
         /\ UNCHANGED <<adrift, served, eof>>
BY DEF MisreadRefused, MisreadStarves, Failures, serverVars

LEMMA TypeStep ==
  ASSUME TypeOK, StreamShape, [Next]_vars
  PROVE  TypeOK'
<1> USE DEF TypeOK, Results
<1>1. CASE Connect
  <2>1. Outcome("Opened", 0, <<>>) \in Results
    BY BlankType
  <2>2. 0 \in 0..MaxCalls
    BY MaxCallsAssumption
  <2>3. stream' \in Seq(Unit) /\ got' \in Seq(Taken)
    BY <1>1, BlankType DEF Connect
  <2>4. result' \in Results
    BY <1>1, <2>1 DEF Connect
  <2>5. pc' \in {"ready"} /\ asked' = 0 /\ served' \in 0..asked'
    BY <1>1 DEF Connect
  <2>6. {eof', half', tainted', adrift'} \subseteq BOOLEAN
    BY <1>1 DEF Connect
  <2>7. QED
    BY <2>2, <2>3, <2>4, <2>5, <2>6
<1>2. CASE ConnectFails
  <2>1. result' \in Results
    BY <1>2, BlankType DEF ConnectFails
  <2>2. QED
    BY <1>2, <2>1 DEF ConnectFails, serverVars
<1>3. CASE Close
  BY <1>3 DEF Close, serverVars
<1>4. CASE RefuseSql
  <2>1. asked \in Nat
    BY MaxCallsAssumption
  <2>2. Outcome("Protocol", asked, <<>>) \in Results
    BY <2>1, BlankType DEF Failures
  <2>3. QED
    BY <1>4, <2>2 DEF RefuseSql, serverVars
<1>5. CASE Send
  <2>1. asked' \in 0..MaxCalls /\ served' \in 0..asked'
    BY <1>5, MaxCallsAssumption DEF Send, serverVars
  <2>2. got' \in Seq(Taken)
    BY <1>5, BlankType DEF Send
  <2>3. QED
    BY <1>5, <2>1, <2>2 DEF Send, serverVars
<1>6. CASE SendFails
  BY <1>6, GiveUpType DEF SendFails, serverVars, Failures, GiveUp
<1>7. CASE ReadFront
  BY <1>7, TailShape DEF ReadFront, serverVars
<1>8. CASE BadHeader
  BY <1>8, GiveUpType, TailShape DEF BadHeader, serverVars, Failures, GiveUp
<1>9. CASE MisreadRefused \/ MisreadStarves
  <2>1. stream' \in Seq(Unit)
    BY <1>9, MisreadGivesUp, SuffixShape DEF GiveUp
  <2>2. QED
    BY <1>9, <2>1, MisreadGivesUp, GiveUpType DEF GiveUp
<1>9a. CASE MisreadTaken
  <2>1. PICK k \in 1..Len(stream), tag \in Tags :
          got' = TookGarbled(tag) /\ Consume(k)
    BY <1>9a DEF MisreadTaken
  <2>2. UNCHANGED <<pc, asked, half, result, tainted, adrift, served, eof>>
    BY <1>9a DEF MisreadTaken, serverVars
  <2>3. stream' \in Seq(Unit)
    BY <2>1, <2>2, SuffixShape
  <2>4. got' \in Seq(Taken)
    BY <2>1, GarbledType
  <2>5. QED
    BY <2>2, <2>3, <2>4
<1>9b. CASE MisreadFinishes
  <2>1. PICK k \in 0..Len(stream), tag \in Tags :
          /\ result' = Outcome(AnswerKind(Garbled(tag)), asked, TookGarbled(tag))
          /\ Consume(k)
    BY <1>9b DEF MisreadFinishes
  <2>2. /\ UNCHANGED <<asked, half, tainted, adrift, served, eof>>
        /\ pc' = "ready" /\ got' = <<>>
    BY <1>9b DEF MisreadFinishes, serverVars
  <2>3. stream' \in Seq(Unit)
    BY <2>1, <2>2, SuffixShape
  <2>4. result' \in [kind : Answers \cup Failures \cup {"Opened"}, req : Nat,
                     frames : Seq(Taken)]
    BY <2>1, GarbledType, AnswerKindType, MaxCallsAssumption DEF Outcome
  <2>5. QED
    BY <2>2, <2>3, <2>4, BlankType
<1>10. CASE TakeFrame
  BY <1>10, TookType, TailShape DEF TakeFrame, AtFrame, serverVars
<1>11. CASE FinishCall
  <2>1. result' \in [kind : Answers \cup Failures \cup {"Opened"}, req : Nat,
                     frames : Seq(Taken)]
    BY <1>11, TookType, AnswerKindType, MaxCallsAssumption
       DEF FinishCall, AtFrame, Outcome
  <2>2. QED
    BY <1>11, <2>1, TailShape, EmptySeq DEF FinishCall, AtFrame, serverVars
<1>12. CASE RejectFrame
  BY <1>12, GiveUpType, TailShape
     DEF RejectFrame, AtFrame, serverVars, Failures, GiveUp
<1>13. CASE TimeOut
  BY <1>13, GiveUpType DEF TimeOut, serverVars, Failures, GiveUp
<1>14. CASE Disconnected
  BY <1>14, GiveUpType DEF Disconnected, serverVars, Failures, GiveUp
<1>15. CASE Serve
  <2>1. asked \in Nat
    BY MaxCallsAssumption
  <2>2. QED
    BY <1>15, <2>1, ServeShape DEF Serve, clientVars
<1>16. CASE ServerCloses
  BY <1>16, PrefixShape DEF ServerCloses, clientVars
<1>17. CASE UNCHANGED vars
  BY <1>17 DEF vars, clientVars, serverVars
<1>18. QED
  BY <1>1, <1>2, <1>3, <1>4, <1>5, <1>6, <1>7, <1>8, <1>9, <1>10, <1>11,
     <1>9a, <1>9b, <1>12, <1>13, <1>14, <1>15, <1>16, <1>17 DEF Next, Client, Server

---------------------------------------------------------------------------
(* The parts of the invariant, one lemma each. *)

LEMMA StreamStep ==
  ASSUME TypeOK, StreamShape, [Next]_vars
  PROVE  StreamShape'
<1>1. /\ asked \in Nat
      /\ stream \in Seq(Unit)
      /\ served \in 0..asked
  BY MaxCallsAssumption DEF TypeOK
<1>2. ASSUME UNCHANGED stream, UNCHANGED eof, asked' \in Nat, asked <= asked'
      PROVE  StreamShape'
  BY <1>1, <1>2 DEF StreamShape, EndsResponse
<1>3. CASE Connect
  <2>1. stream' = <<>> /\ Len(stream') = 0
    BY <1>3, EmptySeq DEF Connect
  <2>2. QED
    BY <2>1 DEF StreamShape
<1>4. CASE ConnectFails \/ Close \/ RefuseSql
  BY <1>1, <1>2, <1>4 DEF ConnectFails, Close, RefuseSql, serverVars
<1>5. CASE Send
  BY <1>1, <1>2, <1>5 DEF Send, serverVars
<1>6. CASE SendFails \/ TimeOut \/ Disconnected
  BY <1>1, <1>2, <1>6 DEF SendFails, TimeOut, Disconnected, GiveUp, serverVars
<1>7. CASE ReadFront \/ TakeFrame \/ FinishCall
  BY <1>1, <1>7, TailShape
     DEF ReadFront, TakeFrame, FinishCall, AtFrame, serverVars
<1>8. CASE BadHeader \/ RejectFrame
  BY <1>1, <1>8, TailShape DEF BadHeader, RejectFrame, AtFrame, GiveUp, serverVars
<1>9. CASE \/ MisreadRefused \/ MisreadStarves \/ MisreadTaken \/ MisreadFinishes
  <2>1. UNCHANGED <<asked, eof>>
    BY <1>9, MisreadGivesUp DEF MisreadTaken, MisreadFinishes, GiveUp, serverVars
  <2>2. \E k \in 0..Len(stream) : Consume(k)
    <3>1. CASE MisreadRefused \/ MisreadStarves
      BY <3>1, MisreadGivesUp
    <3>2. CASE MisreadTaken
      <4>1. PICK k \in 1..Len(stream) : Consume(k)
        BY <3>2 DEF MisreadTaken
      <4>2. k \in 0..Len(stream)
        BY <1>1
      <4>3. QED
        BY <4>1, <4>2
    <3>3. CASE MisreadFinishes
      BY <3>3 DEF MisreadFinishes
    <3>4. QED
      BY <1>9, <3>1, <3>2, <3>3
  <2>3. PICK k \in 0..Len(stream) : Consume(k)
    BY <2>2
  <2>4. QED
    BY <1>1, <2>1, <2>3, SuffixShape
<1>10. CASE Serve
  BY <1>1, <1>10, ServeShape DEF Serve, clientVars
<1>11. CASE ServerCloses
  BY <1>1, <1>11, PrefixShape DEF ServerCloses, clientVars
<1>12. CASE UNCHANGED vars
  BY <1>1, <1>2, <1>12 DEF vars, clientVars, serverVars
<1>13. QED
  BY <1>3, <1>4, <1>5, <1>6, <1>7, <1>8, <1>9, <1>10, <1>11, <1>12
     DEF Next, Client, Server

\* A call that holds nothing of a response.
LEMMA NothingHeld ==
  ASSUME got' = <<>>, half' = FALSE
  PROVE  CallShape'
BY DEF CallShape

\* Only a call on a connection that is adrift begins beyond a boundary.
LEMMA BeyondIsAdrift ==
  ASSUME BoundaryKnown, BeyondBoundary
  PROVE  /\ adrift /\ tainted
         /\ got # <<>> => got[1].req = 0
BY DEF BoundaryKnown, BeyondBoundary

\* What a call holds once it has taken a garbled frame.
LEMMA GarbledShape ==
  ASSUME TypeOK, CallShape, BoundaryKnown, BeyondBoundary, NEW tag \in Tags
  PROVE  TookGarbled(tag)[1].req = 0
<1>1. Len(got) \in Nat /\ (got # <<>> <=> Len(got) > 0)
  BY EmptySeq DEF TypeOK
<1>2. QED
  BY <1>1, GarbledType, BeyondIsAdrift

LEMMA CallStep ==
  ASSUME TypeOK, StreamShape, CallShape, BoundaryKnown, [Next]_vars
  PROVE  CallShape'
<1>1. /\ asked \in Nat
      /\ stream \in Seq(Unit)
      /\ got \in Seq(Taken)
      /\ served \in 0..asked
  BY MaxCallsAssumption DEF TypeOK
<1>2. CASE Connect \/ Send \/ FinishCall
  BY <1>2, NothingHeld DEF Connect, Send, FinishCall
<1>2a. CASE MisreadFinishes
  BY <1>2a, NothingHeld DEF MisreadFinishes, BeyondBoundary, TypeOK
<1>2b. CASE MisreadTaken
  <2>1. PICK tag \in Tags :
          /\ got' = TookGarbled(tag)
          /\ Expects(Garbled(tag)) /\ ~EndsCall(Garbled(tag))
    BY <1>2b DEF MisreadTaken
  <2>2. /\ BeyondBoundary /\ pc = "reading" /\ ~half
        /\ UNCHANGED <<pc, asked, half>>
    BY <1>2b DEF MisreadTaken, BeyondBoundary
  <2>3. Garbled(tag).tag = IF got = <<>> THEN "META" ELSE "ROW"
    BY <2>1 DEF Garbled, Expects, EndsCall, HasMeta, Final
  <2>4. /\ Len(got') = Len(got) + 1
        /\ \A i \in 1..Len(got) : got'[i] = got[i]
        /\ got'[Len(got) + 1].frame = Garbled(tag)
        /\ got'[1].req = 0
    BY <2>1, <2>2, GarbledType, GarbledShape
  <2>5. Len(got) \in Nat /\ (got # <<>> <=> Len(got) > 0)
    BY <1>1, EmptySeq
  <2>6. /\ got'[1].frame.tag = "META"
        /\ \A i \in 2..Len(got') : got'[i].frame.tag = "ROW"
    <3>1. CASE got = <<>>
      BY <2>3, <2>4, <2>5, <3>1
    <3>2. CASE got # <<>>
      BY <2>3, <2>4, <2>5, <3>2 DEF CallShape
    <3>3. QED
      BY <3>1, <3>2
  <2>7. pc' = "reading" /\ ~half' /\ 0 \in 0..asked'
    BY <1>1, <2>2
  <2>8. got'[1].req \in 0..asked' /\ ~(got'[1].req # 0)
    BY <2>4, <2>7
  <2>9. QED
    BY <2>6, <2>7, <2>8 DEF CallShape
<1>3. CASE \/ SendFails \/ TimeOut \/ Disconnected \/ BadHeader \/ RejectFrame
           \/ MisreadRefused \/ MisreadStarves
  BY <1>3, NothingHeld, MisreadGivesUp
     DEF SendFails, TimeOut, Disconnected, BadHeader, RejectFrame, GiveUp
<1>4. CASE ConnectFails \/ RefuseSql
  BY <1>4 DEF ConnectFails, RefuseSql, serverVars, CallShape
<1>5. CASE Close
  BY <1>5, NothingHeld DEF Close, serverVars, CallShape
<1>6. CASE ReadFront
  <2>1. /\ ~EndsResponse(Head(stream))
        /\ stream # <<>> /\ stream' = Tail(stream)
        /\ asked' = asked /\ eof' = eof /\ got' = got /\ pc' = pc /\ pc = "reading"
    BY <1>6 DEF ReadFront, EndsResponse, serverVars
  <2>2. /\ stream' = <<>> => eof
        /\ stream' # <<>> => Head(stream').req = Head(stream).req
    BY <1>1, <2>1, TailShape
  <2>3. QED
    BY <2>1, <2>2 DEF CallShape
<1>7. CASE TakeFrame
  <2>1. /\ ~EndsResponse(Head(stream))
        /\ stream # <<>> /\ stream' = Tail(stream)
        /\ asked' = asked /\ eof' = eof /\ pc' = pc /\ pc = "reading"
        /\ got' = Took
        /\ half' = FALSE
        /\ Head(stream).frame.tag = IF got = <<>> THEN "META" ELSE "ROW"
    BY <1>7 DEF TakeFrame, AtFrame, EndsResponse, EndsCall, Expects, HasMeta,
                Final, serverVars
  <2>2. /\ stream' = <<>> => eof
        /\ stream' # <<>> => Head(stream').req = Head(stream).req
        /\ Head(stream) = stream[1]
    BY <1>1, <2>1, TailShape
  <2>3. /\ Len(Took) = Len(got) + 1
        /\ \A i \in 1..Len(got) : Took[i] = got[i]
        /\ Took[Len(got) + 1].req = Head(stream).req
        /\ Took[Len(got) + 1].frame = Head(stream).frame
    BY <2>1, TookType
  <2>4. Head(stream).req \in 1..asked
    BY <1>1, <2>1, <2>2 DEF StreamShape
  <2>5. Len(got) \in Nat /\ (got # <<>> <=> Len(got) > 0)
    BY <1>1, EmptySeq
  <2>6. got # <<>> => got[1].req \in {0, Head(stream).req}
    BY <2>1 DEF CallShape
  <2>7. /\ Took[1].frame.tag = "META"
        /\ Took[1].req \in {0, Head(stream).req}
        /\ \A i \in 2..Len(Took) : Took[i].frame.tag = "ROW"
        /\ Took[1].req # 0 => \A i \in 1..Len(Took) : Took[i].req = Took[1].req
    <3>1. CASE got = <<>>
      BY <2>1, <2>3, <2>5, <3>1
    <3>2. CASE got # <<>>
      BY <2>1, <2>3, <2>5, <2>6, <3>2 DEF CallShape
    <3>3. QED
      BY <3>1, <3>2
  <2>8. /\ got'[1].req \in 0..asked'
        /\ got'[1].req # 0 => got'[1].req = Head(stream).req
    BY <1>1, <2>1, <2>4, <2>7
  <2>9. pc' = "reading" /\ ~half' /\ eof' = eof
    BY <2>1
  <2>10. /\ got'[1].frame.tag = "META"
         /\ \A i \in 2..Len(got') : got'[i].frame.tag = "ROW"
         /\ got'[1].req # 0 => \A i \in 1..Len(got') : got'[i].req = got'[1].req
    BY <2>1, <2>7
  <2>11. QED
    BY <2>2, <2>8, <2>9, <2>10 DEF CallShape
<1>8. CASE Serve
  <2>1. /\ stream' # <<>>
        /\ stream # <<>> => Head(stream') = Head(stream)
    BY <1>1, <1>8, ServeShape DEF Serve, clientVars
  <2>2. UNCHANGED <<pc, asked, half, got, eof>> /\ ~eof
    BY <1>8 DEF Serve, clientVars
  <2>3. QED
    BY <2>1, <2>2 DEF CallShape
<1>9. CASE ServerCloses
  <2>1. stream' # <<>> => stream # <<>> /\ Head(stream') = Head(stream)
    BY <1>1, <1>9, PrefixShape DEF ServerCloses, clientVars
  <2>2. UNCHANGED <<pc, asked, half, got>> /\ eof'
    BY <1>9 DEF ServerCloses, clientVars
  <2>3. QED
    BY <2>1, <2>2 DEF CallShape
<1>10. CASE UNCHANGED vars
  BY <1>10 DEF vars, clientVars, serverVars, CallShape
<1>11. QED
  BY <1>2, <1>2a, <1>2b, <1>3, <1>4, <1>5, <1>6, <1>7, <1>8, <1>9, <1>10
     DEF Next, Client, Server

LEMMA BoundaryStep ==
  ASSUME TypeOK, StreamShape, CallShape, BoundaryKnown, [Next]_vars
  PROVE  BoundaryKnown'
<1>1. /\ asked \in Nat
      /\ stream \in Seq(Unit)
      /\ got \in Seq(Taken)
      /\ served \in 0..asked
      /\ {half, adrift} \subseteq BOOLEAN
  BY MaxCallsAssumption DEF TypeOK
<1>2. CASE Connect
  BY <1>2 DEF Connect, BoundaryKnown
<1>3. CASE ConnectFails \/ RefuseSql \/ Close
  BY <1>3 DEF ConnectFails, RefuseSql, Close, BoundaryKnown
<1>4. CASE Send
  BY <1>4 DEF Send, CallShape, BoundaryKnown
<1>5. CASE SendFails
  BY <1>5 DEF SendFails, GiveUp, CallShape, BoundaryKnown
<1>6. CASE TimeOut
  BY <1>6 DEF TimeOut, GiveUp, BoundaryKnown
<1>7. CASE Disconnected
  BY <1>7 DEF Disconnected, GiveUp, BoundaryKnown
<1>8. CASE BadHeader
  BY <1>8 DEF BadHeader, GiveUp, BoundaryKnown
<1>9. ASSUME ReadFront \/ TakeFrame \/ FinishCall \/ RejectFrame
      PROVE  /\ stream # <<>> /\ Head(stream) \in Unit
             /\ stream' # <<>> =>
                  (Head(stream).part = "back" <=> Head(stream').part = "front")
             /\ stream' # <<>> => Head(stream') \in Unit
             /\ Head(stream).req \in 1..asked
             /\ adrift' = adrift
  <2>1. /\ stream # <<>> /\ stream' = Tail(stream)
        /\ UNCHANGED <<asked, eof, adrift>>
    BY <1>9 DEF ReadFront, TakeFrame, FinishCall, RejectFrame, AtFrame, GiveUp,
                serverVars
  <2>2. /\ stream' \in Seq(Unit) /\ Head(stream) = stream[1]
        /\ Head(stream) \in Unit
        /\ stream' # <<>> =>
             (Head(stream).part = "back" <=> Head(stream').part = "front")
    BY <1>1, <2>1, TailShape
  <2>3. stream' # <<>> => Head(stream') \in Unit
    BY <2>2, HeadTailProperties
  <2>4. 1 \in 1..Len(stream)
    BY <1>1, <2>1, EmptySeq
  <2>5. QED
    BY <2>1, <2>2, <2>3, <2>4 DEF StreamShape
<1>10. CASE ReadFront
  <2>1. Head(stream).part = "front" /\ half' = TRUE /\ UNCHANGED <<got, tainted>>
    BY <1>10 DEF ReadFront
  <2>2. stream' # <<>> => Head(stream').part = "back"
    BY <1>9, <1>10, <2>1 DEF Unit, Part
  <2>3. QED
    BY <1>9, <1>10, <2>1, <2>2 DEF BoundaryKnown
<1>11. CASE TakeFrame \/ FinishCall \/ RejectFrame
  <2>1. /\ Head(stream).part = "back" /\ half' = FALSE
        /\ (tainted => tainted')
        /\ got' = <<>> \/ got' = Took
    BY <1>11 DEF TakeFrame, FinishCall, RejectFrame, GiveUp, AtFrame
  <2>2. stream' # <<>> => Head(stream').part = "front"
    BY <1>9, <1>11, <2>1
  <2>3. stream' # <<>> => (Head(stream').part = "back" <=> half')
    BY <2>1, <2>2
  <2>4. ~adrift => Took[1].req # 0
    <3>1. /\ \A i \in 1..Len(got) : Took[i] = got[i]
          /\ Took[Len(got) + 1].req = Head(stream).req
      BY <1>9, <1>11, TookType
    <3>2. Len(got) \in Nat /\ (got # <<>> <=> Len(got) > 0)
      BY <1>1, EmptySeq
    <3>3. CASE got = <<>>
      BY <1>1, <1>9, <1>11, <3>1, <3>2, <3>3
    <3>4. CASE got # <<>>
      BY <3>1, <3>2, <3>4 DEF BoundaryKnown
    <3>5. QED
      BY <3>3, <3>4
  <2>5. QED
    BY <1>9, <1>11, <2>1, <2>3, <2>4 DEF BoundaryKnown
<1>12. CASE MisreadRefused \/ MisreadStarves
  <2>1. adrift /\ adrift' = adrift
    BY <1>12, MisreadGivesUp, BeyondIsAdrift
  <2>2. half' = FALSE /\ got' = <<>> /\ tainted' = TRUE
    BY <1>12, MisreadGivesUp DEF GiveUp
  <2>3. QED
    BY <2>1, <2>2 DEF BoundaryKnown
<1>13. CASE MisreadFinishes
  BY <1>13, BeyondIsAdrift DEF MisreadFinishes, BeyondBoundary, BoundaryKnown
<1>14. CASE MisreadTaken
  <2>1. /\ BeyondBoundary /\ ~half
        /\ \E tag \in Tags : got' = TookGarbled(tag)
        /\ UNCHANGED <<half, tainted, adrift>>
    BY <1>14 DEF MisreadTaken, BeyondBoundary
  <2>2. adrift /\ tainted /\ got'[1].req = 0
    BY <2>1, BeyondIsAdrift, GarbledShape
  <2>3. QED
    BY <2>1, <2>2 DEF BoundaryKnown
<1>15. CASE Serve
  <2>1. /\ stream # <<>> => Head(stream') = Head(stream)
        /\ stream = <<>> => Head(stream').part = "front"
    BY <1>1, <1>15, ServeShape DEF Serve, clientVars
  <2>2. UNCHANGED <<half, got, adrift, tainted>> /\ ~eof
    BY <1>15 DEF Serve, clientVars
  <2>3. stream = <<>> => ~half /\ ~(got # <<>> /\ got[1].req # 0)
    BY <2>2 DEF CallShape
  <2>4. QED
    BY <2>1, <2>2, <2>3 DEF BoundaryKnown
<1>16. CASE ServerCloses
  <2>1. stream' # <<>> => stream # <<>> /\ Head(stream') = Head(stream)
    BY <1>1, <1>16, PrefixShape DEF ServerCloses, clientVars
  <2>2. UNCHANGED <<half, got, adrift, tainted>>
    BY <1>16 DEF ServerCloses, clientVars
  <2>3. QED
    BY <2>1, <2>2 DEF BoundaryKnown
<1>17. CASE UNCHANGED vars
  BY <1>17 DEF vars, clientVars, BoundaryKnown
<1>18. QED
  BY <1>2, <1>3, <1>4, <1>5, <1>6, <1>7, <1>8, <1>10, <1>11, <1>12, <1>13, <1>14,
     <1>15, <1>16, <1>17 DEF Next, Client, Server

LEMMA SyncStep ==
  ASSUME TypeOK, StreamShape, CallShape, BoundaryKnown, InSync, [Next]_vars
  PROVE  InSync'
<1>1. /\ asked \in Nat
      /\ stream \in Seq(Unit)
      /\ got \in Seq(Taken)
      /\ served \in 0..asked
      /\ Len(stream) \in Nat
  BY MaxCallsAssumption DEF TypeOK
<1>2. CASE Connect
  <2>1. /\ stream' = <<>> /\ Len(stream') = 0 /\ got' = <<>> /\ Len(got') = 0
        /\ served' = 0 /\ asked' = 0
    BY <1>2, EmptySeq DEF Connect
  <2>2. QED
    BY <2>1 DEF InSync, NothingOutstanding
<1>3. CASE ConnectFails \/ RefuseSql
  BY <1>3 DEF ConnectFails, RefuseSql, serverVars, InSync, NothingOutstanding,
              EndsResponse
<1>4. CASE Close
  BY <1>4 DEF Close, serverVars, InSync, NothingOutstanding, EndsResponse
<1>5. CASE Send
  <2>1. SUFFICES ASSUME ~tainted PROVE InSync'
    BY <1>5 DEF Send, InSync
  <2>2. /\ served' = asked /\ asked' = asked + 1 /\ stream' = <<>>
        /\ got' = <<>> /\ pc' = "reading"
    BY <1>5, <2>1 DEF Send, serverVars, InSync, NothingOutstanding
  <2>3. Len(stream') = 0 /\ Len(got') = 0
    BY <2>2, EmptySeq
  <2>4. QED
    BY <1>1, <2>2, <2>3 DEF InSync
<1>6. CASE \/ SendFails \/ TimeOut \/ Disconnected \/ BadHeader \/ RejectFrame
           \/ MisreadRefused \/ MisreadStarves
  BY <1>6, MisreadGivesUp
     DEF SendFails, TimeOut, Disconnected, BadHeader, RejectFrame, GiveUp, InSync
<1>6a. CASE MisreadTaken \/ MisreadFinishes
  BY <1>6a, BeyondIsAdrift DEF MisreadTaken, MisreadFinishes, InSync
<1>7. CASE ReadFront \/ TakeFrame \/ FinishCall
  <2>1. SUFFICES ASSUME ~tainted PROVE InSync'
    BY <1>7 DEF ReadFront, TakeFrame, FinishCall, InSync
  <2>2. /\ stream # <<>> /\ stream' = Tail(stream) /\ pc = "reading"
        /\ UNCHANGED <<asked, served, eof>>
    BY <1>7 DEF ReadFront, TakeFrame, FinishCall, AtFrame, serverVars
  <2>3. /\ Head(stream) = stream[1]
        /\ Len(stream') = Len(stream) - 1
        /\ \A j \in 1..Len(stream') : stream'[j] = stream[j + 1]
        /\ stream' \in Seq(Unit)
    BY <1>1, <2>2, TailShape
  <2>4. Len(stream) > 0
    BY <1>1, <2>2, EmptySeq
  <2>5. served' = asked'
    BY <1>1, <2>1, <2>2 DEF InSync
  <2>5a. \A j \in 1..Len(stream) : stream[j].req = asked
    BY <2>1 DEF InSync
  <2>5b. \A j \in 1..Len(stream) : EndsResponse(stream[j]) => j = Len(stream)
    BY <2>1 DEF InSync
  <2>5c. \A j \in 1..Len(stream') : j + 1 \in 1..Len(stream)
    BY <1>1, <2>3
  <2>6. \A j \in 1..Len(stream') : stream'[j].req = asked'
    BY <2>2, <2>3, <2>5a, <2>5c
  <2>7. \A j \in 1..Len(stream') : EndsResponse(stream'[j]) => j = Len(stream')
    <3>1. SUFFICES ASSUME NEW j \in 1..Len(stream'), EndsResponse(stream'[j])
                   PROVE  j = Len(stream')
      OBVIOUS
    <3>2. stream'[j] = stream[j + 1] /\ j + 1 \in 1..Len(stream)
      BY <2>3, <2>5c
    <3>3. j + 1 = Len(stream)
      BY <2>5b, <3>1, <3>2
    <3>4. QED
      BY <1>1, <2>3, <3>3
  <2>8. \A j \in 1..Len(got') : got'[j].req = asked'
    <3>1. CASE ReadFront
      BY <2>1, <2>2, <3>1 DEF ReadFront, InSync
    <3>2. CASE FinishCall
      <4>1. Len(got') = 0
        BY <3>2, EmptySeq DEF FinishCall
      <4>2. QED
        BY <4>1
    <3>3. CASE TakeFrame
      <4>1. /\ Len(Took) = Len(got) + 1
            /\ \A j \in 1..Len(got) : Took[j] = got[j]
            /\ Took[Len(got) + 1].req = Head(stream).req
        BY <2>2, TookType
      <4>2. Head(stream).req = asked
        BY <1>1, <2>1, <2>3, <2>4 DEF InSync
      <4>3. got' = Took /\ Len(got) \in Nat
        BY <1>1, <3>3 DEF TakeFrame
      <4>4. QED
        BY <2>1, <2>2, <4>1, <4>2, <4>3 DEF InSync
    <3>4. QED
      BY <1>7, <3>1, <3>2, <3>3
  <2>9. pc' # "reading" => stream' = <<>>
    <3>1. SUFFICES ASSUME pc' # "reading" PROVE stream' = <<>>
      OBVIOUS
    <3>2. EndsResponse(stream[1])
      BY <1>7, <2>2, <2>3, <3>1
         DEF ReadFront, TakeFrame, FinishCall, AtFrame, EndsResponse, EndsCall
    <3>3. 1 \in 1..Len(stream)
      BY <1>1, <2>4
    <3>4. 1 = Len(stream)
      BY <2>5b, <3>2, <3>3
    <3>5. Len(stream') = 0
      BY <1>1, <2>3, <3>4
    <3>6. QED
      BY <2>3, <3>5, EmptySeq
  <2>10. QED
    <3>1. \A j \in 1..Len(stream') :
            EndsResponse(stream[j])' => j = Len(stream')
      BY <2>7 DEF EndsResponse
    <3>2. served' < asked' => FALSE
      BY <1>1, <2>2, <2>5
    <3>3. QED
      BY <2>5, <2>6, <2>8, <2>9, <3>1, <3>2 DEF InSync, NothingOutstanding
<1>8. CASE Serve
  <2>1. SUFFICES ASSUME ~tainted PROVE InSync'
    BY <1>8 DEF Serve, clientVars, InSync
  <2>2. PICK r \in Responses : stream' = stream \o Units(served + 1, r)
    BY <1>8 DEF Serve
  <2>3. /\ served + 1 = asked /\ stream = <<>> /\ served' = asked /\ pc = "reading"
        /\ UNCHANGED clientVars
    BY <1>1, <1>8, <2>1 DEF Serve, InSync, NothingOutstanding
  <2>4. stream' = Units(asked, r)
    <3>1. Units(asked, r) \in Seq(Unit)
      BY <1>1, UnitsShape
    <3>2. stream' = stream \o Units(asked, r)
      BY <2>2, <2>3
    <3>3. stream \o Units(asked, r) = Units(asked, r)
      <4>1. stream = <<>>
        BY <2>3
      <4>2. <<>> \o Units(asked, r) = Units(asked, r)
        BY <3>1, ConcatEmptySeq
      <4>3. QED
        BY <4>1, <4>2
    <3>4. QED
      BY <3>2, <3>3
  <2>5. /\ Len(Units(asked, r)) \in Nat
        /\ \A u \in 1..Len(Units(asked, r)) :
             /\ Units(asked, r)[u].req = asked
             /\ EndsResponse(Units(asked, r)[u]) <=> u = Len(Units(asked, r))
    BY <1>1, UnitsShape
  <2>6. \A j \in 1..Len(stream') :
          /\ stream'[j].req = asked
          /\ EndsResponse(stream'[j]) => j = Len(stream')
    BY <2>4, <2>5
  <2>7. QED
    BY <1>1, <2>1, <2>3, <2>6 DEF InSync, clientVars, EndsResponse
<1>9. CASE ServerCloses
  <2>1. SUFFICES ASSUME ~tainted PROVE InSync'
    BY <1>9 DEF ServerCloses, clientVars, InSync
  <2>2. PICK k \in 0..Len(stream) : stream' = SubSeq(stream, 1, k)
    BY <1>9 DEF ServerCloses
  <2>3. UNCHANGED clientVars /\ served' = served /\ eof'
    BY <1>9 DEF ServerCloses
  <2>4. /\ stream' \in Seq(Unit)
        /\ Len(stream') = k
        /\ \A j \in 1..k : stream'[j] = stream[j]
        /\ stream' # <<>> => stream # <<>>
    BY <1>1, <2>2, <2>3, PrefixShape DEF clientVars
  <2>5. \A j \in 1..Len(stream') :
          /\ stream'[j].req = asked
          /\ EndsResponse(stream'[j]) => j = Len(stream')
    BY <1>1, <2>1, <2>4 DEF InSync
  <2>6. QED
    BY <2>1, <2>3, <2>4, <2>5 DEF InSync, NothingOutstanding, clientVars, EndsResponse
<1>10. CASE UNCHANGED vars
  BY <1>10 DEF vars, clientVars, serverVars, InSync, NothingOutstanding, EndsResponse
<1>11. QED
  BY <1>2, <1>3, <1>4, <1>5, <1>6, <1>6a, <1>7, <1>8, <1>9, <1>10
     DEF Next, Client, Server

LEMMA ResultStep ==
  ASSUME TypeOK, CallShape, StreamShape, BoundaryKnown, InSync, ResultShape,
         [Next]_vars
  PROVE  ResultShape'
<1>1. ASSUME result' = result, tainted' = tainted, adrift' = adrift
      PROVE  ResultShape'
  BY <1>1 DEF ResultShape, AnswersOwnCall, AnswerIsOneResponse
<1>2. ASSUME result'.kind \notin Answers
      PROVE  ResultShape'
  BY <1>2 DEF ResultShape, AnswersOwnCall, AnswerIsOneResponse
<1>3. CASE Connect \/ ConnectFails \/ RefuseSql
  BY <1>2, <1>3
     DEF Connect, ConnectFails, RefuseSql, Outcome, Answers, Failures
<1>4. CASE \/ SendFails \/ TimeOut \/ Disconnected \/ BadHeader \/ RejectFrame
           \/ MisreadRefused \/ MisreadStarves
  <2>1. PICK kind \in Failures : GiveUp(kind)
    BY <1>4, MisreadGivesUp
       DEF SendFails, TimeOut, Disconnected, BadHeader, RejectFrame, Failures
  <2>2. QED
    BY <1>2, <2>1 DEF GiveUp, Outcome, Answers, Failures
<1>5. CASE Close \/ Send \/ ReadFront \/ TakeFrame \/ MisreadTaken
  BY <1>1, <1>5 DEF Close, Send, ReadFront, TakeFrame, MisreadTaken
<1>6. CASE Serve \/ ServerCloses
  BY <1>1, <1>6 DEF Serve, ServerCloses, clientVars
<1>7. CASE FinishCall
  <2> DEFINE f == Head(stream).frame
             n == Len(Took)
  <2>1. /\ stream # <<>>
        /\ result' = [kind |-> AnswerKind(f), req |-> asked, frames |-> Took]
        /\ tainted' = tainted /\ adrift' = adrift
        /\ Expects(f)
        /\ f.tag \in Final
        /\ pc = "reading"
    BY <1>7 DEF FinishCall, AtFrame, EndsCall, Outcome
  <2>2. /\ Took \in Seq(Taken)
        /\ Len(Took) = Len(got) + 1
        /\ \A i \in 1..Len(got) : Took[i] = got[i]
        /\ Took[Len(got) + 1].req = Head(stream).req
        /\ Took[Len(got) + 1].frame = f
        /\ Took # <<>>
        /\ Head(stream).req \in 1..asked
    <3>1. Head(stream) = stream[1] /\ 1 \in 1..Len(stream)
      BY <2>1, EmptySeq DEF TypeOK
    <3>2. QED
      BY <2>1, <3>1, TookType DEF StreamShape
  <2>3. Len(got) \in Nat /\ (got # <<>> <=> Len(got) > 0)
    BY EmptySeq DEF TypeOK
  <2>4. Took[1].req # 0 => \A i \in 1..n : Took[i].req = Head(stream).req
    BY <2>1, <2>2, <2>3 DEF CallShape
  <2>4a. ~adrift => Took[1].req # 0
    <3>1. asked \in Nat
      BY MaxCallsAssumption DEF TypeOK
    <3>2. CASE got = <<>>
      BY <2>2, <2>3, <3>1, <3>2
    <3>3. CASE got # <<>>
      BY <2>2, <2>3, <3>3 DEF BoundaryKnown
    <3>4. QED
      BY <3>2, <3>3
  <2>5. ~tainted => \A i \in 1..n : Took[i].req = asked
    <3>1. Head(stream) = stream[1] /\ Len(stream) \in Nat /\ 1 \in 1..Len(stream)
      BY <2>1, EmptySeq DEF TypeOK
    <3>2. QED
      BY <2>2, <2>3, <3>1 DEF InSync
  <2>5a. Took[1].req \in Nat
    <3>1. 1 \in 1..Len(Took)
      BY <2>2, <2>3
    <3>2. Took[1] \in Taken
      BY <2>2, <3>1, ElementOfSeq
    <3>3. QED
      BY <3>2 DEF Taken
  <2>6. AnswerKind(f) = "Query" =>
          /\ n >= 2
          /\ Took[1].frame.tag = "META"
          /\ \A i \in 2..(n - 1) : Took[i].frame.tag = "ROW"
          /\ Took[n].frame.tag = "RESULT_END"
          /\ Took[n].frame.count = n - 2
    <3>1. SUFFICES ASSUME AnswerKind(f) = "Query"
                   PROVE  /\ n >= 2
                          /\ Took[1].frame.tag = "META"
                          /\ \A i \in 2..(n - 1) : Took[i].frame.tag = "ROW"
                          /\ Took[n].frame.tag = "RESULT_END"
                          /\ Took[n].frame.count = n - 2
      OBVIOUS
    <3>2. f.tag = "RESULT_END" /\ got # <<>> /\ f.count = Len(got) - 1
      BY <2>1, <3>1 DEF AnswerKind, Final, Expects, HasMeta, RowCount
    <3>3. /\ got[1].frame.tag = "META"
          /\ \A i \in 2..Len(got) : got[i].frame.tag = "ROW"
      BY <3>2 DEF CallShape
    <3>4. QED
      BY <2>2, <2>3, <3>2, <3>3
  <2>7. /\ result'.kind = AnswerKind(f) /\ result'.frames = Took
        /\ result'.req = asked
    BY <2>1
  <2> HIDE DEF f
  <2>8. AnswersOwnCall'
    BY <2>1, <2>5, <2>7 DEF AnswersOwnCall
  <2>9. AnswerIsOneResponse'
    <3>1. 1 \in 1..n
      BY <2>2, <2>3
    <3>2. QED
      BY <2>1, <2>4, <2>4a, <2>6, <2>7, <3>1 DEF AnswerIsOneResponse
  <2>10. result'.frames # <<>> /\ result'.frames[1].req \in Nat
    BY <2>2, <2>5a, <2>7
  <2>11. QED
    BY <2>8, <2>9, <2>10 DEF ResultShape
<1>7a. CASE MisreadFinishes
  <2>1. PICK tag \in Tags :
          /\ Expects(Garbled(tag)) /\ EndsCall(Garbled(tag))
          /\ result' = Outcome(AnswerKind(Garbled(tag)), asked, TookGarbled(tag))
    BY <1>7a DEF MisreadFinishes
  <2>2. adrift /\ tainted /\ UNCHANGED <<adrift, tainted>> /\ BeyondBoundary
    BY <1>7a, BeyondIsAdrift DEF MisreadFinishes
  <2> DEFINE t == TookGarbled(tag)
             n == Len(t)
             f == Garbled(tag)
  <2>3. /\ Len(t) = Len(got) + 1
        /\ \A i \in 1..Len(got) : t[i] = got[i]
        /\ t[Len(got) + 1].frame = f
        /\ t # <<>>
        /\ t[1].req = 0
    BY <2>2, GarbledType, GarbledShape
  <2>4. Len(got) \in Nat /\ (got # <<>> <=> Len(got) > 0)
    BY EmptySeq DEF TypeOK
  <2>5. /\ result'.kind = AnswerKind(f) /\ result'.frames = t
    BY <2>1 DEF Outcome
  <2>6. AnswerKind(f) = "Query" =>
          f.tag = "RESULT_END" /\ got # <<>> /\ f.count = Len(got) - 1
    BY <2>1 DEF AnswerKind, EndsCall, Final, Expects, Garbled, HasMeta, RowCount
  <2> HIDE DEF t, f
  <2>7. AnswerKind(f) = "Query" =>
          /\ n >= 2
          /\ t[1].frame.tag = "META"
          /\ \A i \in 2..(n - 1) : t[i].frame.tag = "ROW"
          /\ t[n].frame.tag = "RESULT_END"
          /\ t[n].frame.count = n - 2
    <3>1. SUFFICES ASSUME AnswerKind(f) = "Query"
                   PROVE  /\ n >= 2
                          /\ t[1].frame.tag = "META"
                          /\ \A i \in 2..(n - 1) : t[i].frame.tag = "ROW"
                          /\ t[n].frame.tag = "RESULT_END"
                          /\ t[n].frame.count = n - 2
      OBVIOUS
    <3>2. /\ got[1].frame.tag = "META"
          /\ \A i \in 2..Len(got) : got[i].frame.tag = "ROW"
      BY <2>6, <3>1 DEF CallShape
    <3>3. QED
      BY <2>3, <2>4, <2>6, <3>1, <3>2
  <2>8. QED
    BY <2>2, <2>3, <2>5, <2>7 DEF ResultShape, AnswersOwnCall, AnswerIsOneResponse
<1>8. CASE UNCHANGED vars
  BY <1>1, <1>8 DEF vars, clientVars
<1>9. QED
  BY <1>3, <1>4, <1>5, <1>6, <1>7, <1>7a, <1>8 DEF Next, Client, Server

---------------------------------------------------------------------------
(* The theorems. *)

LEMMA InvInit == Init => IInv
<1> SUFFICES ASSUME Init PROVE IInv
  OBVIOUS
<1>1. /\ stream = <<>> /\ Len(stream) = 0 /\ got = <<>> /\ Len(got) = 0
      /\ pc = "closed" /\ served = 0 /\ asked = 0 /\ half = FALSE
      /\ result.kind = "Connection" /\ adrift = FALSE
  BY EmptySeq DEF Init, Outcome
<1>2. TypeOK
  BY TypeInit
<1>3. StreamShape /\ CallShape /\ BoundaryKnown
  BY <1>1 DEF StreamShape, CallShape, BoundaryKnown
<1>4. InSync
  BY <1>1 DEF InSync, NothingOutstanding
<1>5. ResultShape
  BY <1>1 DEF ResultShape, AnswersOwnCall, AnswerIsOneResponse, Answers
<1>6. QED
  BY <1>2, <1>3, <1>4, <1>5 DEF IInv

LEMMA InvStep == IInv /\ [Next]_vars => IInv'
BY TypeStep, StreamStep, CallStep, BoundaryStep, SyncStep, ResultStep DEF IInv

\* Every variable keeps its type, on every path through connect and exec_stream.
THEOREM TypeCorrect == Spec => []TypeOK
<1>1. IInv => TypeOK
  BY DEF IInv
<1>2. QED
  BY InvInit, InvStep, <1>1, PTL DEF Spec

\* The invariant of the frame loop of exec_stream, for any responses.
THEOREM InvariantHolds == Spec => []IInv
BY InvInit, InvStep, PTL DEF Spec

\* exec_stream attributes answers to their own call until a call gives up.
THEOREM OwnAnswers == Spec => []AnswersOwnCall
<1>1. IInv => AnswersOwnCall
  BY DEF IInv, ResultShape
<1>2. QED
  BY InvInit, InvStep, <1>1, PTL DEF Spec

\* exec_stream hands out frames of one response only, as long as no call has
\* given up inside of a frame; when one has, an answer that mixes responses
\* begins with a frame that no server sent.  A query answer counts its rows,
\* whatever happened before.
THEOREM WholeAnswers == Spec => []AnswerIsOneResponse
<1>1. IInv => AnswerIsOneResponse
  BY DEF IInv, ResultShape
<1>2. QED
  BY InvInit, InvStep, <1>1, PTL DEF Spec

\* exec_stream writes a request only when nothing of an earlier one is left.
THEOREM SendsAloneHolds == Spec => SendsAlone
<1>1. IInv /\ [Next]_vars =>
        [~tainted /\ asked' = asked + 1 => NothingOutstanding]_vars
  <2>1. SUFFICES ASSUME IInv, Next, ~tainted, asked' = asked + 1
                 PROVE  NothingOutstanding
    OBVIOUS
  <2>2. asked \in Nat
    BY <2>1, MaxCallsAssumption DEF IInv, TypeOK
  <2>3. Send
    <3>1. MisreadRefused \/ MisreadStarves => asked' = asked
      BY MisreadGivesUp DEF GiveUp
    <3>2. QED
      BY <2>1, <2>2, <3>1
       DEF Next, Client, Server, Connect, ConnectFails, Close, RefuseSql,
           SendFails, ReadFront, BadHeader, TakeFrame, FinishCall,
           RejectFrame, TimeOut, Disconnected, MisreadTaken, MisreadFinishes,
           Serve, ServerCloses, GiveUp, clientVars
  <2>4. QED
    BY <2>1, <2>3 DEF Send, IInv, InSync
<1>2. QED
  BY InvInit, InvStep, <1>1, PTL DEF Spec, SendsAlone

---------------------------------------------------------------------------
(* Refinement: RmdbClient implements Session. *)

SLink == CASE pc = "closed" -> "down" [] pc = "ready" -> "idle" [] OTHER -> "busy"
SLast == [kind |-> result.kind,
          of   |-> IF result.kind \in Answers THEN result.frames[1].req ELSE 0]

LEMMA SessInit == Init => Sess!Init
BY DEF Init, Outcome, Answers, Sess!Init, Sess!Failure

\* A step of the frame loop that does not end the call is invisible.
LEMMA SessStep == IInv /\ [Next]_vars => [Sess!Next]_(Sess!vars)
<1> SUFFICES ASSUME IInv, [Next]_vars
             PROVE  [Sess!Next]_(Sess!vars)
  OBVIOUS
<1> USE DEF Sess!Next
<1>1. CASE Connect
  <2>1. Sess!Open
    BY <1>1 DEF Connect, Outcome, Answers, Sess!Open, Sess!Opened
  <2>2. QED
    BY <2>1
<1>2. CASE ConnectFails
  <2>1. Sess!OpenFails
    BY <1>2 DEF ConnectFails, Outcome, Answers, Failures,
                Sess!OpenFails, Sess!Failures, Sess!Failure
  <2>2. QED
    BY <2>1
<1>3. CASE Close
  <2>1. Sess!Close
    BY <1>3 DEF Close, Sess!Close
  <2>2. QED
    BY <2>1
<1>4. CASE RefuseSql
  <2>1. Sess!Refuse
    BY <1>4 DEF RefuseSql, Outcome, Answers, Sess!Refuse, Sess!Failure
  <2>2. QED
    BY <2>1
<1>5. CASE Send
  <2>1. Sess!Call
    BY <1>5 DEF Send, Sess!Call
  <2>2. QED
    BY <2>1
<1>6. CASE \/ SendFails \/ TimeOut \/ Disconnected \/ BadHeader \/ RejectFrame
           \/ MisreadRefused \/ MisreadStarves
  <2>1. PICK kind \in Failures : GiveUp(kind)
    BY <1>6, MisreadGivesUp
       DEF SendFails, TimeOut, Disconnected, BadHeader, RejectFrame, Failures
  <2>2. pc \in {"ready", "reading"}
    BY <1>6, MisreadGivesUp
       DEF SendFails, TimeOut, Disconnected, BadHeader, RejectFrame, AtFrame,
           BeyondBoundary
  <2>3. Sess!Fail
    BY <2>1, <2>2 DEF GiveUp, Outcome, Answers, Failures,
                      Sess!Fail, Sess!Failures, Sess!Failure
  <2>4. QED
    BY <2>3
<1>7. CASE FinishCall
  <2>1. /\ pc = "reading" /\ pc' = "ready"
        /\ stream # <<>>
        /\ result' = [kind |-> AnswerKind(Head(stream).frame), req |-> asked,
                      frames |-> Took]
        /\ UNCHANGED <<asked, tainted>>
    BY <1>7 DEF FinishCall, AtFrame, Outcome
  <2>2. /\ result'.kind \in Answers /\ result'.kind = AnswerKind(Head(stream).frame)
        /\ result'.frames = Took
    BY <2>1, AnswerKindType
  <2>3. /\ Took[1].req \in 0..asked
        /\ tainted \/ Took[1].req = asked
    <3>1. /\ Len(Took) = Len(got) + 1
          /\ \A i \in 1..Len(got) : Took[i] = got[i]
          /\ Took[Len(got) + 1].req = Head(stream).req
      BY <2>1, TookType DEF IInv
    <3>2. Len(got) \in Nat /\ (got # <<>> <=> Len(got) > 0)
      BY EmptySeq DEF IInv, TypeOK
    <3>3. Head(stream) = stream[1] /\ Len(stream) \in Nat /\ 1 \in 1..Len(stream)
      BY <2>1, EmptySeq DEF IInv, TypeOK
    <3>4. CASE got = <<>>
      BY <3>1, <3>2, <3>3, <3>4 DEF IInv, StreamShape, InSync
    <3>5. CASE got # <<>>
      BY <3>1, <3>2, <3>5 DEF IInv, CallShape, InSync
    <3>6. QED
      BY <3>4, <3>5
  <2>4. SLast' = [kind |-> AnswerKind(Head(stream).frame), of |-> Took[1].req]
    BY <2>2 DEF SLast
  <2>5. Sess!Reply
    BY <2>1, <2>2, <2>3, <2>4
       DEF SLast, Sess!Reply, Sess!Answer, Sess!Answers, Answers
  <2>6. QED
    BY <2>5
<1>7a. CASE MisreadFinishes
  <2>1. PICK tag \in Tags :
          result' = Outcome(AnswerKind(Garbled(tag)), asked, TookGarbled(tag))
    BY <1>7a DEF MisreadFinishes
  <2>2. /\ BeyondBoundary /\ pc = "reading" /\ pc' = "ready"
        /\ UNCHANGED <<asked, tainted>>
    BY <1>7a DEF MisreadFinishes, BeyondBoundary
  <2>3. tainted /\ TookGarbled(tag)[1].req = 0
    BY <2>2, BeyondIsAdrift, GarbledShape DEF IInv
  <2>4. result'.kind \in Answers /\ result'.kind = AnswerKind(Garbled(tag))
    BY <2>1, AnswerKindType DEF Outcome
  <2>5. SLast' = [kind |-> AnswerKind(Garbled(tag)), of |-> 0]
    BY <2>1, <2>3, <2>4 DEF SLast, Outcome
  <2>6. 0 \in 0..asked
    BY MaxCallsAssumption DEF IInv, TypeOK
  <2>7. Sess!Reply
    BY <2>2, <2>3, <2>4, <2>5, <2>6
       DEF SLast, Sess!Reply, Sess!Answer, Sess!Answers, Answers
  <2>8. QED
    BY <2>7
<1>8. CASE ReadFront \/ TakeFrame \/ MisreadTaken
  BY <1>8 DEF ReadFront, TakeFrame, MisreadTaken, Sess!vars
<1>9. CASE Serve \/ ServerCloses
  BY <1>9 DEF Serve, ServerCloses, clientVars, Sess!vars
<1>10. CASE UNCHANGED vars
  BY <1>10 DEF vars, clientVars, Sess!vars
<1>11. QED
  BY <1>1, <1>2, <1>3, <1>4, <1>5, <1>6, <1>7, <1>7a, <1>8, <1>9, <1>10
     DEF Next, Client, Server

\* A caller of RmdbClient sees Session: one result per call, and the server's
\* answer to that call until a call of the connection gives up.
THEOREM Implementation == Spec => ImplementsSession
BY InvInit, InvStep, SessInit, SessStep, PTL DEF Spec, ImplementsSession, Sess!Spec
=============================================================================
