-------------------------- MODULE UdsLegacyProofs --------------------------
(***************************************************************************)
(* Proofs about UdsLegacy: what the client of the legacy update is told    *)
(* was written has been written, for images of any size, any counter and   *)
(* any number of retries and runs.                                         *)
(***************************************************************************)
EXTENDS UdsLegacy, SequenceTheorems, TLAPS

(* Zephyr queues four requests unless configured otherwise; with five, old *)
(* requests can answer a whole new run.                                    *)
ShortQueue == MaxQueue <= 4
-----------------------------------------------------------------------------
(* Arithmetic of the block counter.                                        *)

LEMMA ModUnique ==
  ASSUME NEW m \in Nat \ {0}, NEW k \in Nat, NEW c \in 0 .. (m - 1)
  PROVE  (m * k + c) % m = c
  OBVIOUS

LEMMA CounterFirst ==
  Counter(1) = 0 /\ ((Mod - 1) + 1) % Mod = 0 /\ Mod - 1 # 0
<1>1. Mod \in Nat \ {0, 1}
  BY LegacyAssumption
<1>2. (Mod * 0 + 0) % Mod = 0 /\ (Mod * 1 + 0) % Mod = 0
  BY <1>1, ModUnique
<1>3. Mod * 0 + 0 = 1 - 1 /\ Mod * 1 + 0 = (Mod - 1) + 1
  BY <1>1
<1> QED BY <1>1, <1>2, <1>3 DEF Counter

LEMMA CounterNext ==
  ASSUME NEW i \in Nat, i > 0
  PROVE  /\ Counter(i) \in 0 .. (Mod - 1)
         /\ (Counter(i) + 1) % Mod = Counter(i + 1)
         /\ Counter(i) # Counter(i + 1)
<1>1. Mod \in Nat \ {0, 1}
  BY LegacyAssumption
<1> DEFINE k == (i - 1) \div Mod
           c == (i - 1) % Mod
<1>2. k \in Nat /\ c \in 0 .. (Mod - 1) /\ i - 1 = Mod * k + c
  BY <1>1
<1> HIDE DEF k, c
<1>3. CASE c + 1 < Mod
  <2>1. c + 1 \in 0 .. (Mod - 1) /\ 0 \in Nat
    BY <1>1, <1>2, <1>3
  <2>2. i = Mod * k + (c + 1) /\ c + 1 = Mod * 0 + (c + 1)
    BY <1>1, <1>2
  <2>3. i % Mod = c + 1 /\ (c + 1) % Mod = c + 1
    BY <1>1, <1>2, <2>1, <2>2, ModUnique
  <2> QED BY <1>2, <2>3 DEF Counter, c
<1>4. CASE c + 1 = Mod
  <2>1. i = Mod * (k + 1) + 0 /\ c + 1 = Mod * 1 + 0 /\ k + 1 \in Nat
    BY <1>1, <1>2, <1>4
  <2>2. i % Mod = 0 /\ (c + 1) % Mod = 0
    BY <1>1, <2>1, ModUnique
  <2> QED BY <1>1, <1>2, <1>4, <2>2 DEF Counter, c
<1> QED BY <1>1, <1>2, <1>3, <1>4

(* block_id after w blocks; what EraseRoutine sets it to is 0 blocks.      *)
BlockIdAfter(w) == IF w = 0 THEN Mod - 1 ELSE Counter(w)

LEMMA BlockIdAdvances ==
  ASSUME NEW w \in Nat
  PROVE  /\ BlockIdAfter(w) # Counter(w + 1)
         /\ (BlockIdAfter(w) + 1) % Mod = Counter(w + 1)
<1>1. CASE w = 0
  <2>1. w + 1 = 1
    BY <1>1
  <2> QED BY <1>1, <2>1, CounterFirst DEF BlockIdAfter
<1>2. CASE w # 0
  BY <1>2, CounterNext DEF BlockIdAfter
<1> QED BY <1>1, <1>2
-----------------------------------------------------------------------------
(* The steps of the client.                                                *)

LEMMA StepNamesAre ==
  StepNames = {"session", "erase", "download", "transfer", "exit", "confirm", "reset"}
<1>1. Len(Steps) = 7
  BY DEF Steps
<1>2. \A i \in 1 .. 7 : i \in {1, 2, 3, 4, 5, 6, 7}
  OBVIOUS
<1> QED BY <1>1, <1>2 DEF StepNames, Steps

LEMMA NextStepIs ==
  /\ NextStep("session") = "erase" /\ NextStep("erase") = "download"
  /\ NextStep("download") = "transfer" /\ NextStep("transfer") = "exit"
  /\ NextStep("exit") = "confirm" /\ NextStep("confirm") = "reset"
  /\ NextStep("reset") = "done"
<1>1. Len(Steps) = 7
  BY DEF Steps
<1>2. ASSUME NEW i \in 1 .. 7
      PROVE  (CHOOSE j \in 1 .. Len(Steps) : Steps[j] = Steps[i]) = i
  <2>1. \A j \in 1 .. 7 : Steps[j] = Steps[i] => j = i
    BY DEF Steps
  <2> QED BY <1>1, <2>1
<1>3. ASSUME NEW i \in 1 .. 7
      PROVE  NextStep(Steps[i]) = IF i = 7 THEN "done" ELSE Steps[i + 1]
  <2> DEFINE m == CHOOSE j \in 1 .. Len(Steps) : Steps[j] = Steps[i]
  <2>1. m = i
    BY <1>2
  <2>2. NextStep(Steps[i]) = IF m = Len(Steps) THEN "done" ELSE Steps[m + 1]
    BY DEF NextStep
  <2> HIDE DEF m
  <2> QED BY <1>1, <2>1, <2>2
<1>4. /\ Steps[1] = "session" /\ Steps[2] = "erase" /\ Steps[3] = "download"
      /\ Steps[4] = "transfer" /\ Steps[5] = "exit" /\ Steps[6] = "confirm"
      /\ Steps[7] = "reset"
  BY DEF Steps
<1> QED BY <1>3, <1>4
-----------------------------------------------------------------------------
(* The image, and the part of it that has been written.                    *)

LEMMA Prefixes ==
  ASSUME NEW r, NEW w \in 0 .. N
  PROVE  SubSeq(Image(r), 1, w) = [i \in 1 .. w |-> <<r, i>>]
<1>1. N \in Nat
  BY LegacyAssumption
<1> DEFINE s == Image(r)
           S == {<<r, i>> : i \in 1 .. N}
<1>2. s \in Seq(S) /\ Len(s) = N /\ \A i \in 1 .. N : s[i] = <<r, i>>
  BY <1>1 DEF Image
<1> HIDE DEF s
<1>3. /\ SubSeq(s, 1, w) \in Seq(S) /\ Len(SubSeq(s, 1, w)) = w - 1 + 1
      /\ \A i \in 1 .. w - 1 + 1 : SubSeq(s, 1, w)[i] = s[1 + i - 1]
  BY <1>1, <1>2, SubSeqProperties
<1>4. \A i \in 1 .. w : SubSeq(s, 1, w)[i] = <<r, i>>
  BY <1>1, <1>2, <1>3
<1>5. SubSeq(s, 1, w) = [i \in 1 .. w |-> SubSeq(s, 1, w)[i]]
  BY <1>1, <1>3
<1> QED BY <1>4, <1>5 DEF s

LEMMA PrefixGrows ==
  ASSUME NEW r, NEW w \in 0 .. (N - 1)
  PROVE  Append(SubSeq(Image(r), 1, w), <<r, w + 1>>) = SubSeq(Image(r), 1, w + 1)
<1>1. N \in Nat
  BY LegacyAssumption
<1>2. /\ SubSeq(Image(r), 1, w) = [i \in 1 .. w |-> <<r, i>>]
      /\ SubSeq(Image(r), 1, w + 1) = [i \in 1 .. (w + 1) |-> <<r, i>>]
  BY <1>1, Prefixes
<1> QED BY <1>1, <1>2

LEMMA WholePrefix ==
  ASSUME NEW r
  PROVE  SubSeq(Image(r), 1, N) = Image(r) /\ SubSeq(Image(r), 1, 0) = <<>>
<1>1. N \in Nat
  BY LegacyAssumption
<1>2. SubSeq(Image(r), 1, 0) = <<>>
  BY SubSeqEmpty
<1>3. SubSeq(Image(r), 1, N) = [i \in 1 .. N |-> <<r, i>>]
  BY <1>1, Prefixes
<1> QED BY <1>2, <1>3 DEF Image
-----------------------------------------------------------------------------
(* Types, and where the client is.                                         *)

Blocks == (1 .. MaxRuns) \X (1 .. N)

Messages ==
  {m \in [sid : StepNames, block : 0 .. (Mod - 1), data : {<<>>} \cup Blocks] :
     m.sid = "transfer" => m.data \in Blocks}

Answers ==
  [kind : {"positive", "negative", "pending"}, sid : StepNames, block : 0 .. (Mod - 1)]

Channels ==
  /\ requests \in Seq(Messages) /\ responses \in Seq(Answers)
  /\ stream \in Seq(Blocks)

Progress ==
  /\ waiting => pc \in StepNames
  /\ pc \in StepNames => runs > 0
  /\ pc \in StepNames /\ ~waiting => retries < MaxRetries
  /\ pc \in {"session", "erase", "download"} => sent = 0
  /\ pc = "transfer" => sent < N
  /\ pc \in {"exit", "confirm", "reset", "done"} => sent = N

LegacyType == TypeOK /\ Channels /\ Progress

LEMMA Constants ==
  /\ N \in Nat \ {0} /\ Mod \in Nat \ {0, 1} /\ FirstId \in 0 .. (Mod - 1)
  /\ MaxRetries \in Nat \ {0} /\ MaxRuns \in Nat \ {0} /\ MaxQueue \in Nat \ {0}
  BY LegacyAssumption

LEMMA AnswerTypes ==
  ASSUME NEW sid \in StepNames, NEW block \in 0 .. (Mod - 1)
  PROVE  /\ Positive(sid, block) \in Answers /\ Positive(sid, 0) \in Answers
         /\ Negative(sid) \in Answers /\ Pending(sid) \in Answers
<1>1. 0 \in 0 .. (Mod - 1)
  BY Constants
<1> QED BY <1>1 DEF Positive, Negative, Pending, Answers

(* One or two answers are sent.                                            *)
LEMMA Answering ==
  ASSUME NEW q \in Seq(Answers), NEW a \in Answers, NEW b \in Answers
  PROVE  /\ q \o <<a>> \in Seq(Answers) /\ q \o <<a, b>> \in Seq(Answers)
         /\ q \o <<a>> # <<>> /\ q \o <<a, b>> # <<>>
         /\ \A x : (\E i \in 1 .. Len(q \o <<a>>) : (q \o <<a>>)[i] = x)
                   => x = a \/ \E i \in 1 .. Len(q) : q[i] = x
         /\ \A x : (\E i \in 1 .. Len(q \o <<a, b>>) : (q \o <<a, b>>)[i] = x)
                   => x = a \/ x = b \/ \E i \in 1 .. Len(q) : q[i] = x
<1>1. /\ <<a>> \in Seq(Answers) /\ Len(<<a>>) = 1 /\ <<a>>[1] = a
      /\ <<a, b>> \in Seq(Answers) /\ Len(<<a, b>>) = 2
      /\ <<a, b>>[1] = a /\ <<a, b>>[2] = b
  OBVIOUS
<1> DEFINE one == <<a>>
           two == <<a, b>>
<1> HIDE DEF one, two
<1>2. /\ q \o one \in Seq(Answers) /\ Len(q \o one) = Len(q) + 1
      /\ \A i \in 1 .. Len(q) + 1 :
           (q \o one)[i] = IF i <= Len(q) THEN q[i] ELSE one[i - Len(q)]
  BY <1>1, ConcatProperties DEF one
<1>3. /\ q \o two \in Seq(Answers) /\ Len(q \o two) = Len(q) + 2
      /\ \A i \in 1 .. Len(q) + 2 :
           (q \o two)[i] = IF i <= Len(q) THEN q[i] ELSE two[i - Len(q)]
  BY <1>1, ConcatProperties DEF two
<1>4. Len(q) \in Nat
  BY LenProperties
<1>5. \A i \in 1 .. Len(q) + 1 : (q \o one)[i] = a \/ \E j \in 1 .. Len(q) : q[j] = (q \o one)[i]
  <2> TAKE i \in 1 .. Len(q) + 1
  <2>1. i <= Len(q) \/ i - Len(q) = 1
    BY <1>4
  <2> QED BY <1>1, <1>2, <1>4, <2>1 DEF one
<1>6. \A i \in 1 .. Len(q) + 2 :
        (q \o two)[i] \in {a, b} \/ \E j \in 1 .. Len(q) : q[j] = (q \o two)[i]
  <2> TAKE i \in 1 .. Len(q) + 2
  <2>1. i <= Len(q) \/ i - Len(q) = 1 \/ i - Len(q) = 2
    BY <1>4
  <2> QED BY <1>1, <1>3, <1>4, <2>1 DEF two
<1>7. q \o one # <<>> /\ q \o two # <<>>
  BY <1>2, <1>3, <1>4
<1> QED BY <1>2, <1>3, <1>5, <1>6, <1>7 DEF one, two

LEMMA RequestType ==
  ASSUME TypeOK, Progress, pc \in StepNames
  PROVE  Request(pc) \in Messages /\ Request(pc).block \in 0 .. (Mod - 1)
<1>1. 0 \in 0 .. (Mod - 1)
  BY Constants
<1>2. CASE pc = "transfer"
  <2>1. sent + 1 \in 1 .. N /\ sent + 1 \in Nat /\ sent + 1 > 0 /\ runs \in 1 .. MaxRuns
    BY <1>2, Constants DEF TypeOK, Progress
  <2>2. Counter(sent + 1) \in 0 .. (Mod - 1)
    BY <2>1, CounterNext
  <2>3. <<runs, sent + 1>> \in Blocks
    BY <2>1 DEF Blocks
  <2> QED BY <1>2, <2>2, <2>3 DEF Request, Messages
<1>3. CASE pc # "transfer"
  BY <1>1, <1>3 DEF Request, Messages
<1> QED BY <1>2, <1>3
-----------------------------------------------------------------------------
(* LegacyType is inductive.                                                *)

LEMMA ServeType ==
  ASSUME LegacyType, ServeRequest, faults' = faults
  PROVE  LegacyType'
<1> DEFINE request == Head(requests)
<1>0. requests # <<>> /\ UNCHANGED client
  BY DEF ServeRequest
<1>1. request \in Messages /\ Tail(requests) \in Seq(Messages)
  BY <1>0, HeadTailProperties DEF LegacyType, Channels
<1>2. /\ request.sid \in StepNames /\ request.block \in 0 .. (Mod - 1)
      /\ request.sid = "transfer" => request.data \in Blocks
  BY <1>1 DEF Messages
<1>3. requests' \in Seq(Messages)
  BY <1>1, EmptySeq DEF ServeRequest
<1>4. UNCHANGED <<faults, pc, waiting, sent, retries, runs>>
  BY <1>0 DEF client
<1>5. SUFFICES /\ responses' \in Seq(Answers) /\ stream' \in Seq(Blocks)
               /\ session' \in {"DEFAULT", "PROGRAMMING"}
               /\ ready' \in BOOLEAN /\ flushed' \in BOOLEAN /\ failed' \in BOOLEAN
               /\ blockId' \in 0 .. (Mod - 1)
  <2>1. \A i \in 1 .. Len(stream') : stream'[i] \in Blocks
    BY <1>5, ElementOfSeq
  <2> QED BY <1>3, <1>4, <1>5, <2>1
          DEF LegacyType, TypeOK, Channels, Progress, Blocks
<1>6. /\ responses \in Seq(Answers) /\ stream \in Seq(Blocks)
      /\ session \in {"DEFAULT", "PROGRAMMING"}
      /\ ready \in BOOLEAN /\ flushed \in BOOLEAN /\ failed \in BOOLEAN
      /\ blockId \in 0 .. (Mod - 1)
  BY DEF LegacyType, TypeOK, Channels
<1>7. /\ Mod - 1 \in 0 .. (Mod - 1) /\ FirstId \in 0 .. (Mod - 1) /\ 0 \in 0 .. (Mod - 1)
      /\ (blockId + 1) % Mod \in 0 .. (Mod - 1)
  BY <1>6, Constants
<1>8. \A sid \in StepNames, block \in 0 .. (Mod - 1) :
        /\ responses \o <<Positive(sid, block)>> \in Seq(Answers)
        /\ responses \o <<Positive(sid, 0)>> \in Seq(Answers)
        /\ responses \o <<Negative(sid)>> \in Seq(Answers)
        /\ responses \o <<Pending(sid), Positive(sid, 0)>> \in Seq(Answers)
        /\ responses \o <<Negative(sid), Positive(sid, block)>> \in Seq(Answers)
  BY <1>6, AnswerTypes, Answering
<1>9. CASE request.sid = "session" /\ ChangeSession
  BY <1>2, <1>6, <1>7, <1>8, <1>9 DEF ChangeSession, Answer
<1>10. CASE request.sid = "erase" /\ EraseRoutine
  BY <1>2, <1>6, <1>7, <1>8, <1>10, EmptySeq DEF EraseRoutine, Answer
<1>11. CASE request.sid = "download" /\ RequestDownload
  BY <1>2, <1>6, <1>7, <1>8, <1>11 DEF RequestDownload, Answer, server
<1>12. CASE request.sid = "transfer" /\ TransferData(request)
  <2>1. Append(stream, request.data) \in Seq(Blocks)
    BY <1>2, <1>6, <1>12, AppendProperties
  <2>2. session' = session /\ ready' = ready
    BY <1>12 DEF TransferData
  <2>3. blockId' = blockId \/ blockId' = (blockId + 1) % Mod
    BY <1>12 DEF TransferData
  <2>4. /\ \/ stream' = stream /\ flushed' = flushed
           \/ stream' = Append(stream, request.data) /\ flushed' = FALSE
        /\ failed' = failed \/ failed' = TRUE
    BY <1>12 DEF TransferData, Write
  <2>5. blockId' \in 0 .. (Mod - 1)
    BY <1>6, <1>7, <2>3
  <2>6. responses' \in Seq(Answers)
    BY <1>2, <1>6, <1>8, <1>12, <2>5 DEF TransferData, Answer
  <2> QED BY <1>6, <2>1, <2>2, <2>4, <2>5, <2>6
<1>13. CASE request.sid = "exit" /\ TransferExit
  BY <1>2, <1>6, <1>7, <1>8, <1>13 DEF TransferExit, Answer
<1>14. CASE request.sid = "confirm" /\ ConfirmRoutine
  BY <1>2, <1>6, <1>7, <1>8, <1>14 DEF ConfirmRoutine, Answer, server
<1>15. CASE request.sid = "reset" /\ EcuReset
  BY <1>2, <1>6, <1>7, <1>8, <1>15 DEF EcuReset, Answer
<1> QED BY <1>9, <1>10, <1>11, <1>12, <1>13, <1>14, <1>15 DEF ServeRequest

LEMMA ClientType ==
  ASSUME LegacyType, StartRun \/ SendRequest \/ Receive \/ Timeout, faults' = faults
  PROVE  LegacyType'
<1>1. /\ TypeOK /\ Channels /\ Progress
      /\ pc \in StepNames \cup {"idle", "done", "failed"}
      /\ waiting \in BOOLEAN /\ sent \in 0 .. N
      /\ retries \in 0 .. MaxRetries /\ runs \in 0 .. MaxRuns
  BY DEF LegacyType, TypeOK
<1>2. UNCHANGED server
  BY DEF StartRun, SendRequest, Receive, Timeout
<1>3. requests' \in Seq(Messages)
  <2>1. CASE SendRequest
    BY <1>1, <2>1, RequestType, AppendProperties DEF SendRequest, Channels
  <2>2. CASE StartRun \/ Receive \/ Timeout
    BY <1>1, <2>2 DEF StartRun, Receive, Timeout, Channels
  <2> QED BY <2>1, <2>2
<1>4. responses' \in Seq(Answers)
  <2>1. CASE SendRequest
    BY <2>1, EmptySeq DEF SendRequest
  <2>2. CASE Receive
    BY <1>1, <2>2, HeadTailProperties DEF Receive, Channels
  <2>3. CASE StartRun \/ Timeout
    BY <1>1, <2>3 DEF StartRun, Timeout, Channels
  <2> QED BY <2>1, <2>2, <2>3
<1> DEFINE Good ==
             /\ pc' \in StepNames \cup {"idle", "done", "failed"}
             /\ waiting' \in BOOLEAN /\ sent' \in 0 .. N
             /\ retries' \in 0 .. MaxRetries /\ runs' \in 0 .. MaxRuns
             /\ Progress'
<1>5. SUFFICES Good
  BY <1>1, <1>2, <1>3, <1>4, <1>5 DEF LegacyType, TypeOK, Channels, server
<1>6. CASE StartRun
  <2>1. /\ pc' = "session" /\ waiting' = FALSE /\ sent' = 0 /\ retries' = 0
        /\ runs' = runs + 1 /\ runs < MaxRuns
    BY <1>6 DEF StartRun
  <2>2. 0 \in 0 .. N /\ 0 < MaxRetries /\ 0 \in 0 .. MaxRetries
        /\ runs + 1 \in 0 .. MaxRuns /\ runs + 1 > 0
    BY <1>1, <2>1, Constants
  <2> QED BY <2>1, <2>2, StepNamesAre DEF Progress
<1>7. CASE SendRequest
  BY <1>1, <1>7, Constants, StepNamesAre DEF SendRequest, Progress
<1>8. ASSUME Fail, runs' = runs PROVE Good
  BY <1>1, <1>8, Constants, StepNamesAre DEF Fail, Progress
<1>9. CASE Receive
  <2>1. pc \in StepNames /\ runs' = runs /\ waiting
    BY <1>1, <1>9 DEF Receive, Progress
  <2>2. CASE Accept
    <3>1. waiting' = FALSE /\ retries' = 0
      BY <2>2 DEF Accept
    <3>2. /\ 0 < MaxRetries /\ 0 \in 0 .. MaxRetries /\ sent \in Nat /\ N \in Nat
          /\ N > 0 /\ runs > 0
      BY <1>1, <2>1, Constants DEF Progress
    <3>3. CASE pc = "transfer"
      <4>1. sent < N
        BY <1>1, <3>3 DEF Progress
      <4>2. sent' = sent + 1 /\ pc' = IF sent + 1 < N THEN "transfer" ELSE "exit"
        BY <2>2, <3>3, NextStepIs DEF Accept
      <4>3. sent' \in 0 .. N /\ (pc' = "transfer" => sent' < N) /\ (pc' = "exit" => sent' = N)
        BY <3>2, <4>1, <4>2
      <4> QED BY <1>1, <2>1, <3>1, <3>2, <4>2, <4>3, StepNamesAre DEF Progress
    <3>4. CASE pc # "transfer"
      <4>1. sent' = sent /\ pc' = NextStep(pc)
        BY <2>2, <3>4 DEF Accept
      <4> QED BY <1>1, <2>1, <3>1, <3>2, <3>4, <4>1, StepNamesAre, NextStepIs
              DEF Progress
    <3> QED BY <3>3, <3>4
  <2>3. CASE UNCHANGED <<pc, waiting, sent, retries>>
    BY <1>1, <2>1, <2>3 DEF Progress
  <2> QED BY <1>8, <1>9, <2>1, <2>2, <2>3 DEF Receive
<1>10. CASE Timeout
  <2>1. runs' = runs
    BY <1>10 DEF Timeout
  <2>2. CASE ~Fail
    BY <1>1, <1>10, <2>2, Constants, StepNamesAre DEF Timeout, Progress
  <2> QED BY <1>8, <2>1, <2>2
<1> QED BY <1>6, <1>7, <1>9, <1>10

LEMMA TypeInit == Init => LegacyType
<1> SUFFICES ASSUME Init PROVE LegacyType
  OBVIOUS
<1>1. \A S : <<>> \in Seq(S)
  BY EmptySeq
<1>2. \A i \in 1 .. Len(<<>>) : FALSE
  OBVIOUS
<1>3. TypeOK
  <2>1. /\ 0 \in 0 .. N /\ 0 \in 0 .. MaxRetries /\ 0 \in 0 .. MaxRuns
        /\ FirstId \in 0 .. (Mod - 1)
    BY Constants
  <2>2. stream = <<>>
    BY DEF Init
  <2>3. \A i \in 1 .. Len(stream) : stream[i] \in (1 .. MaxRuns) \X (1 .. N)
    BY <1>2, <2>2
  <2> QED BY <2>1, <2>3 DEF Init, TypeOK
<1>4. Channels
  BY <1>1 DEF Init, Channels
<1>5. Progress
  BY StepNamesAre DEF Init, Progress
<1> QED BY <1>3, <1>4, <1>5 DEF LegacyType

LEMMA TypeNext ==
  ASSUME LegacyType, [Next]_vars
  PROVE  LegacyType'
<1>1. CASE ServeRequest /\ UNCHANGED faults
  BY <1>1, ServeType
<1>2. CASE (StartRun \/ SendRequest \/ Receive \/ Timeout) /\ UNCHANGED faults
  BY <1>2, ClientType
<1>3. CASE SessionTimeout /\ UNCHANGED faults
  BY <1>3 DEF SessionTimeout, client, LegacyType, TypeOK, Channels, Progress
<1>4. CASE Lose /\ UNCHANGED faults
  <2>1. requests' \in Seq(Messages) /\ responses' \in Seq(Answers)
    BY <1>4, HeadTailProperties DEF Lose, LegacyType, Channels
  <2> QED BY <1>4, <2>1 DEF Lose, client, server, LegacyType, TypeOK, Channels, Progress
<1>5. CASE UNCHANGED vars
  BY <1>5 DEF vars, moving, client, server, LegacyType, TypeOK, Channels, Progress
<1> QED BY <1>1, <1>2, <1>3, <1>4, <1>5 DEF Next

(* Types: block_id stays an unsigned byte, and no more than ten attempts   *)
(* are made to transfer a block.                                           *)
THEOREM TypeCorrect == Spec => []TypeOK
<1>1. LegacyType => TypeOK
  BY DEF LegacyType
<1>2. LegacyType /\ [Next]_vars => LegacyType'
  BY TypeNext
<1> QED BY <1>1, <1>2, TypeInit, PTL DEF Spec
-----------------------------------------------------------------------------
(* Whatever goes wrong, in any combination.                                *)
(*                                                                         *)
(* Old requests may still be waiting when a new run starts, and be         *)
(* answered in the place of its own.  Up to the erase that does no harm;   *)
(* once an erase has been accepted nothing is left in the queue that would *)
(* write.  After a failed flash call nothing is known of the flash context *)
(* until the next erase; the queue keeps its order all the same.           *)

(* What is queued, and in which order.                                     *)
QueueInv ==
  /\ Len(requests) <= MaxQueue
  /\ \A i \in 1 .. (Len(requests) - 1) :
       requests[i].sid = "erase" => requests[i + 1].sid \in {"download", "session"}
  /\ requests # <<>> =>
       LET last == requests[Len(requests)].sid
       IN  /\ waiting => last = pc
           /\ ~waiting /\ pc = "erase" => last = "session"
           /\ ~waiting /\ pc \in {"transfer", "exit", "confirm", "reset"}
                => last # "erase"
  /\ waiting /\ pc = "erase" /\ Len(requests) > 1
       => requests[Len(requests) - 1].sid = "session"

Answered(a) == \E i \in 1 .. Len(responses) : responses[i] = a

(* The flash context has w blocks of this run.                             *)
Stage(w) ==
  /\ ready
  /\ stream = SubSeq(Image(runs), 1, w)
  /\ blockId = BlockIdAfter(w)

OnStage(w) == failed \/ Stage(w)

Opening(request) == request.sid \in {"session", "erase", "download"}

(* The request for the i-th block of this run.                             *)
Mine(i) == [sid |-> "transfer", block |-> Counter(i), data |-> <<runs, i>>]

OpeningInv ==
  pc = "download" \/ (pc = "erase" /\ waiting /\ Answered(Positive("erase", 0)))
  => OnStage(0) /\ \A i \in 1 .. Len(requests) : Opening(requests[i])

(* The next block has not been written: requests for it come behind all    *)
(* others.                                                                 *)
Behind ==
  /\ OnStage(sent)
  /\ ~(waiting /\ Answered(Positive("transfer", Counter(sent + 1))))
  /\ \A i \in 1 .. Len(requests) :
       \/ requests[i] = Mine(sent + 1)
       \/ IF sent = 0 THEN Opening(requests[i]) ELSE requests[i] = Mine(sent)
  /\ \A i, j \in 1 .. Len(requests) :
       i < j /\ requests[i] = Mine(sent + 1) => requests[j] = Mine(sent + 1)

(* It has been: there are only requests for it.                            *)
Ahead ==
  /\ OnStage(sent + 1)
  /\ \A i \in 1 .. Len(requests) : requests[i] = Mine(sent + 1)

(* Requests that write nothing.                                            *)
Inert(request) ==
  /\ request.sid \in {"transfer", "exit", "confirm", "reset"}
  /\ request.sid = "transfer" => failed \/ request.block = blockId

ClosingInv ==
  pc \in {"exit", "confirm", "reset", "done"} =>
    /\ failed \/ stream = Image(runs)
    /\ \A i \in 1 .. Len(requests) : Inert(requests[i])
    /\ failed \/ flushed \/ (pc = "exit" /\ ~(waiting /\ Answered(Positive("exit", 0))))

LateInv ==
  QueueInv /\ OpeningInv /\ (pc = "transfer" => Behind \/ Ahead) /\ ClosingInv

(* The first request of the queue leaves it.                               *)
LEMMA Leaving ==
  ASSUME Channels, requests # <<>>
  PROVE  /\ Len(requests) \in Nat /\ Len(requests) > 0
         /\ Head(requests) = requests[1] /\ 1 \in 1 .. Len(requests)
         /\ Len(Tail(requests)) = Len(requests) - 1
         /\ \A i \in 1 .. Len(Tail(requests)) :
              /\ i + 1 \in 1 .. Len(requests)
              /\ Tail(requests)[i] = requests[i + 1]
<1>1. /\ requests \in Seq(Messages) /\ Len(Tail(requests)) = Len(requests) - 1
      /\ \A i \in 1 .. Len(Tail(requests)) : Tail(requests)[i] = requests[i + 1]
  BY HeadTailProperties DEF Channels
<1>2. Len(requests) \in Nat /\ Len(requests) > 0
  BY <1>1
<1>3. Head(requests) = requests[1]
  BY <1>1
<1> QED BY <1>1, <1>2, <1>3

LEMMA QueueShrinks ==
  ASSUME Channels, QueueInv, requests # <<>>, requests' = Tail(requests),
         UNCHANGED client
  PROVE  QueueInv'
<1> DEFINE n == Len(requests)
<1>1. /\ n \in Nat /\ n > 0 /\ Len(requests') = n - 1
      /\ \A i \in 1 .. (n - 1) : requests'[i] = requests[i + 1]
  BY Leaving
<1>2. /\ pc' = pc /\ waiting' = waiting
  BY DEF client
<1>3. Len(requests') <= MaxQueue
  BY <1>1, Constants DEF QueueInv
<1>4. ASSUME NEW i \in 1 .. (Len(requests') - 1), requests'[i].sid = "erase"
      PROVE  requests'[i + 1].sid \in {"download", "session"}
  <2>1. i \in 1 .. (n - 1) /\ i + 1 \in 1 .. (n - 1)
    BY <1>1
  <2> QED BY <1>1, <1>4, <2>1 DEF QueueInv
<1>5. requests' # <<>> => requests'[Len(requests')] = requests[n]
  <2> SUFFICES ASSUME requests' # <<>> PROVE requests'[n - 1] = requests[n]
    BY <1>1
  <2>1. n - 1 > 0
    <3>1. requests' \in Seq(Messages)
      BY HeadTailProperties DEF Channels
    <3> QED BY <1>1, <3>1
  <2>2. n - 1 \in 1 .. (n - 1) /\ (n - 1) + 1 = n
    BY <1>1, <2>1
  <2> QED BY <1>1, <2>2
<1>6. Len(requests') > 1 => requests'[Len(requests') - 1] = requests[n - 1]
  <2> SUFFICES ASSUME n - 1 > 1 PROVE requests'[n - 2] = requests[n - 1]
    BY <1>1
  <2>1. n - 2 \in 1 .. (n - 1) /\ (n - 2) + 1 = n - 1
    BY <1>1
  <2> QED BY <1>1, <2>1
<1> QED BY <1>1, <1>2, <1>3, <1>4, <1>5, <1>6 DEF QueueInv

LEMMA QueueClient ==
  ASSUME LegacyType, QueueInv, StartRun \/ SendRequest \/ Receive \/ Timeout
  PROVE  QueueInv'
<1> DEFINE n == Len(requests)
<1>1. requests \in Seq(Messages) /\ n \in Nat /\ (requests # <<>> => n > 0)
  BY DEF LegacyType, Channels
<1>2. waiting \in BOOLEAN /\ (waiting => pc \in StepNames)
  BY DEF LegacyType, TypeOK, Progress
<1>3. CASE StartRun
  BY <1>3 DEF StartRun, QueueInv
<1>4. ASSUME Fail, requests' = requests PROVE QueueInv'
  BY <1>4 DEF Fail, QueueInv
<1>5. CASE Timeout
  <2>1. requests' = requests /\ (Fail \/ (waiting /\ pc' = pc /\ pc = "transfer" /\ waiting' = FALSE))
    BY <1>5 DEF Timeout
  <2> QED BY <1>4, <2>1 DEF QueueInv
<1>6. CASE Receive
  <2>1. requests' = requests /\ waiting
    BY <1>6 DEF Receive
  <2>2. CASE Accept
    <3>1. waiting' = FALSE /\ ((pc' = pc /\ pc = "transfer") \/ pc' = NextStep(pc))
      BY <2>2 DEF Accept
    <3>2. requests # <<>> => requests[n].sid = pc
      BY <2>1 DEF QueueInv
    <3>3. requests # <<>> =>
            /\ pc' = "erase" => requests[n].sid = "session"
            /\ pc' \in {"transfer", "exit", "confirm", "reset"} => requests[n].sid # "erase"
      BY <1>2, <2>1, <3>1, <3>2, StepNamesAre, NextStepIs
    <3> QED BY <2>1, <3>1, <3>3 DEF QueueInv
  <2>3. CASE UNCHANGED <<pc, waiting, sent, retries>>
    BY <2>1, <2>3 DEF QueueInv
  <2> QED BY <1>4, <1>6, <2>1, <2>2, <2>3 DEF Receive
<1>7. CASE SendRequest
  <2>1. /\ ~waiting /\ waiting' = TRUE /\ pc' = pc /\ pc \in StepNames /\ n < MaxQueue
        /\ requests' = Append(requests, Request(pc)) /\ Request(pc).sid = pc
    BY <1>7 DEF SendRequest, Request
  <2>2. /\ Len(requests') = n + 1 /\ requests'[n + 1].sid = pc
        /\ \A i \in 1 .. n : requests'[i] = requests[i]
    BY <1>1, <2>1, RequestType, AppendProperties DEF LegacyType
  <2>3. n + 1 <= MaxQueue
    BY <1>1, <2>1, Constants
  <2>4. ASSUME NEW i \in 1 .. n, requests'[i].sid = "erase"
        PROVE  requests'[i + 1].sid \in {"download", "session"}
    <3>1. CASE i < n
      <4>1. i \in 1 .. (n - 1) /\ i + 1 \in 1 .. n
        BY <1>1, <3>1
      <4> QED BY <2>2, <2>4, <4>1 DEF QueueInv
    <3>2. CASE i = n
      <4>1. requests # <<>> /\ requests[n].sid = "erase"
        BY <1>1, <2>2, <2>4, <3>2
      <4>2. pc \notin {"erase", "transfer", "exit", "confirm", "reset"}
        BY <2>1, <4>1 DEF QueueInv
      <4> QED BY <2>1, <2>2, <3>2, <4>2, StepNamesAre
    <3> QED BY <1>1, <3>1, <3>2
  <2>5. pc = "erase" /\ n + 1 > 1 => requests'[n].sid = "session"
    <3> SUFFICES ASSUME pc = "erase", n > 0 PROVE requests'[n].sid = "session"
      BY <1>1
    <3>1. requests # <<>> /\ n \in 1 .. n
      BY <1>1
    <3> QED BY <2>1, <2>2, <3>1 DEF QueueInv
  <2>6. (n + 1) - 1 = n
    BY <1>1
  <2> QED BY <2>1, <2>2, <2>3, <2>4, <2>5, <2>6 DEF QueueInv
<1> QED BY <1>3, <1>5, <1>6, <1>7

(* A message is lost.                                                      *)
LEMMA LateLose ==
  ASSUME LegacyType, LateInv, Lose
  PROVE  LateInv'
<1>1. UNCHANGED <<pc, waiting, sent, retries, runs, session, ready, blockId, stream, flushed,
                  failed>>
      /\ UNCHANGED client
  BY DEF Lose, client, server
<1>2. CASE requests # <<>> /\ requests' = Tail(requests) /\ UNCHANGED responses
  <2>1. QueueInv'
    BY <1>1, <1>2, QueueShrinks DEF LegacyType, LateInv
  <2>2. \A i \in 1 .. Len(requests') :
          i + 1 \in 1 .. Len(requests) /\ requests'[i] = requests[i + 1]
    BY <1>2, Leaving DEF LegacyType
  <2>3. \A x : Answered(x)' = Answered(x)
    BY <1>2 DEF Answered
  <2>4. \A w : OnStage(w)' = OnStage(w) /\ Mine(w)' = Mine(w)
    BY <1>1 DEF OnStage, Stage, Mine
  <2>5. OpeningInv'
    BY <1>1, <2>2, <2>3, <2>4 DEF LateInv, OpeningInv
  <2>6. Behind => Behind'
    <3> SUFFICES ASSUME Behind PROVE Behind'
      OBVIOUS
    <3>1. \A i, j \in 1 .. Len(requests') : i < j => i + 1 < j + 1
      OBVIOUS
    <3> QED BY <1>1, <2>2, <2>3, <2>4, <3>1 DEF Behind
  <2>7. Ahead => Ahead'
    BY <1>1, <2>2, <2>4 DEF Ahead
  <2>8. ClosingInv'
    BY <1>1, <2>2, <2>3 DEF LateInv, ClosingInv, Inert
  <2> QED BY <1>1, <2>1, <2>5, <2>6, <2>7, <2>8 DEF LateInv
<1>3. CASE responses # <<>> /\ responses' = Tail(responses) /\ UNCHANGED requests
  <2>1. \A x : Answered(x)' => Answered(x)
    BY <1>3, HeadTailProperties DEF Answered, LegacyType, Channels
  <2>2. \A w : OnStage(w)' = OnStage(w) /\ Mine(w)' = Mine(w)
    BY <1>1 DEF OnStage, Stage, Mine
  <2> QED BY <1>1, <1>3, <2>1, <2>2
          DEF LateInv, QueueInv, OpeningInv, Behind, Ahead, ClosingInv, Inert
<1> QED BY <1>2, <1>3 DEF Lose

(* The client's steps.                                                     *)
LEMMA LateClient ==
  ASSUME LegacyType, LateInv, StartRun \/ SendRequest \/ Receive \/ Timeout
  PROVE  LateInv'
<1>1. QueueInv'
  BY QueueClient DEF LateInv
<1>2. UNCHANGED <<session, ready, blockId, stream, flushed, failed>>
  BY DEF StartRun, SendRequest, Receive, Timeout, server
<1>3. /\ requests \in Seq(Messages) /\ responses \in Seq(Answers)
      /\ Len(requests) \in Nat /\ sent \in 0 .. N /\ sent \in Nat /\ waiting \in BOOLEAN
      /\ waiting => pc \in StepNames
  BY Constants DEF LegacyType, TypeOK, Channels, Progress
<1>4. CASE StartRun
  BY <1>1, <1>4 DEF StartRun, LateInv, OpeningInv, ClosingInv
<1>5. ASSUME Fail PROVE LateInv'
  BY <1>1, <1>5 DEF Fail, LateInv, OpeningInv, ClosingInv
<1>6. CASE Timeout /\ ~Fail
  <2>1. /\ pc = "transfer" /\ waiting' = FALSE
        /\ UNCHANGED <<pc, sent, runs, requests, responses>>
    BY <1>6 DEF Timeout
  <2>2. \A w : OnStage(w)' = OnStage(w) /\ Mine(w)' = Mine(w)
    BY <1>2, <2>1 DEF OnStage, Stage, Mine
  <2>3. Behind \/ Ahead
    BY <2>1 DEF LateInv
  <2>4. Behind' \/ Ahead'
    BY <2>1, <2>2, <2>3 DEF Behind, Ahead
  <2> QED BY <1>1, <2>1, <2>4 DEF LateInv, OpeningInv, ClosingInv
<1>7. CASE SendRequest
  <2>1. /\ waiting' = TRUE /\ pc \in StepNames /\ responses' = <<>>
        /\ requests' = Append(requests, Request(pc)) /\ Request(pc).sid = pc
        /\ UNCHANGED <<pc, sent, runs>>
    BY <1>7 DEF SendRequest, Request
  <2>2. \A x : ~Answered(x)'
    BY <2>1 DEF Answered
  <2>3. \A w : OnStage(w)' = OnStage(w) /\ Mine(w)' = Mine(w)
    BY <1>2, <2>1 DEF OnStage, Stage, Mine
  <2>4. /\ Len(requests') = Len(requests) + 1
        /\ \A i \in 1 .. Len(requests) : requests'[i] = requests[i]
        /\ requests'[Len(requests) + 1] = Request(pc)
    BY <1>3, <2>1, RequestType, AppendProperties DEF LegacyType
  <2>5. \A i \in 1 .. Len(requests') : i \in 1 .. Len(requests) \/ i = Len(requests) + 1
    BY <1>3, <2>4
  <2>6. OpeningInv'
    BY <2>1, <2>2, <2>3, <2>4, <2>5 DEF LateInv, OpeningInv, Opening
  <2>7. pc = "transfer" => Behind' \/ Ahead'
    <3> SUFFICES ASSUME pc = "transfer" PROVE Behind' \/ Ahead'
      OBVIOUS
    <3>1. Request(pc) = Mine(sent + 1)
      BY DEF Request, Mine
    <3>2. CASE Ahead
      BY <2>1, <2>3, <2>4, <2>5, <3>1, <3>2 DEF Ahead
    <3>3. CASE Behind
      <4>1. OnStage(sent)' /\ ~Answered(Positive("transfer", Counter(sent + 1)))'
        BY <1>2, <2>1, <2>2, <3>3 DEF Behind, OnStage, Stage
      <4>2. \A i \in 1 .. Len(requests') :
              \/ requests'[i] = Mine(sent + 1)
              \/ IF sent = 0 THEN Opening(requests'[i]) ELSE requests'[i] = Mine(sent)
        BY <2>4, <2>5, <3>1, <3>3 DEF Behind
      <4>3. ASSUME NEW i \in 1 .. Len(requests'), NEW j \in 1 .. Len(requests'),
                   i < j, requests'[i] = Mine(sent + 1)
            PROVE  requests'[j] = Mine(sent + 1)
        <5>1. CASE j = Len(requests) + 1
          BY <2>4, <3>1, <5>1
        <5>2. CASE j # Len(requests) + 1
          <6>1. i \in 1 .. Len(requests) /\ j \in 1 .. Len(requests)
            BY <1>3, <2>4, <2>5, <4>3, <5>2
          <6> QED BY <2>4, <3>3, <4>3, <6>1 DEF Behind
        <5> QED BY <5>1, <5>2
      <4> HIDE DEF Mine
      <4> QED BY <2>1, <2>3, <4>1, <4>2, <4>3 DEF Behind
    <3> QED BY <3>2, <3>3 DEF LateInv
  <2>8. ClosingInv'
    <3> SUFFICES ASSUME pc \in {"exit", "confirm", "reset", "done"} PROVE ClosingInv'
      BY <2>1 DEF ClosingInv
    <3>1. Inert(Request(pc)) /\ pc # "done"
      BY <2>1, StepNamesAre DEF Inert, Request
    <3>2. \A i \in 1 .. Len(requests') : Inert(requests'[i])
      BY <2>4, <2>5, <3>1 DEF LateInv, ClosingInv
    <3>3. \A i \in 1 .. Len(requests') : Inert(requests[i])' = Inert(requests'[i])
      BY <1>2 DEF Inert
    <3> QED BY <1>2, <2>1, <2>2, <3>1, <3>2, <3>3 DEF LateInv, ClosingInv
  <2> QED BY <1>1, <2>1, <2>6, <2>7, <2>8 DEF LateInv
<1>8. CASE Receive
  <2>1. waiting /\ responses # <<>> /\ UNCHANGED <<runs, requests>>
        /\ responses' = Tail(responses)
    BY <1>8 DEF Receive
  <2>2. Answered(Head(responses))
    BY <1>3, <2>1 DEF Answered
  <2>3. \A w : OnStage(w)' = OnStage(w) /\ Mine(w)' = Mine(w)
    BY <1>2, <2>1 DEF OnStage, Stage, Mine
  <2>4. \A x : Answered(x)' => Answered(x)
    BY <1>3, <2>1, HeadTailProperties DEF Answered
  <2>5. CASE UNCHANGED <<pc, waiting, sent, retries>>
    BY <1>1, <1>2, <2>1, <2>3, <2>4, <2>5
       DEF LateInv, OpeningInv, Behind, Ahead, ClosingInv, Inert
  <2>6. CASE Accept /\ Head(responses) = Positive(pc, Request(pc).block)
    <3>0. Answered(Positive(pc, Request(pc).block)) /\ waiting' = FALSE
      BY <2>2, <2>6 DEF Accept
    <3>1. CASE pc \in {"session", "erase", "download"}
      <4>1. /\ sent' = sent /\ sent = 0 /\ pc' = NextStep(pc)
            /\ Answered(Positive(pc, 0))
        BY <2>6, <3>0, <3>1 DEF Accept, Request, LegacyType, Progress
      <4>2. CASE pc = "session"
        BY <1>1, <3>0, <4>1, <4>2, NextStepIs DEF LateInv, OpeningInv, ClosingInv
      <4>3. CASE pc # "session"
        <5>1. OnStage(0) /\ \A i \in 1 .. Len(requests) : Opening(requests[i])
          BY <2>1, <3>1, <4>1, <4>3 DEF LateInv, OpeningInv
        <5>2. OnStage(0)' /\ \A i \in 1 .. Len(requests') : Opening(requests[i])'
          BY <2>1, <2>3, <5>1 DEF Opening
        <5>3. CASE pc = "erase"
          BY <1>1, <4>1, <5>2, <5>3, NextStepIs DEF LateInv, OpeningInv, ClosingInv
        <5>4. CASE pc = "download"
          <6>1. pc' = "transfer" /\ sent' = 0
            BY <4>1, <5>4, NextStepIs
          <6>2. ASSUME NEW i \in 1 .. Len(requests') PROVE requests'[i] # Mine(1)'
            BY <5>2 DEF Opening, Mine
          <6>3. Behind'
            BY <3>0, <5>2, <6>1, <6>2 DEF Behind
          <6> QED BY <1>1, <6>1, <6>3 DEF LateInv, OpeningInv, ClosingInv
        <5> QED BY <3>1, <4>3, <5>3, <5>4
      <4> QED BY <4>2, <4>3
    <3>2. CASE pc = "transfer"
      <4>1. /\ sent' = sent + 1 /\ sent < N
            /\ pc' = IF sent + 1 < N THEN "transfer" ELSE "exit"
        BY <2>6, <3>2, NextStepIs DEF Accept, LegacyType, Progress
      <4>2. Ahead
        <5>1. Answered(Positive("transfer", Counter(sent + 1)))
          BY <3>0, <3>2 DEF Request
        <5> QED BY <2>1, <3>2, <5>1 DEF LateInv, Behind
      <4>3. /\ \/ failed'
               \/ /\ ready' /\ stream' = SubSeq(Image(runs), 1, sent + 1)
                  /\ blockId' = Counter(sent + 1)
            /\ \A i \in 1 .. Len(requests') : requests'[i] = Mine(sent + 1)
        BY <1>2, <1>3, <2>1, <4>2 DEF Ahead, OnStage, Stage, BlockIdAfter
      <4>6. Image(runs') = Image(runs)' /\ runs' = runs
        BY <2>1 DEF Image
      <4>4. CASE sent + 1 < N
        <5>1. /\ sent' \in Nat /\ sent' # 0
          BY <1>3, <4>1
        <5>2. OnStage(sent)' /\ \A i \in 1 .. Len(requests') : requests'[i] = Mine(sent)'
          <6>1. Mine(sent)' = Mine(sent + 1)
            BY <4>1, <4>6 DEF Mine, Counter
          <6>2. OnStage(sent)'
            BY <4>1, <4>3, <4>6, <5>1 DEF OnStage, Stage, BlockIdAfter, Counter
          <6> QED BY <4>3, <6>1, <6>2
        <5>3. Mine(sent + 1)' # Mine(sent)'
          BY <5>1 DEF Mine
        <5>4. Behind'
          <6> HIDE DEF Mine
          <6> QED BY <3>0, <5>1, <5>2, <5>3 DEF Behind
        <5> QED BY <1>1, <4>1, <4>4, <5>4 DEF LateInv, OpeningInv, ClosingInv
      <4>5. CASE sent + 1 = N
        <5>1. failed' \/ (stream' = Image(runs)' /\ blockId' = Counter(N))
          BY <4>3, <4>5, <4>6, WholePrefix
        <5>2. \A i \in 1 .. Len(requests') : Inert(requests[i])'
          BY <4>3, <4>5, <5>1 DEF Mine, Inert
        <5>3. pc' = "exit"
          BY <4>1, <4>5, Constants
        <5>4. ClosingInv'
          BY <3>0, <5>1, <5>2, <5>3 DEF ClosingInv
        <5> QED BY <1>1, <5>3, <5>4 DEF LateInv, OpeningInv
      <4> QED BY <1>3, <4>1, <4>4, <4>5, Constants
    <3>3. CASE pc \in {"exit", "confirm", "reset"}
      <4>1. pc' = NextStep(pc) /\ Answered(Positive(pc, 0))
        BY <2>6, <3>0, <3>3 DEF Accept, Request
      <4>2. /\ failed \/ (flushed /\ stream = Image(runs))
            /\ \A i \in 1 .. Len(requests) : Inert(requests[i])
        BY <2>1, <3>3, <4>1 DEF LateInv, ClosingInv
      <4>3. pc' \in {"confirm", "reset", "done"}
        BY <3>3, <4>1, NextStepIs
      <4>4. /\ failed' \/ (flushed' /\ stream' = Image(runs'))
            /\ \A i \in 1 .. Len(requests') : Inert(requests[i])'
        BY <1>2, <2>1, <4>2 DEF Inert
      <4>5. Image(runs') = Image(runs)'
        BY DEF Image
      <4> QED BY <1>1, <4>3, <4>4, <4>5 DEF LateInv, OpeningInv, ClosingInv
    <3> QED BY <1>3, <2>1, <3>1, <3>2, <3>3, StepNamesAre
  <2> QED BY <1>5, <1>8, <2>5, <2>6 DEF Receive
<1> QED BY <1>4, <1>5, <1>6, <1>7, <1>8

(* What the answers to the opening requests are not.                       *)
LEMMA AnswersDiffer ==
  ASSUME NEW sid, NEW sid2, NEW a, NEW b
  PROVE  /\ Positive(sid, a) = Positive(sid2, b) => sid = sid2 /\ a = b
         /\ Negative(sid) # Positive(sid2, b) /\ Pending(sid) # Positive(sid2, b)
         /\ Negative(sid) # Pending(sid2)
  BY DEF Positive, Negative, Pending

(* The server answers a request.                                           *)
LEMMA LateServe ==
  ASSUME LegacyType, LateInv, ServeRequest, ShortQueue
  PROVE  LateInv'
<1> DEFINE request == Head(requests)
           n == Len(requests)
<1>1. requests # <<>> /\ UNCHANGED client /\ UNCHANGED <<pc, waiting, sent, retries, runs>>
  BY DEF ServeRequest, client
<1>2. /\ n \in Nat /\ n > 0 /\ request = requests[1] /\ 1 \in 1 .. n
      /\ Len(Tail(requests)) = n - 1
      /\ \A i \in 1 .. (n - 1) :
           i + 1 \in 1 .. n /\ Tail(requests)[i] = requests[i + 1]
  BY <1>1, Leaving DEF LegacyType
<1>3. /\ request \in Messages /\ request.sid \in StepNames
      /\ request.block \in 0 .. (Mod - 1)
  BY <1>1, HeadTailProperties DEF LegacyType, Channels, Messages
<1>4. requests' = IF request.sid = "reset" THEN <<>> ELSE Tail(requests)
  BY DEF ServeRequest
<1>5. QueueInv'
  <2>1. CASE request.sid = "reset"
    <3>1. requests' = <<>> /\ Len(requests') = 0
      BY <1>4, <2>1
    <3> QED BY <3>1, Constants DEF QueueInv
  <2>2. CASE request.sid # "reset"
    BY <1>1, <1>4, <2>2, QueueShrinks DEF LegacyType, LateInv
  <2> QED BY <2>1, <2>2
<1>6. \A i \in 1 .. Len(requests') : i \in 1 .. (n - 1) /\ requests'[i] = requests[i + 1]
  BY <1>2, <1>4
<1>7. responses \in Seq(Answers)
  BY DEF LegacyType, Channels
<1>8. ASSUME NEW a \in Answers, Answer(<<a>>)
      PROVE  \A x : Answered(x)' => x = a \/ Answered(x)
  BY <1>7, <1>8, Answering DEF Answer, Answered
<1>9. ASSUME NEW a \in Answers, NEW b \in Answers, Answer(<<a, b>>)
      PROVE  \A x : Answered(x)' => x = a \/ x = b \/ Answered(x)
  BY <1>7, <1>9, Answering DEF Answer, Answered
<1>10. \A sid \in StepNames, block \in 0 .. (Mod - 1) :
         /\ Positive(sid, block) \in Answers /\ Positive(sid, 0) \in Answers
         /\ Negative(sid) \in Answers /\ Pending(sid) \in Answers
  BY AnswerTypes
<1>11. 0 \in 0 .. (Mod - 1) /\ blockId \in 0 .. (Mod - 1) /\ sent \in Nat
  BY Constants DEF LegacyType, TypeOK
(* The three opening requests leave the flash context fresh, if it was.    *)
<1>12. ASSUME Opening(request)
       PROVE  /\ \A x : Answered(x)' =>
                   x = Positive(request.sid, 0) \/ x = Pending(request.sid) \/ Answered(x)
              /\ OnStage(0) \/ request.sid = "erase" => OnStage(0)'
  <2>1. CASE request.sid = "session"
    BY <1>1, <1>3, <1>8, <1>10, <2>1 DEF ServeRequest, ChangeSession, OnStage, Stage
  <2>2. CASE request.sid = "erase"
    <3>1. EraseRoutine
      BY <2>2 DEF ServeRequest
    <3>2. failed' \/ (ready' = TRUE /\ blockId' = Mod - 1 /\ stream' = <<>>)
      BY <3>1 DEF EraseRoutine
    <3>3. OnStage(0)'
      BY <3>2, WholePrefix DEF OnStage, Stage, BlockIdAfter
    <3>4. Answer(<<Pending("erase"), Positive("erase", 0)>>)
      BY <3>1 DEF EraseRoutine
    <3> QED BY <1>3, <1>9, <1>10, <1>11, <2>2, <3>3, <3>4
  <2>3. CASE request.sid = "download"
    BY <1>1, <1>3, <1>8, <1>10, <2>3 DEF ServeRequest, RequestDownload, OnStage, Stage, server
  <2> QED BY <1>12, <2>1, <2>2, <2>3 DEF Opening
(* A block that was received before changes nothing.                       *)
<1>13. ASSUME request.sid = "transfer", request.block = blockId
       PROVE  /\ \A x : Answered(x)' => x = Positive("transfer", blockId) \/ Answered(x)
              /\ UNCHANGED <<ready, blockId, stream, flushed, failed>>
  BY <1>3, <1>8, <1>10, <1>13 DEF ServeRequest, TransferData
(* Only for the block that was asked for is there a positive answer.       *)
<1>17. ASSUME request.sid = "transfer"
       PROVE  /\ \A x : Answered(x)' => \/ x = Positive("transfer", request.block)
                                        \/ x = Negative("transfer") \/ Answered(x)
              /\ failed => failed'
  <2>1. TransferData(request)
    BY <1>17 DEF ServeRequest
  <2>2. /\ failed => failed'
        /\ \/ Answer(<<Positive("transfer", request.block)>>)
           \/ Answer(<<Negative("transfer")>>)
           \/ Answer(<<Negative("transfer"), Positive("transfer", request.block)>>)
    BY <2>1 DEF TransferData
  <2> QED BY <1>3, <1>8, <1>9, <1>10, <1>17, <2>2
<1>14. OpeningInv'
  <2> SUFFICES ASSUME pc = "download" \/ (pc = "erase" /\ waiting /\ Answered(Positive("erase", 0))')
               PROVE  OnStage(0)' /\ \A i \in 1 .. Len(requests') : Opening(requests'[i])
    BY <1>1 DEF OpeningInv, Opening
  <2>1. CASE pc = "download" \/ Answered(Positive("erase", 0))
    BY <1>2, <1>6, <1>12, <2>1 DEF LateInv, OpeningInv
  <2>2. CASE pc = "erase" /\ waiting /\ ~Answered(Positive("erase", 0))
    <3>1. request.sid = "erase"
      <4>1. Answered(Positive("erase", 0))' /\ ~Answered(Positive("erase", 0))
        BY <2>2
      <4>2. \/ Answer(<<Positive(request.sid, 0)>>) \/ Answer(<<Negative(request.sid)>>)
            \/ Answer(<<Negative(request.sid), Positive(request.sid, 0)>>)
            \/ request.sid \in {"transfer", "erase"}
        BY DEF ServeRequest, ChangeSession, RequestDownload, TransferExit, ConfirmRoutine,
               EcuReset
      <4>3. request.sid # "transfer"
        BY <1>17, <4>1, AnswersDiffer
      <4> QED BY <1>3, <1>8, <1>9, <1>10, <1>11, <4>1, <4>2, <4>3, AnswersDiffer
    <3>2. n <= 4
      BY <1>2, Constants DEF ShortQueue, LateInv, QueueInv
    <3>3. /\ n > 1 => requests[2].sid \in {"download", "session"}
          /\ requests[n].sid = "erase"
          /\ n > 1 => requests[n - 1].sid = "session"
      <4>1. n > 1 => 1 \in 1 .. (n - 1)
        BY <1>2
      <4> QED BY <1>1, <1>2, <2>2, <3>1, <4>1 DEF LateInv, QueueInv
    <3>4. ASSUME NEW i \in 1 .. Len(requests') PROVE Opening(requests'[i])
      <4>1. i \in 1 .. (n - 1) /\ requests'[i] = requests[i + 1]
        BY <1>6
      <4>2. i + 1 = 2 \/ i + 1 = n - 1 \/ i + 1 = n
        BY <1>2, <3>2, <4>1
      <4> QED BY <1>2, <3>3, <4>1, <4>2 DEF Opening
    <3>5. OnStage(0)'
      BY <1>12, <3>1 DEF Opening
    <3> QED BY <3>4, <3>5
  <2> QED BY <2>1, <2>2
<1>15. ASSUME pc = "transfer" PROVE Behind' \/ Ahead'
  <2>0. sent < N /\ sent + 1 \in Nat /\ sent + 1 > 0 /\ N \in Nat
    BY <1>11, <1>15, Constants DEF LegacyType, Progress
  <2>1. \A w : Mine(w)' = Mine(w)
    BY <1>1 DEF Mine
  <2>2. CASE Ahead
    <3>1. request = Mine(sent + 1) /\ OnStage(sent + 1)
      BY <1>2, <2>2 DEF Ahead
    <3>2. request.sid = "transfer" /\ (failed \/ request.block = blockId)
      BY <2>0, <3>1 DEF Mine, OnStage, Stage, BlockIdAfter
    <3>3. OnStage(sent + 1)'
      BY <1>1, <1>13, <1>17, <3>1, <3>2 DEF OnStage, Stage
    <3>4. \A i \in 1 .. Len(requests') : requests'[i] = Mine(sent + 1)'
      BY <1>1, <1>2, <1>6, <2>2 DEF Ahead, Mine
    <3> QED BY <3>3, <3>4 DEF Ahead
  <2>3. CASE Behind /\ request = Mine(sent + 1)
    <3>1. /\ request.sid = "transfer" /\ request.block = Counter(sent + 1)
          /\ request.data = <<runs, sent + 1>>
      BY <2>3 DEF Mine
    <3>6. OnStage(sent + 1)'
      <4> SUFFICES ASSUME ~failed, ~failed' PROVE Stage(sent + 1)'
        BY <1>17, <3>1 DEF OnStage
      <4>1. /\ ready /\ stream = SubSeq(Image(runs), 1, sent)
            /\ blockId = BlockIdAfter(sent)
        BY <2>3 DEF Behind, OnStage, Stage
      <4>2. blockId # Counter(sent + 1) /\ (blockId + 1) % Mod = Counter(sent + 1)
        BY <1>11, <4>1, BlockIdAdvances
      <4>3. stream' = Append(stream, request.data) /\ blockId' = Counter(sent + 1) /\ ready'
        BY <3>1, <4>1, <4>2 DEF ServeRequest, TransferData, Write
      <4>4. Append(stream, request.data) = SubSeq(Image(runs), 1, sent + 1)
        <5>1. sent \in 0 .. (N - 1)
          BY <1>11, <2>0
        <5> QED BY <3>1, <4>1, <5>1, PrefixGrows
      <4>5. Image(runs)' = Image(runs) /\ BlockIdAfter(sent + 1)' = Counter(sent + 1)
        BY <1>1, <2>0 DEF Image, BlockIdAfter, Counter
      <4> QED BY <1>1, <4>3, <4>4, <4>5 DEF Stage
    <3>7. \A i \in 1 .. Len(requests') : requests'[i] = Mine(sent + 1)
      <4> TAKE i \in 1 .. Len(requests')
      <4>1. i + 1 \in 1 .. n /\ 1 < i + 1 /\ requests'[i] = requests[i + 1]
        BY <1>2, <1>6
      <4> QED BY <1>2, <2>3, <4>1 DEF Behind
    <3>8. Mine(sent + 1)' = Mine(sent + 1)
      BY <1>1 DEF Mine
    <3> QED BY <3>6, <3>7, <3>8 DEF Ahead
  <2>4. CASE Behind /\ request # Mine(sent + 1)
    <3>1. IF sent = 0 THEN Opening(request) ELSE request = Mine(sent)
      BY <1>2, <2>4 DEF Behind
    <3>2. OnStage(sent)' /\ ~(waiting /\ Answered(Positive("transfer", Counter(sent + 1)))')
      <4>1. OnStage(sent) /\ ~(waiting /\ Answered(Positive("transfer", Counter(sent + 1))))
        BY <2>4 DEF Behind
      <4>2. CASE sent = 0
        <5>1. request.sid # "transfer" /\ OnStage(0)'
          BY <1>12, <3>1, <4>1, <4>2 DEF Opening
        <5>2. OnStage(sent)' = OnStage(0)'
          BY <1>1, <4>2 DEF OnStage, Stage
        <5>3. Positive("transfer", Counter(sent + 1)) # Positive(request.sid, 0)
          BY <5>1, AnswersDiffer
        <5>4. Positive("transfer", Counter(sent + 1)) # Pending(request.sid)
          BY AnswersDiffer
        <5>5. Counter(sent + 1)' = Counter(sent + 1)
          BY <1>1 DEF Counter
        <5>6. Positive("transfer", Counter(sent + 1))' = Positive("transfer", Counter(sent + 1))
          BY <5>5 DEF Positive
        <5>7. Answered(Positive("transfer", Counter(sent + 1)))' =>
                Answered(Positive("transfer", Counter(sent + 1)))
          BY <1>12, <3>1, <4>2, <5>3, <5>4, <5>6 DEF Answered
        <5> QED BY <4>1, <5>1, <5>2, <5>7
      <4>3. CASE sent # 0
        <5>1. /\ request.sid = "transfer" /\ request.block = Counter(sent)
              /\ failed \/ blockId = Counter(sent)
          BY <3>1, <4>1, <4>3 DEF Mine, OnStage, Stage, BlockIdAfter
        <5>2. OnStage(sent)'
          BY <1>1, <1>13, <1>17, <4>1, <5>1 DEF OnStage, Stage
        <5>3. /\ Positive("transfer", Counter(sent + 1)) # Positive("transfer", request.block)
              /\ Positive("transfer", Counter(sent + 1)) # Negative("transfer")
          BY <1>11, <4>3, <5>1, AnswersDiffer, CounterNext
        <5>4. Counter(sent + 1)' = Counter(sent + 1)
          BY <1>1 DEF Counter
        <5>5. Positive("transfer", Counter(sent + 1))' = Positive("transfer", Counter(sent + 1))
          BY <5>4 DEF Positive
        <5>6. Answered(Positive("transfer", Counter(sent + 1)))' =>
                Answered(Positive("transfer", Counter(sent + 1)))
          BY <1>17, <5>1, <5>3, <5>5 DEF Answered
        <5> QED BY <4>1, <5>2, <5>6
      <4> QED BY <4>2, <4>3
    <3>3. ASSUME NEW i \in 1 .. Len(requests')
          PROVE  \/ requests'[i] = Mine(sent + 1)
                 \/ IF sent = 0 THEN Opening(requests'[i]) ELSE requests'[i] = Mine(sent)
      BY <1>2, <1>6, <2>4 DEF Behind
    <3>4. ASSUME NEW i \in 1 .. Len(requests'), NEW j \in 1 .. Len(requests'),
                 i < j, requests'[i] = Mine(sent + 1)
          PROVE  requests'[j] = Mine(sent + 1)
      <4>1. i + 1 \in 1 .. n /\ j + 1 \in 1 .. n /\ i + 1 < j + 1
        BY <1>2, <1>6, <3>4
      <4> QED BY <1>6, <2>4, <3>4, <4>1 DEF Behind
    <3>5. Mine(sent)' = Mine(sent) /\ Mine(sent + 1)' = Mine(sent + 1)
      BY <1>1 DEF Mine
    <3> HIDE DEF Mine, OnStage
    <3> QED BY <1>1, <3>2, <3>3, <3>4, <3>5 DEF Behind, Opening
  <2> QED BY <1>15, <2>2, <2>3, <2>4 DEF LateInv
<1>16. ClosingInv'
  <2> SUFFICES ASSUME pc \in {"exit", "confirm", "reset", "done"} PROVE ClosingInv'
    BY <1>1 DEF ClosingInv
  <2>1. /\ Inert(request) /\ (failed \/ stream = Image(runs))
        /\ failed \/ flushed \/ (pc = "exit" /\ ~(waiting /\ Answered(Positive("exit", 0))))
        /\ \A i \in 1 .. n : Inert(requests[i])
    BY <1>2 DEF LateInv, ClosingInv
  <2>2. failed => failed'
    BY <1>17, <2>1 DEF Inert, ServeRequest, TransferExit, ConfirmRoutine, EcuReset, server
  <2>3. ~failed => /\ stream' = stream
                   /\ request.sid # "reset" => blockId' = blockId
    BY <1>13, <2>1 DEF Inert, ServeRequest, TransferExit, ConfirmRoutine, EcuReset, server
  <2>4. \A i \in 1 .. Len(requests') : Inert(requests[i])'
    <3>1. CASE request.sid = "reset"
      BY <1>4, <3>1
    <3>2. CASE request.sid # "reset"
      BY <1>2, <1>6, <2>1, <2>2, <2>3, <3>2 DEF Inert
    <3> QED BY <3>1, <3>2
  <2>5. failed' \/ flushed' \/ (pc = "exit" /\ ~(waiting /\ Answered(Positive("exit", 0))'))
    <3> SUFFICES ASSUME ~failed, ~failed'
                 PROVE  flushed' \/ (pc = "exit" /\ ~(waiting /\ Answered(Positive("exit", 0))'))
      BY <2>2
    <3>1. CASE request.sid = "transfer"
      BY <1>13, <2>1, <3>1, AnswersDiffer DEF Inert
    <3>2. CASE request.sid = "exit"
      <4>1. flushed' = TRUE \/ (flushed' = flushed /\ Answer(<<Negative("exit")>>))
        BY <3>2 DEF ServeRequest, TransferExit
      <4> QED BY <1>3, <1>8, <1>10, <1>11, <2>1, <3>2, <4>1, AnswersDiffer
    <3>3. CASE request.sid = "confirm"
      <4>1. flushed' = flushed /\ Answer(<<Positive("confirm", 0)>>)
        BY <3>3 DEF ServeRequest, ConfirmRoutine, server
      <4> QED BY <1>3, <1>8, <1>10, <1>11, <2>1, <3>3, <4>1, AnswersDiffer
    <3>4. CASE request.sid = "reset"
      <4>1. flushed' = flushed /\ Answer(<<Positive("reset", 0)>>)
        BY <3>4 DEF ServeRequest, EcuReset
      <4> QED BY <1>3, <1>8, <1>10, <1>11, <2>1, <3>4, <4>1, AnswersDiffer
    <3> QED BY <2>1, <3>1, <3>2, <3>3, <3>4 DEF Inert
  <2> QED BY <1>1, <2>1, <2>2, <2>3, <2>4, <2>5 DEF ClosingInv, Image
<1> QED BY <1>1, <1>5, <1>14, <1>15, <1>16 DEF LateInv
-----------------------------------------------------------------------------
(* Nothing is lost or late, and only one kind of flash call fails: the     *)
(* server has one request at a time, the client's, and hears of a failure. *)

Served == waiting /\ requests = <<>>

(* The next answer makes the client give up.                               *)
Doomed == Served /\ responses # <<>> /\ Head(responses).kind = "negative"

(* The answers that take the client further.                               *)
Welcome ==
  LET positive == Positive(pc, Request(pc).block)
  IN  {<<Pending(pc), positive>>, <<positive>>}

InitFails == "init" \in faults

OneRequest ==
  requests # <<>> => waiting /\ requests = <<Request(pc)>> /\ responses = <<>>

(* After a flash_img_init that failed there is no flash context, and       *)
(* handle_transfer_exit will say so.                                       *)
SyncProgress ==
  /\ (pc = "erase" /\ Served) \/ pc = "download" => Stage(0) \/ (InitFails /\ ~ready)
  /\ pc = "transfer" =>
       \/ Stage(IF Served THEN sent + 1 ELSE sent)
       \/ InitFails /\ ~ready
       \/ ~InitFails /\ Doomed /\ stream = SubSeq(Image(runs), 1, sent)
  /\ pc = "exit" =>
       \/ stream = Image(runs) /\ (Served => Doomed \/ flushed)
       \/ InitFails /\ ~ready /\ (Served => Doomed)
  /\ pc \in {"confirm", "reset", "done"} => stream = Image(runs) /\ flushed

(* A run that has a flash context ends well, so that none is left over for *)
(* the next one.                                                           *)
ContextOwned ==
  InitFails /\ ready =>
    /\ pc \in {"erase", "download", "transfer", "exit"}
    /\ pc = "erase" => Served
    /\ pc = "exit" => ~Served
    /\ Served => responses \in Welcome

SyncInv == OneRequest /\ SyncProgress /\ ContextOwned

LEMMA SyncServe ==
  ASSUME LegacyType, SyncInv, ServeRequest, faults' = faults,
         ~("init" \in faults /\ "write" \in faults)
  PROVE  SyncInv'
<1> DEFINE request == Request(pc)
<1>1. /\ requests # <<>> /\ UNCHANGED <<pc, waiting, sent, retries, runs>>
      /\ waiting /\ requests = <<request>> /\ responses = <<>> /\ Head(requests) = request
  BY DEF ServeRequest, client, SyncInv, OneRequest
<1>2. pc \in StepNames /\ request.sid = pc
  BY <1>1 DEF LegacyType, Progress, Request
<1>3. requests' = <<>>
  BY <1>1 DEF ServeRequest
<1>4. ~Served /\ ~Doomed /\ Served'
  BY <1>1, <1>3 DEF Served, Doomed
<1>5. Stage(sent)' = (ready' /\ stream' = SubSeq(Image(runs), 1, sent) /\ blockId' = BlockIdAfter(sent))
      /\ Request(pc)' = Request(pc) /\ Image(runs)' = Image(runs) /\ Welcome' = Welcome
      /\ InitFails' = InitFails
  BY <1>1 DEF Stage, Request, Image, BlockIdAfter, Counter, Welcome, Positive, Pending, InitFails
<1>6. \A a, b \in Answers :
        /\ Answer(<<a>>) => responses' = <<a>>
        /\ Answer(<<a, b>>) => responses' = <<a, b>>
  <2> TAKE a, b \in Answers
  <2>1. <<a>> \in Seq(Answers) /\ <<a, b>> \in Seq(Answers)
    OBVIOUS
  <2>2. <<>> \o <<a>> = <<a>> /\ <<>> \o <<a, b>> = <<a, b>>
    BY <2>1, ConcatEmptySeq
  <2> QED BY <1>1, <2>2 DEF Answer
<1>7. ASSUME NEW sid \in StepNames, NEW block \in 0 .. (Mod - 1)
      PROVE  /\ Answer(<<Positive(sid, block)>>) => responses' = <<Positive(sid, block)>>
             /\ Answer(<<Pending(sid), Positive(sid, block)>>)
                  => responses' = <<Pending(sid), Positive(sid, block)>>
             /\ Answer(<<Negative(sid)>>) \/ Answer(<<Negative(sid), Positive(sid, block)>>)
                  => Doomed'
  <2>1. /\ Positive(sid, block) \in Answers /\ Negative(sid) \in Answers
        /\ Pending(sid) \in Answers
    BY AnswerTypes
  <2>2. Answer(<<Negative(sid)>>) \/ Answer(<<Negative(sid), Positive(sid, block)>>)
          => responses' # <<>> /\ Head(responses') = Negative(sid)
    BY <1>6, <2>1
  <2>3. Negative(sid).kind = "negative"
    BY DEF Negative
  <2>4. Answer(<<Negative(sid)>>) \/ Answer(<<Negative(sid), Positive(sid, block)>>)
          => Doomed'
    BY <1>4, <2>2, <2>3 DEF Doomed
  <2> QED BY <1>6, <2>1, <2>4
<1>8. OneRequest'
  BY <1>3 DEF OneRequest
<1>9. 0 \in 0 .. (Mod - 1)
  BY Constants
<1>10. CASE pc = "session"
  <2>1. UNCHANGED <<ready, blockId, stream, flushed>>
    BY <1>1, <1>2, <1>10 DEF ServeRequest, ChangeSession
  <2> QED BY <1>1, <1>5, <1>8, <1>10, <2>1 DEF SyncInv, SyncProgress, ContextOwned
<1>11. CASE pc = "erase"
  <2>1. EraseRoutine /\ request.block = 0
    BY <1>1, <1>2, <1>11 DEF ServeRequest, Request
  <2>2. responses' \in Welcome'
    BY <1>2, <1>5, <1>7, <1>9, <1>11, <2>1 DEF EraseRoutine, Welcome
  <2>3. InitFails => ~ready
    BY <1>4, <1>11 DEF SyncInv, ContextOwned
  <2>4. Stage(0)' \/ (InitFails' /\ ~ready')
    <3>1. CASE ready' = TRUE /\ blockId' = Mod - 1 /\ stream' = <<>>
      BY <3>1, WholePrefix DEF Stage, BlockIdAfter
    <3>2. CASE "init" \in faults /\ ready' = ready
      BY <1>5, <2>3, <3>2 DEF InitFails
    <3> QED BY <2>1, <3>1, <3>2 DEF EraseRoutine
  <2>5. SyncProgress'
    BY <1>1, <1>11, <2>4 DEF SyncProgress
  <2>6. ContextOwned'
    BY <1>1, <1>4, <1>11, <2>2 DEF ContextOwned
  <2> QED BY <1>8, <2>5, <2>6 DEF SyncInv
<1>12. CASE pc = "download"
  <2>1. RequestDownload /\ request.block = 0
    BY <1>1, <1>2, <1>12 DEF ServeRequest, Request
  <2>2. UNCHANGED <<ready, blockId, stream, flushed>> /\ responses' \in Welcome'
    BY <1>2, <1>5, <1>7, <1>9, <1>12, <2>1 DEF RequestDownload, server, Welcome
  <2>3. Stage(0) \/ (InitFails /\ ~ready)
    BY <1>12 DEF SyncInv, SyncProgress
  <2>4. Stage(0)' \/ (InitFails' /\ ~ready')
    BY <1>1, <1>5, <2>2, <2>3 DEF Stage
  <2>5. SyncProgress'
    BY <1>1, <1>12, <2>4 DEF SyncProgress
  <2>6. ContextOwned'
    BY <1>1, <1>12, <2>2 DEF ContextOwned
  <2> QED BY <1>8, <2>5, <2>6 DEF SyncInv
<1>13. CASE pc = "transfer"
  <2>1. /\ TransferData(request) /\ request.block = Counter(sent + 1)
        /\ request.data = <<runs, sent + 1>>
    BY <1>1, <1>2, <1>13 DEF ServeRequest, Request
  <2>2. sent \in 0 .. (N - 1) /\ sent \in Nat /\ sent + 1 \in Nat /\ sent + 1 > 0
    BY <1>13, Constants DEF LegacyType, TypeOK, Progress
  <2>3. Counter(sent + 1) \in 0 .. (Mod - 1)
    BY <2>2, CounterNext
  <2>4. CASE InitFails /\ ~ready
    <3>1. ready' = ready
      BY <2>1 DEF TransferData
    <3> QED BY <1>1, <1>5, <1>8, <1>13, <2>4, <3>1 DEF SyncInv, SyncProgress, ContextOwned
  <2>5. CASE Stage(sent)
    <3>1. /\ ready /\ stream = SubSeq(Image(runs), 1, sent)
          /\ blockId # Counter(sent + 1) /\ (blockId + 1) % Mod = Counter(sent + 1)
      BY <2>2, <2>5, BlockIdAdvances DEF Stage
    <3>2. ready' = ready
      BY <2>1 DEF TransferData
    <3>3. CASE Write(request.data) /\ Answer(<<Positive("transfer", blockId')>>)
      <4>1. blockId' = Counter(sent + 1)
        BY <2>1, <3>1 DEF TransferData
      <4>2. responses' \in Welcome'
        BY <1>2, <1>5, <1>7, <1>13, <2>1, <2>3, <3>3, <4>1 DEF Welcome
      <4>3. stream' = SubSeq(Image(runs), 1, sent + 1)
        BY <2>1, <2>2, <3>1, <3>3, PrefixGrows DEF Write
      <4>4. Stage(sent + 1)'
        <5>1. BlockIdAfter(sent + 1)' = Counter(sent + 1)
          BY <1>1, <2>2 DEF BlockIdAfter, Counter
        <5> QED BY <1>1, <1>5, <3>1, <3>2, <4>1, <4>3, <5>1 DEF Stage
      <4>5. SyncProgress'
        BY <1>1, <1>4, <1>13, <4>4 DEF SyncProgress
      <4>6. ContextOwned'
        BY <1>1, <1>13, <4>2 DEF ContextOwned
      <4> QED BY <1>8, <4>5, <4>6 DEF SyncInv
    <3>4. CASE /\ "write" \in faults /\ stream' = stream
               /\ Answer(<<Negative("transfer"), Positive("transfer", blockId')>>)
      <4>1. blockId' = Counter(sent + 1)
        BY <2>1, <3>1 DEF TransferData
      <4>2. Doomed' /\ ~InitFails'
        BY <1>2, <1>5, <1>7, <1>13, <2>3, <3>4, <4>1 DEF InitFails
      <4>3. stream' = SubSeq(Image(runs), 1, sent)' /\ pc' = "transfer"
        BY <1>1, <1>5, <1>13, <3>1, <3>4
      <4> QED BY <1>8, <4>2, <4>3 DEF SyncInv, SyncProgress, ContextOwned
    <3> QED BY <2>1, <3>1, <3>3, <3>4 DEF TransferData
  <2> QED BY <1>4, <1>13, <2>4, <2>5 DEF SyncInv, SyncProgress
<1>14. CASE pc = "exit"
  <2>1. TransferExit
    BY <1>1, <1>2, <1>14 DEF ServeRequest
  <2>2. stream' = stream /\ ~ready'
    BY <2>1 DEF TransferExit
  <2>3. Doomed' \/ (ready /\ flushed')
    BY <1>2, <1>7, <1>9, <1>14, <2>1 DEF TransferExit
  <2>4. stream = Image(runs) \/ (InitFails /\ ~ready)
    BY <1>14 DEF SyncInv, SyncProgress
  <2>5. SyncProgress'
    BY <1>1, <1>5, <1>14, <2>2, <2>3, <2>4 DEF SyncProgress
  <2> QED BY <1>8, <2>2, <2>5 DEF SyncInv, ContextOwned
<1>15. CASE pc \in {"confirm", "reset"}
  <2>1. stream' = stream /\ flushed' = flushed /\ (ready' = ready \/ ready' = FALSE)
    BY <1>1, <1>2, <1>15 DEF ServeRequest, ConfirmRoutine, EcuReset, server
  <2> QED BY <1>1, <1>5, <1>8, <1>15, <2>1 DEF SyncInv, SyncProgress, ContextOwned
<1> QED BY <1>2, <1>10, <1>11, <1>12, <1>13, <1>14, <1>15, StepNamesAre

LEMMA SyncClient ==
  ASSUME LegacyType, SyncInv, faults' = faults, StartRun \/ SendRequest \/ Receive
  PROVE  SyncInv'
<1>1. UNCHANGED <<ready, blockId, stream, flushed, failed>> /\ InitFails' = InitFails
  BY DEF StartRun, SendRequest, Receive, server, InitFails
<1>2. /\ waiting \in BOOLEAN /\ responses \in Seq(Answers) /\ sent \in Nat
      /\ waiting => pc \in StepNames
  BY Constants DEF LegacyType, TypeOK, Channels, Progress
<1>3. CASE StartRun
  <2>1. /\ ~waiting /\ requests = <<>> /\ requests' = requests /\ pc' = "session"
    <3>1. ~waiting
      BY <1>2, <1>3, StepNamesAre DEF StartRun
    <3> QED BY <1>3, <3>1 DEF StartRun, SyncInv, OneRequest
  <2>2. ~(InitFails /\ ready)
    BY <1>3 DEF StartRun, SyncInv, ContextOwned
  <2> QED BY <1>1, <2>1, <2>2 DEF SyncInv, OneRequest, SyncProgress, ContextOwned
<1>4. CASE SendRequest
  <2>1. /\ ~waiting /\ waiting' = TRUE /\ responses' = <<>>
        /\ UNCHANGED <<pc, sent, runs>> /\ requests' = Append(requests, Request(pc))
    BY <1>4 DEF SendRequest
  <2>2. requests = <<>>
    BY <2>1 DEF SyncInv, OneRequest
  <2>3. requests' = <<Request(pc)>> /\ requests' # <<>>
    BY <2>1, <2>2
  <2>4. Request(pc)' = Request(pc) /\ Image(runs)' = Image(runs)
    BY <2>1 DEF Request, Image, Counter
  <2>5. ~Served /\ ~Doomed /\ ~Served' /\ ~Doomed'
    BY <2>1, <2>3 DEF Served, Doomed
  <2>6. OneRequest'
    BY <2>1, <2>3, <2>4 DEF OneRequest
  <2>7. Stage(0)' = Stage(0) /\ Stage(sent)' = Stage(sent)
    BY <1>1, <2>1 DEF Stage
  <2>8. SyncProgress'
    BY <1>1, <2>1, <2>4, <2>5, <2>7 DEF SyncInv, SyncProgress
  <2>9. ContextOwned'
    BY <1>1, <2>1, <2>5 DEF SyncInv, ContextOwned
  <2> QED BY <2>6, <2>8, <2>9 DEF SyncInv
<1>5. CASE Receive
  <2> DEFINE answer == Head(responses)
  <2>1. waiting /\ responses # <<>> /\ UNCHANGED <<runs, requests>>
        /\ responses' = Tail(responses)
    BY <1>5 DEF Receive
  <2>2. requests = <<>> /\ Served
    BY <2>1 DEF SyncInv, OneRequest, Served
  <2>3. OneRequest'
    BY <2>1, <2>2 DEF OneRequest
  <2>4. Image(runs)' = Image(runs)
    BY <2>1 DEF Image
  <2>5. Pending(pc).kind = "pending" /\ \A b : Positive(pc, b).kind = "positive"
    BY DEF Pending, Positive
  <2>6. CASE answer = Pending(pc) /\ UNCHANGED <<pc, waiting, sent, retries>>
    <3>1. ~Doomed /\ Served'
      BY <2>1, <2>2, <2>5, <2>6 DEF Doomed, Served
    <3>2. Stage(0)' = Stage(0) /\ Stage(sent + 1)' = Stage(sent + 1)
      BY <1>1, <2>1, <2>6 DEF Stage
    <3>3. SyncProgress'
      BY <1>1, <2>1, <2>2, <2>4, <2>6, <3>1, <3>2 DEF SyncInv, SyncProgress
    <3>4. ContextOwned'
      <4>1. Welcome' = Welcome
        BY <2>1, <2>6 DEF Welcome, Request, Positive, Pending, Counter
      <4>2. responses \in Welcome => responses' \in Welcome
        <5> DEFINE p == Positive(pc, Request(pc).block)
        <5>1. Head(<<p>>) = p /\ Tail(<<Pending(pc), p>>) = <<p>>
          OBVIOUS
        <5>2. p # Pending(pc)
          BY <2>5
        <5> HIDE DEF p
        <5>3. Welcome = {<<Pending(pc), p>>, <<p>>}
          BY DEF Welcome, p
        <5> QED BY <2>1, <2>6, <5>1, <5>2, <5>3
      <4> QED BY <1>1, <2>6, <2>2, <3>1, <4>1, <4>2 DEF SyncInv, ContextOwned
    <3> QED BY <2>3, <3>3, <3>4 DEF SyncInv
  <2>7. CASE answer = Positive(pc, Request(pc).block) /\ Accept
    <3>1. ~Doomed /\ waiting' = FALSE /\ ~Served'
      BY <2>5, <2>7 DEF Accept, Doomed, Served
    <3>2. CASE pc = "session"
      <4>1. pc' = "erase" /\ ~(InitFails /\ ready)
        BY <2>7, <3>2, NextStepIs DEF Accept, SyncInv, ContextOwned
      <4> QED BY <1>1, <2>3, <3>1, <4>1 DEF SyncInv, SyncProgress, ContextOwned
    <3>3. CASE pc \in {"erase", "download"}
      <4>1. /\ pc' = IF pc = "erase" THEN "download" ELSE "transfer"
            /\ sent = 0 /\ sent' = 0
        BY <2>7, <3>3, NextStepIs DEF Accept, LegacyType, Progress
      <4>2. Stage(0) \/ (InitFails /\ ~ready)
        BY <2>2, <3>3 DEF SyncInv, SyncProgress
      <4>3. Stage(0)' \/ (InitFails' /\ ~ready')
        BY <1>1, <2>1, <4>2 DEF Stage
      <4>4. Stage(sent)' = Stage(0)'
        BY <4>1 DEF Stage
      <4>5. SyncProgress'
        BY <3>1, <4>1, <4>3, <4>4 DEF SyncProgress
      <4> QED BY <2>3, <3>1, <4>1, <4>5 DEF SyncInv, ContextOwned
    <3>4. CASE pc = "transfer"
      <4>1. /\ sent' = sent + 1 /\ sent < N
            /\ pc' = IF sent + 1 < N THEN "transfer" ELSE "exit"
        BY <2>7, <3>4, NextStepIs DEF Accept, LegacyType, Progress
      <4>2. Stage(sent + 1) \/ (InitFails /\ ~ready)
        BY <2>2, <3>1, <3>4 DEF SyncInv, SyncProgress
      <4>3. CASE sent + 1 < N
        <5>1. Stage(sent + 1) => Stage(sent)'
          BY <1>1, <2>1, <4>1 DEF Stage, BlockIdAfter, Counter, Image
        <5>2. SyncProgress'
          BY <1>1, <3>1, <4>1, <4>2, <4>3, <5>1 DEF SyncProgress
        <5> QED BY <2>3, <3>1, <4>1, <4>3, <5>2 DEF SyncInv, ContextOwned
      <4>4. CASE sent + 1 = N
        <5>1. Stage(sent + 1) => stream' = Image(runs)'
          BY <1>1, <2>4, <4>4, WholePrefix DEF Stage
        <5>2. pc' = "exit"
          BY <4>1, <4>4, Constants
        <5>3. SyncProgress'
          BY <1>1, <3>1, <4>2, <5>1, <5>2 DEF SyncProgress
        <5> QED BY <2>3, <3>1, <5>2, <5>3 DEF SyncInv, ContextOwned
      <4> QED BY <1>2, <4>1, <4>3, <4>4, Constants
    <3>5. CASE pc \in {"exit", "confirm", "reset"}
      <4>1. pc' \in {"confirm", "reset", "done"}
        BY <2>7, <3>5, NextStepIs DEF Accept
      <4>2. stream = Image(runs) /\ flushed /\ ~(InitFails /\ ready)
        BY <2>2, <3>1, <3>5 DEF SyncInv, SyncProgress, ContextOwned
      <4> QED BY <1>1, <2>3, <2>4, <4>1, <4>2 DEF SyncInv, SyncProgress, ContextOwned
    <3> QED BY <1>2, <2>1, <3>2, <3>3, <3>4, <3>5, StepNamesAre
  <2>8. CASE answer \notin {Pending(pc), Positive(pc, Request(pc).block)} /\ Fail
    <3>1. responses \notin Welcome
      <4> DEFINE p == Positive(pc, Request(pc).block)
      <4>1. Head(<<p>>) = p /\ Head(<<Pending(pc), p>>) = Pending(pc)
        OBVIOUS
      <4> HIDE DEF p
      <4>2. Welcome = {<<Pending(pc), p>>, <<p>>}
        BY DEF Welcome, p
      <4> QED BY <2>8, <4>1, <4>2 DEF p
    <3>2. ~(InitFails /\ ready)
      BY <2>2, <3>1 DEF SyncInv, ContextOwned
    <3>3. pc' = "failed"
      BY <2>8 DEF Fail
    <3> QED BY <1>1, <2>3, <3>2, <3>3 DEF SyncInv, SyncProgress, ContextOwned
  <2> QED BY <1>5, <2>6, <2>7, <2>8 DEF Receive
<1> QED BY <1>3, <1>4, <1>5
-----------------------------------------------------------------------------
(* The theorems.                                                           *)

(* What SyncInv is for.                                                    *)
Sync == "timeout" \notin faults /\ ~Mixed

LegacyInv ==
  /\ LegacyType /\ LateInv
  /\ failed => "write" \in faults \/ "init" \in faults
  /\ Sync => SyncInv

LEMMA LegacyInit == Init => LegacyInv
<1> SUFFICES ASSUME Init PROVE LegacyInv
  OBVIOUS
<1>1. /\ requests = <<>> /\ Len(requests) = 0 /\ pc = "idle" /\ waiting = FALSE
      /\ ready = FALSE /\ failed = FALSE
  BY DEF Init
<1>2. LateInv
  BY <1>1, Constants DEF LateInv, QueueInv, OpeningInv, ClosingInv
<1>3. SyncInv
  BY <1>1 DEF SyncInv, OneRequest, SyncProgress, ContextOwned
<1> QED BY <1>1, <1>2, <1>3, TypeInit DEF LegacyInv

LEMMA LegacyNext ==
  ASSUME ShortQueue, LegacyInv, [Next]_vars
  PROVE  LegacyInv'
<1>1. LegacyType' /\ faults' = faults /\ Sync' = Sync
  BY TypeNext DEF LegacyInv, Next, vars, Sync, Mixed
<1>2. CASE SessionTimeout \/ UNCHANGED vars
  <2>1. UNCHANGED <<pc, waiting, sent, retries, runs, requests, responses, ready,
                    blockId, stream, flushed, failed, faults>>
    BY <1>1, <1>2 DEF SessionTimeout, vars, moving, client, server
  <2>2. LateInv => LateInv'
    BY <2>1 DEF LateInv, QueueInv, OpeningInv, Behind, Ahead, ClosingInv, Inert,
                Answered, OnStage, Stage, Mine
  <2>3. SyncInv => SyncInv'
    BY <2>1 DEF SyncInv, OneRequest, SyncProgress, ContextOwned, Served, Doomed, Welcome,
                InitFails, Request, Stage
  <2> QED BY <1>1, <2>1, <2>2, <2>3 DEF LegacyInv
<1>3. CASE Next /\ ~SessionTimeout
  <2>1. LateInv'
    BY <1>3, LateServe, LateClient, LateLose DEF Next, LegacyInv
  <2>2. failed' => "write" \in faults' \/ "init" \in faults'
    <3>1. ServeRequest => failed' = failed \/ "write" \in faults \/ "init" \in faults
                          \/ failed' = FALSE
      BY DEF ServeRequest, ChangeSession, EraseRoutine, RequestDownload, TransferData,
             TransferExit, ConfirmRoutine, EcuReset, server
    <3>2. ~ServeRequest => failed' = failed
      BY <1>3 DEF Next, StartRun, SendRequest, Receive, Timeout, Lose, server
    <3> QED BY <1>1, <3>1, <3>2 DEF LegacyInv
  <2>3. Sync => SyncInv'
    <3> SUFFICES ASSUME Sync PROVE SyncInv'
      OBVIOUS
    <3>1. ~Timeout /\ ~Lose
      BY DEF Sync, Timeout, Lose
    <3>2. ~("init" \in faults /\ "write" \in faults)
      <4>1. "init" # "write"
        OBVIOUS
      <4> QED BY <4>1 DEF Sync, Mixed
    <3> QED BY <1>1, <1>3, <3>1, <3>2, SyncServe, SyncClient DEF Next, LegacyInv
  <2> QED BY <1>1, <2>1, <2>2, <2>3 DEF LegacyInv
<1> QED BY <1>2, <1>3

(* Whatever answers are lost or late, however often a block is sent again  *)
(* or a new run started, and whatever failed in earlier runs: the blocks   *)
(* that the client was told are there were written once, in order, and are *)
(* from its own image.                                                     *)
THEOREM BlocksWrittenOnce ==
  ASSUME ShortQueue
  PROVE  Spec => []AckedExactlyOnce
<1>1. LegacyInv /\ [Next]_vars => LegacyInv'
  BY LegacyNext
<1>2. LegacyInv => AckedExactlyOnce
  <2> SUFFICES ASSUME LegacyInv, failed => faults = {"write"}, sent > 0,
                      pc \in {"transfer", "exit", "confirm", "reset", "done"}
               PROVE  \E written \in {sent, sent + 1} :
                        stream = SubSeq(Image(runs), 1, written)
    BY DEF AckedExactlyOnce
  <2>1. failed => SyncInv /\ ~InitFails
    <3>1. faults = {"write"} => Sync /\ ~InitFails
      <4>1. "write" # "timeout" /\ "write" # "init"
        OBVIOUS
      <4> QED BY <4>1 DEF Sync, Mixed, InitFails
    <3> QED BY <3>1 DEF LegacyInv
  <2>2. CASE pc = "transfer"
    BY <2>1, <2>2 DEF LegacyInv, LateInv, SyncInv, SyncProgress, Behind, Ahead, OnStage, Stage
  <2>3. CASE pc # "transfer"
    <3>1. sent = N
      BY <2>3 DEF LegacyInv, LegacyType, Progress
    <3>2. stream = Image(runs)
      BY <2>1, <2>3 DEF LegacyInv, LateInv, SyncInv, SyncProgress, ClosingInv
    <3> QED BY <3>1, <3>2, WholePrefix
  <2> QED BY <2>2, <2>3
<1> QED BY <1>1, <1>2, LegacyInit, PTL DEF Spec

(* The upgrade is requested (routine 1338) only for an image that was      *)
(* written as a whole and is in flash, whatever combination of faults the  *)
(* behaviours have; the one exception is a flash call that failed since    *)
(* the erase, in a behaviour in which something else goes wrong as well.   *)
THEOREM ConfirmedImages ==
  ASSUME ShortQueue
  PROVE  Spec => []ImageOK
<1>1. LegacyInv /\ [Next]_vars => LegacyInv'
  BY LegacyNext
<1>2. LegacyInv => ImageOK
  <2> SUFFICES ASSUME LegacyInv, pc \in {"confirm", "reset", "done"}
               PROVE  (stream = Image(runs) /\ flushed) \/ (failed /\ Mixed)
    BY DEF LegacyInv, LegacyType, ImageOK, ConfirmedIsWhole
  <2>1. CASE ~failed
    BY <2>1 DEF LegacyInv, LateInv, ClosingInv
  <2>2. CASE failed /\ ~Mixed
    <3>1. "timeout" # "write" /\ "timeout" # "init"
      OBVIOUS
    <3>2. Sync
      BY <2>2, <3>1 DEF LegacyInv, Sync, Mixed
    <3> QED BY <3>2 DEF LegacyInv, SyncInv, SyncProgress
  <2> QED BY <2>1, <2>2
<1> QED BY <1>1, <1>2, LegacyInit, PTL DEF Spec
=============================================================================
