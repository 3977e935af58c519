----------------------------- MODULE UdsLegacy -----------------------------
(***************************************************************************)
(* The legacy update over ISO-TP: the server thread of lib/uds_legacy      *)
(* (uds.c, uds_session.c) and its client, "west ardep uds-dfu"             *)
(* (scripts/ardep_commands/uds_dfu.py).                                    *)
(*                                                                         *)
(* The client sends one request at a time and waits for the answer; a      *)
(* TransferData request that is not answered in time is sent again.  The   *)
(* server handles the requests in the order in which they arrive.          *)
(*                                                                         *)
(* External: ISO-TP (two FIFO channels), udsoncan (empties its receive     *)
(* queue before it sends, waits on after "response pending"), flash_img.   *)
(*                                                                         *)
(* Left out: requests the client never makes, all of which are answered    *)
(* negatively; one of them, RoutineControl with another subfunction than   *)
(* 0x01, also ends the server thread (uds.c:386-389).                      *)
(***************************************************************************)
EXTENDS Naturals, Sequences

CONSTANTS
  N,           \* blocks of the image
  Mod,         \* the block sequence counter wraps (256 in the code)
  FirstId,     \* block_id at power-on (0xF in the code)
  MaxRetries,  \* attempts to transfer a block (10 in the code)
  MaxRuns,     \* bound: how often the client is started
  MaxQueue,    \* bound: requests and answers on their way
  Scenarios    \* sets of what may go wrong: "timeout" (lost or late),
               \* "write", "init"

ASSUME LegacyAssumption ==
  /\ N \in Nat \ {0} /\ Mod \in Nat \ {0, 1}
  /\ FirstId \in 0 .. (Mod - 1)
  /\ MaxRetries \in Nat \ {0} /\ MaxRuns \in Nat \ {0} /\ MaxQueue \in Nat \ {0}
  /\ Scenarios \subseteq SUBSET {"timeout", "write", "init"}

VARIABLES
  faults,     \* what goes wrong in this behaviour
  pc,         \* the request the client makes or waits for
  waiting,    \* it was sent
  sent,       \* blocks acknowledged to the client
  retries,    \* attempts made to transfer the next one
  runs,       \* how often the client was started
  requests,   \* on their way to the server
  responses,  \* on their way to the client
  session,    \* uds_session_state
  ready,      \* flash_context_initialized
  blockId,    \* block_id
  stream,     \* blocks written since the flash context was initialized
  flushed,    \* nothing is left in the buffer of the flash context
  failed      \* history: a flash call failed since the flash context was last
              \* initialized, or could not be initialized

client == <<pc, waiting, sent, retries, runs>>
server == <<session, ready, blockId, stream, flushed, failed>>
moving == <<client, requests, responses, server>>
vars == <<faults, moving>>

Steps == <<"session", "erase", "download", "transfer", "exit", "confirm", "reset">>

StepNames == {Steps[i] : i \in 1 .. Len(Steps)}

NextStep(step) ==
  LET i == CHOOSE j \in 1 .. Len(Steps) : Steps[j] = step
  IN IF i = Len(Steps) THEN "done" ELSE Steps[i + 1]

(* A block knows the run, and with it the image, that it is from.          *)
Image(run) == [i \in 1 .. N |-> <<run, i>>]

(* What block_id and the client's counter say of the i-th block.           *)
Counter(i) == (i - 1) % Mod

Request(step) ==
  [sid |-> step,
   block |-> IF step = "transfer" THEN Counter(sent + 1) ELSE 0,
   data |-> IF step = "transfer" THEN <<runs, sent + 1>> ELSE <<>>]

Positive(sid, block) == [kind |-> "positive", sid |-> sid, block |-> block]
Negative(sid) == [kind |-> "negative", sid |-> sid, block |-> 0]
Pending(sid) == [kind |-> "pending", sid |-> sid, block |-> 0]

Init ==
  /\ faults \in Scenarios
  /\ pc = "idle" /\ waiting = FALSE /\ sent = 0 /\ retries = 0 /\ runs = 0
  /\ requests = <<>> /\ responses = <<>>
  /\ session = "DEFAULT"
  /\ ready = FALSE /\ blockId = FirstId
  /\ stream = <<>> /\ flushed = TRUE /\ failed = FALSE
-----------------------------------------------------------------------------
(* The server.                                                             *)

Answer(answers) == responses' = responses \o answers

(* DiagnosticSessionControl: change_session.                               *)
ChangeSession ==
  /\ session' = "PROGRAMMING"
  /\ Answer(<<Positive("session", 0)>>)
  /\ UNCHANGED <<ready, blockId, stream, flushed, failed>>

(* uds_session_timeout, two seconds after the session was changed.         *)
SessionTimeout ==
  /\ session # "DEFAULT"
  /\ session' = "DEFAULT"
  /\ UNCHANGED <<client, requests, responses, ready, blockId, stream, flushed, failed>>

(* handle_erase_routine: an error is the result in a positive answer, and  *)
(* the flash context and the block counter stay as they were.              *)
EraseRoutine ==
  /\ Answer(<<Pending("erase"), Positive("erase", 0)>>)
  /\ \/ /\ ready' = TRUE
        /\ blockId' = Mod - 1
        /\ stream' = <<>> /\ flushed' = TRUE /\ failed' = FALSE
     \/ /\ "init" \in faults
        /\ failed' = TRUE
        /\ UNCHANGED <<ready, blockId, stream, flushed>>
  /\ UNCHANGED session

(* The answer to RequestDownload has no effect.                            *)
RequestDownload ==
  /\ Answer(<<Positive("download", 0)>>)
  /\ UNCHANGED server

(* flash_img_buffered_write of one block.                                  *)
Write(data) == stream' = Append(stream, data) /\ flushed' = FALSE

(* Mutant: a block that was received before is written again.              *)
TransferDataTwice(request) ==
  /\ IF ready
     THEN Write(request.data) /\ Answer(<<Positive("transfer", request.block)>>)
     ELSE Answer(<<Negative("transfer")>>) /\ UNCHANGED <<stream, flushed>>
  /\ blockId' = request.block
  /\ UNCHANGED <<session, ready, failed>>

(* handle_transfer_data.  The counter moves before it is compared, also    *)
(* when the block is then refused; after a failed write the negative       *)
(* answer is followed by a positive one.                                   *)
TransferData(request) ==
  /\ \/ /\ request.block = blockId
        /\ Answer(<<Positive("transfer", blockId)>>)
        /\ UNCHANGED <<blockId, stream, flushed, failed>>
     \/ /\ request.block # blockId
        /\ blockId' = (blockId + 1) % Mod
        /\ \/ /\ request.block # blockId' \/ ~ready
              /\ Answer(<<Negative("transfer")>>)
              /\ UNCHANGED <<stream, flushed, failed>>
           \/ /\ request.block = blockId' /\ ready
              /\ \/ /\ Write(request.data)
                    /\ Answer(<<Positive("transfer", blockId')>>)
                    /\ UNCHANGED failed
                 \/ /\ "write" \in faults
                    /\ Answer(<<Negative("transfer"), Positive("transfer", blockId')>>)
                    /\ failed' = TRUE
                    /\ UNCHANGED <<stream, flushed>>
  /\ UNCHANGED <<session, ready>>

(* Mutant: a flush that fails is not answered negatively.                  *)
TransferExitSilent ==
  /\ ready' = FALSE
  /\ \/ flushed' = TRUE /\ UNCHANGED failed
     \/ "write" \in faults /\ failed' = TRUE /\ UNCHANGED flushed
  /\ Answer(<<Positive("exit", 0)>>)
  /\ UNCHANGED <<session, blockId, stream>>

(* handle_transfer_exit: flushes the buffer and closes the flash context;  *)
(* again both answers are sent when the write fails.                       *)
TransferExit ==
  /\ ready' = FALSE
  /\ \/ /\ ~ready
        /\ Answer(<<Negative("exit")>>)
        /\ UNCHANGED <<flushed, failed>>
     \/ /\ ready
        /\ \/ flushed' = TRUE /\ Answer(<<Positive("exit", 0)>>) /\ UNCHANGED failed
           \/ /\ "write" \in faults
              /\ failed' = TRUE
              /\ Answer(<<Negative("exit"), Positive("exit", 0)>>)
              /\ UNCHANGED flushed
  /\ UNCHANGED <<session, blockId, stream>>

(* handle_confirm_routine: the result of boot_request_upgrade is ignored.  *)
ConfirmRoutine ==
  /\ Answer(<<Positive("confirm", 0)>>)
  /\ UNCHANGED server

(* handle_ecu_reset: the server starts again and loses what was queued.    *)
EcuReset ==
  /\ Answer(<<Positive("reset", 0)>>)
  /\ session' = "DEFAULT" /\ ready' = FALSE /\ blockId' = FirstId
  /\ UNCHANGED <<stream, flushed, failed>>

(* thread_entry: one turn of the loop.                                     *)
ServeRequest ==
  /\ requests # <<>> /\ Len(responses) < MaxQueue
  /\ LET request == Head(requests)
     IN /\ \/ request.sid = "session" /\ ChangeSession
           \/ request.sid = "erase" /\ EraseRoutine
           \/ request.sid = "download" /\ RequestDownload
           \/ request.sid = "transfer" /\ TransferData(request)
           \/ request.sid = "exit" /\ TransferExit
           \/ request.sid = "confirm" /\ ConfirmRoutine
           \/ request.sid = "reset" /\ EcuReset
        /\ requests' = IF request.sid = "reset" THEN <<>> ELSE Tail(requests)
  /\ UNCHANGED client
-----------------------------------------------------------------------------
(* The client.                                                             *)

StartRun ==
  /\ pc \in {"idle", "done", "failed"}
  /\ runs < MaxRuns
  /\ pc' = "session"
  /\ waiting' = FALSE /\ sent' = 0 /\ retries' = 0
  /\ runs' = runs + 1
  /\ UNCHANGED <<requests, responses, server>>

(* What is in the receive queue is dropped before a request is sent.       *)
SendRequest ==
  /\ pc \in StepNames /\ ~waiting
  /\ Len(requests) < MaxQueue
  /\ requests' = Append(requests, Request(pc))
  /\ responses' = <<>>
  /\ waiting' = TRUE
  /\ retries' = retries + 1
  /\ UNCHANGED <<pc, sent, runs, server>>

(* The answer expected: the next request is made.                          *)
Accept ==
  /\ waiting' = FALSE
  /\ retries' = 0
  /\ sent' = IF pc = "transfer" THEN sent + 1 ELSE sent
  /\ pc' = IF pc = "transfer" /\ sent + 1 < N THEN pc ELSE NextStep(pc)

(* NegativeResponseException, or an answer to another request.             *)
Fail ==
  /\ pc' = "failed"
  /\ waiting' = FALSE
  /\ UNCHANGED <<sent, retries>>

Receive ==
  /\ waiting /\ responses # <<>>
  /\ LET answer == Head(responses)
     IN \/ answer = Pending(pc) /\ UNCHANGED <<pc, waiting, sent, retries>>
        \/ answer = Positive(pc, Request(pc).block) /\ Accept
        \/ answer \notin {Pending(pc), Positive(pc, Request(pc).block)} /\ Fail
  /\ responses' = Tail(responses)
  /\ UNCHANGED <<runs, requests, server>>

(* Mutant: retries are not counted.                                        *)
TimeoutUnlimited ==
  /\ "timeout" \in faults
  /\ waiting
  /\ waiting' = FALSE
  /\ retries' = retries - 1
  /\ UNCHANGED <<pc, sent, runs, requests, responses, server>>

(* No answer within two seconds: a block is transferred again, up to ten   *)
(* times; every other request is given up.                                 *)
Timeout ==
  /\ "timeout" \in faults
  /\ waiting
  /\ \/ /\ pc = "transfer" /\ retries < MaxRetries
        /\ waiting' = FALSE
        /\ UNCHANGED <<pc, sent, retries>>
     \/ /\ pc # "transfer" \/ retries = MaxRetries
        /\ Fail
  /\ UNCHANGED <<runs, requests, responses, server>>

(* External: a message is lost.                                            *)
Lose ==
  /\ "timeout" \in faults
  /\ \/ requests # <<>> /\ requests' = Tail(requests) /\ UNCHANGED responses
     \/ responses # <<>> /\ responses' = Tail(responses) /\ UNCHANGED requests
  /\ UNCHANGED <<client, server>>

Next ==
  \/ ServeRequest /\ UNCHANGED faults
  \/ SessionTimeout /\ UNCHANGED faults
  \/ StartRun /\ UNCHANGED faults
  \/ SendRequest /\ UNCHANGED faults
  \/ Receive /\ UNCHANGED faults
  \/ Timeout /\ UNCHANGED faults
  \/ Lose /\ UNCHANGED faults

Spec == Init /\ [][Next]_vars

(* The server thread runs and the client goes on; nothing makes a message  *)
(* get lost, and nobody has to start the client.                           *)
FairSpec ==
  /\ Spec
  /\ WF_moving(ServeRequest) /\ WF_moving(SendRequest)
  /\ WF_moving(Receive) /\ WF_moving(Timeout)
-----------------------------------------------------------------------------
(* Types; block_id is an unsigned byte.                                    *)
TypeOK ==
  /\ faults \in Scenarios
  /\ pc \in StepNames \union {"idle", "done", "failed"}
  /\ waiting \in BOOLEAN /\ ready \in BOOLEAN /\ flushed \in BOOLEAN /\ failed \in BOOLEAN
  /\ sent \in 0 .. N /\ retries \in 0 .. MaxRetries /\ runs \in 0 .. MaxRuns
  /\ session \in {"DEFAULT", "PROGRAMMING"}
  /\ blockId \in 0 .. (Mod - 1)
  /\ \A i \in 1 .. Len(stream) : stream[i] \in (1 .. MaxRuns) \X (1 .. N)

(* However often a block is sent and whatever answers are lost or late,    *)
(* the blocks acknowledged to the client were written once, in order and   *)
(* all from its own image; at most one more has been written.  A failed    *)
(* write is excused if its negative answer may get lost: the block is then *)
(* acknowledged when it is sent again (RetransmitWasWritten).  So is a     *)
(* failed flash_img_init: block_id keeps its value then, and a first block *)
(* that happens to have it is taken for a retransmit.                      *)
AckedExactlyOnce ==
  /\ failed => faults = {"write"}
  /\ pc \in {"transfer", "exit", "confirm", "reset", "done"} /\ sent > 0
  => \E written \in {sent, sent + 1} :
       stream = SubSeq(Image(runs), 1, written)

(* "retransmit of last block": a block that is answered without being      *)
(* written was written before.  It was not, if its first write failed and  *)
(* the negative answer was lost or late.                                   *)
RetransmitWasWritten ==
  requests # <<>> =>
    LET request == Head(requests)
    IN request.sid = "transfer" /\ request.block = blockId =>
         stream # <<>> /\ stream[Len(stream)] = request.data

(* Faults of more than one kind happen in this behaviour.                  *)
Mixed == \E a, b \in faults : a # b

(* The upgrade is requested (routine 1338) only for a whole image that is  *)
(* in flash, whatever went wrong in earlier runs and whatever is lost or   *)
(* late in this one.  A flash call that fails never leads to it as long as *)
(* its answer arrives; together with other faults it does.                 *)
ConfirmedIsWhole ==
  pc \in {"confirm", "reset", "done"} =>
    \/ stream = Image(runs) /\ flushed
    \/ failed /\ Mixed

(* Every run of the client ends: nobody waits for ever.                    *)
ClientEnds == pc # "idle" ~> pc \in {"done", "failed"}

(* Types (block_id wraps), and only whole images are confirmed.            *)
ImageOK == TypeOK /\ ConfirmedIsWhole
=============================================================================
