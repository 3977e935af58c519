------------------------------- MODULE UdsEcu -------------------------------
(***************************************************************************)
(* An ECU with the UDS library: what a request of the tester does, down to *)
(* the events a dynamically defined identifier raises for its elements,    *)
(* next to the threads of the application.  Two applications of the        *)
(* repository are modelled: "sample" is samples/uds, "fixture" the one of  *)
(* tests/lib/uds, which has the library's default handlers and is built    *)
(* for native_sim and for a board.                                         *)
(*                                                                         *)
(* Handlers of a request run one after the other in the thread of the      *)
(* server; each holds the application's mutex whenever it touches what the *)
(* other threads use, so a request is one step.                            *)
(***************************************************************************)
EXTENDS UdsSample

CONSTANT MaxDepth   \* events in events the stack has room for

VARIABLES
  ecu,      \* the state s of the handlers
  reply,    \* the last request (its argument if it is about the memory),
            \* its response code and its data
  led,      \* the thread of the LED: "boot", "run" or "dead"
  tester    \* history: what the tester has shown and been given, and
            \* whether every answer was the one it was entitled to

ecuVars == <<ecu, reply, led, tester>>

(* The identifiers of the fixture, and what its action copies, cut to      *)
(* fewer bytes.  The tests install one action after the other: one that    *)
(* copies, without a look at the result, and one that denies an identifier *)
(* (those in s.denied).                                                    *)
data_id_r == 1
data_id_rw == 2

data_id_check_fn(arg, reg) == Checked("OK", arg.id = reg.id)

data_id_action_fn(arg, s) ==
  IF arg.id \in s.denied THEN Did("SecurityAccessDenied", "no", s)
  ELSE Did("OK", "yes",
           Copy(arg.copy, s, IF arg.id = data_id_r THEN <<17, 34>>
                                                   ELSE <<85, 102>>).state)

(* The registrations of the fixture that the requests reach.               *)
FixtureStatic ==
  LET fake == Actor("data_id_check_fn", "data_id_action_fn")
  IN  <<DATA_BY_IDENTIFIER(data_id_r, fake, Null, Null),
        DATA_BY_IDENTIFIER(data_id_rw, fake, fake, fake),
        MEMORY_DEFAULT, DYNAMICALLY_DEFINE_DATA_IDS_DEFAULT>>

(* The registrations of the sample.                                        *)
SampleStatic ==
  LET reads   == Actor("read_data_by_id_check", "read_data_by_id_action")
      writes  == Actor("true", "write_primitive_data_by_id_action")
      secure  == Actor("read_secure_data_check", "read_secure_data_action")
  IN  <<DATA_BY_IDENTIFIER(primitive_type_id, reads, writes, Null),
        DATA_BY_IDENTIFIER(string_id, reads, Null, Null),
        DATA_BY_IDENTIFIER(authenticated_type_id, reads, Null, Null),
        DATA_BY_IDENTIFIER(led_id, Actor("true", "read_led_action"),
                           Actor("true", "write_led_action"),
                           Actor("true", "io_ctrl_led_action")),
        DATA_BY_IDENTIFIER(secure_data_id, secure, Null, Null),
        AUTHENTICATION("true", "auth_action", "true", "auth_timeout_action"),
        SECURITY_ACCESS("security_access_check",
                        "security_access_request_seed_action",
                        "security_access_check",
                        "security_access_validate_key_action"),
        ROUTINE_CONTROL(SYNCHRONOUS_ROUTINE_ID, "sync_routine_control_check",
                        "sync_routine_control_action"),
        ROUTINE_CONTROL(ASYNCHRONOUS_ROUTINE_ID, "true",
                        "async_routine_control_action"),
        MEMORY("mem_by_address_check", "read_mem_by_address_action",
               "mem_by_address_check", "write_mem_by_address_action")>>

Static(s) == IF s.app = "sample" THEN SampleStatic ELSE FixtureStatic

(* What the check function of a registration answers; "true" stands for    *)
(* the checks of the sample that only set apply_action.                    *)
CheckResult(fn, reg, arg, s) ==
  CASE fn = "true" -> Checked("OK", TRUE)
    [] fn = "read_data_by_id_check" -> read_data_by_id_check(arg, s)
    [] fn = "read_secure_data_check" -> read_secure_data_check(arg, s)
    [] fn = "security_access_check" -> security_access_check(arg)
    [] fn = "sync_routine_control_check" -> sync_routine_control_check(arg)
    [] fn = "mem_by_address_check" -> mem_by_address_check(arg)
    [] fn = "data_id_check_fn" -> data_id_check_fn(arg, reg)
    [] fn = "uds_check_default_memory_by_addr_read" ->
         DefaultMemoryCheck(arg, s, TRUE)
    [] fn = "uds_check_default_memory_by_addr_write" ->
         DefaultMemoryCheck(arg, s, FALSE)
    [] fn = "uds_check_default_dynamically_define_data_ids" ->
         uds_check_default_dynamically_define_data_ids(arg)
    [] fn = "uds_dynamic_data_by_id_read_data_by_id_check" ->
         uds_dynamic_data_by_id_read_data_by_id_check(arg, reg)

(* What an action does that raises no event.                               *)
ActionResult(fn, arg, s) ==
  CASE fn = "read_data_by_id_action" -> read_data_by_id_action(arg, s)
    [] fn = "write_primitive_data_by_id_action" ->
         write_primitive_data_by_id_action(arg, s)
    [] fn = "read_led_action" -> read_led_action(arg, s)
    [] fn = "write_led_action" -> write_led_action(arg, s)
    [] fn = "io_ctrl_led_action" -> io_ctrl_led_action(arg, s)
    [] fn = "auth_action" -> auth_action(arg, s)
    [] fn = "auth_timeout_action" -> auth_timeout_action(arg, s)
    [] fn = "security_access_request_seed_action" ->
         security_access_request_seed_action(arg, s)
    [] fn = "security_access_validate_key_action" ->
         security_access_validate_key_action(arg, s)
    [] fn = "read_secure_data_action" -> read_secure_data_action(arg, s)
    [] fn = "sync_routine_control_action" ->
         sync_routine_control_action(arg, s)
    [] fn = "async_routine_control_action" ->
         async_routine_control_action(arg, s)
    [] fn = "read_mem_by_address_action" -> read_mem_by_address_action(arg, s)
    [] fn = "write_mem_by_address_action" ->
         write_mem_by_address_action(arg, s)
    [] fn = "data_id_action_fn" -> data_id_action_fn(arg, s)
    [] fn = "uds_action_default_memory_by_addr_read" ->
         uds_action_default_memory_by_addr_read(arg, s)
    [] fn = "uds_action_default_memory_by_addr_write" ->
         uds_action_default_memory_by_addr_write(arg, s)
    [] fn = "uds_action_default_dynamically_define_data_ids" ->
         uds_action_default_dynamically_define_data_ids(arg, s)
-----------------------------------------------------------------------------
(* The states of the handlers, and what a tester can ask for.              *)
Octets == Nat
Elements ==
  [kind : {"id"}, id : Nat, position : Nat, size : Nat]
  \cup [kind : {"memory"}, addr : Addresses, size : Addresses]

States ==
  [app : {"sample", "fixture"}, native_sim : BOOLEAN,
   temp : [1 .. TempSize -> Octets], len : 0 .. TempSize, out : Seq(Octets),
   memory : [Addresses -> Octets], denied : SUBSET {data_id_r, data_id_rw},
   dynamic : Seq([type : {"DATA_IDENTIFIER"}, id : Nat,
                  elements : Seq(Elements),
                  actors : [{"read", "write", "io_control"} ->
                              [check : STRING, action : STRING]]]),
   primitive : Nat, fake_memory : [1 .. FakeMemory.size -> Octets],
   auth : BOOLEAN, seeed : Seeds, current_seed : Seeds,
   seed_requested : BOOLEAN, led_mutex : BOOLEAN,
   securityLevel : 0 .. 1, led_state : Octets, io_led : Octets,
   io_active : BOOLEAN, pin : Octets,
   status : {"IDLE", "RUNNING", "STOPPED", "SUCCESS"},
   progress : 0 .. RoutineSteps, force_stop : BOOLEAN,
   work : {"idle", "queued", "loop", "end"}]
-----------------------------------------------------------------------------
(* uds_event_callback: the entry of the event, and what its handlers do.   *)
(* The action of a dynamically defined identifier raises an event for each *)
(* element; one whose events nest deeper than the stack ends the ECU.      *)
RECURSIVE uds_event_callback(_, _, _, _)

ReadElement(acc, element, arg, depth) ==
  IF acc.code # "OK" THEN acc
  ELSE IF element.kind = "memory"
  THEN LET child == uds_event_callback("ReadMemByAddr",
                      [addr |-> element.addr, size |-> element.size,
                       copy |-> arg.copy], acc.state, depth + 1)
       IN  [code |-> child.code, state |-> child.state]
  ELSE LET child == uds_event_callback("ReadDataByIdent",
                      [id |-> element.id, copy |-> "temp", fault |-> arg.fault],
                      [acc.state EXCEPT !.len = 0], depth + 1)
       IN  IF child.code # "OK"
           THEN [code |-> child.code, state |-> child.state]
           ELSE TakePart(element, arg.copy, child.state)

uds_dynamic_data_by_id_read_data_by_id_action(reg, arg, s, depth) ==
  LET read == FoldLeft(LAMBDA acc, e : ReadElement(acc, e, arg, depth),
                       [code |-> "OK", state |-> s], reg.elements)
  IN  Did(read.code, IF read.code = "OK" THEN "yes" ELSE "unset", read.state)

Handled(entry, reg, arg, s, depth) ==
  Reach(entry, reg, IF "id" \in DOMAIN arg THEN arg.id ELSE NoId,
        CheckResult(reg.actors[entry.field].check, reg, arg, s),
        IF "elements" \in DOMAIN reg
        THEN uds_dynamic_data_by_id_read_data_by_id_action(reg, arg, s, depth)
        ELSE ActionResult(reg.actors[entry.field].action, arg, s),
        s)

uds_event_callback(event, arg, s, depth) ==
  LET entry == CHOOSE e \in uds_event_handler_data : e.event = event
      registrations == Range(Static(s)) \cup Range(s.dynamic)
  IN  IF depth > MaxDepth
      THEN [code |-> "StackOverflow", calls |-> <<>>, state |-> s]
      ELSE IF \A e \in uds_event_handler_data : e.event # event
      THEN [code |-> "ServiceNotSupported", calls |-> <<>>, state |-> s]
      ELSE HandleEvent(Static(s), s.dynamic,
             [reg \in registrations |-> [t \in States |->
                Handled(entry, reg, arg, t, depth)]],
             entry.default_nrc, s)
-----------------------------------------------------------------------------
(* The start of an application on a build.                                 *)
Start(app, native_sim) ==
  /\ ecu = [app |-> app, native_sim |-> native_sim,
            temp |-> [i \in 1 .. TempSize |-> 0], len |-> 0, out |-> <<>>,
            memory |-> [a \in Addresses |-> 100 + a], denied |-> {},
            dynamic |-> <<>>, primitive |-> 5,
            fake_memory |-> [i \in 1 .. FakeMemory.size |-> i],
            auth |-> FALSE, seeed |-> 0, current_seed |-> 0,
            seed_requested |-> FALSE, led_mutex |-> FALSE,
            securityLevel |-> 0, led_state |-> 0,
            io_led |-> 0, io_active |-> FALSE, pin |-> 0, status |-> "IDLE",
            progress |-> 0, force_stop |-> FALSE, work |-> "idle"]
  /\ reply = [event |-> "none", code |-> "none"]
  /\ led = "boot"
  /\ tester = [auth |-> FALSE, challenge |-> 0, level |-> FALSE,
               seed |-> <<>>, entitled |-> TRUE]

EcuInit == \E app \in {"sample", "fixture"}, native \in BOOLEAN : Start(app, native)

(* The iso14229 library hands the event to the callback and sends what was *)
(* copied if the code is positive; it keeps the security level (external). *)
Sent(request, done) ==
  [code  |-> done.code,
   data  |-> IF done.code = "OK" THEN done.state.out ELSE <<>>,
   state |-> [done.state EXCEPT
                !.out = <<>>,
                !.securityLevel =
                   IF request.event = "SecAccessValidateKey" /\ done.code = "OK"
                   THEN request.arg.level ELSE @]]

Answer(request, s) ==
  Sent(request, uds_event_callback(request.event, request.arg,
                                   [s EXCEPT !.out = <<>>], 0))

(* What the answer tells the tester: whether it is authenticated, the      *)
(* challenge it was sent (0 before the first), whether it has level 1, and *)
(* the seed it may use for a key.                                          *)
Observe(request, answer) ==
  LET arg == request.arg
      ok  == answer.code = "OK"
  IN  CASE request.event = "Auth" /\ arg.type = "RCFA" /\ ok ->
             [tester EXCEPT !.challenge = answer.data[1]]
        [] request.event = "Auth" /\ arg.type = "VPOWNU" ->
             [tester EXCEPT !.auth = ok \/ (@ /\ answer.code # "InvalidKey")]
        [] \/ request.event = "Auth" /\ arg.type = "DA"
           \/ request.event = "AuthTimeout" ->
             [tester EXCEPT !.auth = FALSE]
        [] request.event = "SecAccessRequestSeed" /\ ok ->
             [tester EXCEPT !.seed = answer.data]
        [] request.event = "SecAccessValidateKey" ->
             [tester EXCEPT !.level = @ \/ ok,
                            !.seed = IF answer.code \in {"OK", "InvalidKey"}
                                     THEN <<>> ELSE @]
        [] OTHER -> tester

(* What the exchange so far entitles it to: the protected identifiers as   *)
(* long as it is authenticated or has level 1; a level for the key of the  *)
(* last seed, once; an authentication for the proof of the last challenge. *)
Entitled(request, answer) ==
  LET arg == request.arg
      ok  == answer.code = "OK"
  IN  CASE request.event = "ReadDataByIdent" /\ arg.id = authenticated_type_id ->
             ok <=> tester.auth
        [] request.event = "ReadDataByIdent" /\ arg.id = secure_data_id ->
             ok <=> tester.level
        [] request.event = "SecAccessValidateKey" ->
             ok <=> arg.level = 1 /\ arg.length /\ tester.seed = <<arg.key>>
        [] request.event = "Auth" /\ arg.type = "VPOWNU" ->
             ok => arg.proof = tester.challenge
        [] OTHER -> TRUE

Reply(request, answer) ==
  /\ ecu' = answer.state
  /\ reply' = [event |-> request.event, code |-> answer.code,
               data |-> answer.data,
               arg |-> IF "addr" \in DOMAIN request.arg
                       THEN request.arg ELSE NoId]
  /\ tester' = [Observe(request, answer) EXCEPT
                  !.entitled = @ /\ Entitled(request, answer)]
  /\ UNCHANGED led

(* The codes after which the thread of the server serves no more.          *)
Gone == {"Blocked", "NullCall", "OutOfBounds", "StackOverflow"}

Serve(request) ==
  /\ reply.code \notin Gone
  /\ Reply(request, Answer(request, ecu))

(* The requests: the event that the library makes of each, and its         *)
(* arguments.                                                              *)
Request(event, arg) == [event |-> event, arg |-> arg]

ReadDataByIdentifier(id, fault) ==
  Request("ReadDataByIdent", [id |-> id, copy |-> "response", fault |-> fault])

WriteDataByIdentifier(id, data) ==
  Request("WriteDataByIdent", [id |-> id, data |-> data])

InputOutputControl(param, state, fault) ==
  Request("IOControl", [id |-> led_id, param |-> param, state |-> state,
                        fault |-> fault, copy |-> "response"])

ReadMemoryByAddress(addr, size) ==
  Request("ReadMemByAddr", [addr |-> addr, size |-> size, copy |-> "response"])

WriteMemoryByAddress(addr, size, data) ==
  Request("WriteMemByAddr", [addr |-> addr, size |-> size, data |-> data])

DefineDataIdentifier(id, element) ==
  Request("DynamicDefineDataId",
          [type |-> "define", id |-> id, element |-> element])

ClearDataIdentifiers(ids) ==
  Request("DynamicDefineDataId", [type |-> "clear", ids |-> ids])

Authentication(type, algorithm, proof, length, random, fault) ==
  Request("Auth", [type |-> type, algorithm |-> algorithm, proof |-> proof,
                   length |-> length, random |-> random, fault |-> fault,
                   copy |-> "response"])

RequestSeed(level, random) ==
  Request("SecAccessRequestSeed",
          [level |-> level, random |-> random, copy |-> "response"])

SendKey(level, key, length) ==
  Request("SecAccessValidateKey",
          [level |-> level, key |-> key, length |-> length])

RoutineControl(id, type, input, length, fault) ==
  Request("RoutineCtrl", [id |-> id, type |-> type, input |-> input,
                          length |-> length, fault |-> fault,
                          copy |-> "response"])

(* The library's own event when the authentication is too old.             *)
AuthTimeout == Request("AuthTimeout", [copy |-> "response"])

(* The fixture: a test installs the action that denies an identifier, or   *)
(* the one that copies.                                                    *)
InstallAction(denied) ==
  /\ ecu.app = "fixture"
  /\ ecu' = [ecu EXCEPT !.denied = denied]
  /\ UNCHANGED <<reply, led, tester>>

(* The thread of the LED and the system work queue, of the sample.         *)
LedThread ==
  /\ ecu.app = "sample"
  /\ \/ \E configured \in BOOLEAN :
          /\ led = "boot"
          /\ ecu' = LedBoot(ecu, configured)
          /\ led' = IF configured THEN "run" ELSE "dead"
     \/ /\ led = "run"
        /\ ecu' = LedUpdate(ecu)
        /\ UNCHANGED led
  /\ UNCHANGED <<reply, tester>>

AsyncWork ==
  /\ \/ ecu.work = "queued" /\ ecu' = AsyncStart(ecu)
     \/ ecu.work = "loop" /\ ecu' = AsyncLoop(ecu)
     \/ ecu.work = "end" /\ ecu' = AsyncEnd(ecu)
  /\ UNCHANGED <<reply, led, tester>>
-----------------------------------------------------------------------------
Inside(region, addr, size) ==
  \A a \in addr .. addr + size - 1 :
    a \in region.base .. region.base + region.size - 1

(* A read or write of the memory by the default handlers is answered       *)
(* positively exactly if it is of at least one byte, not at address 0, and *)
(* all of it in the RAM or, for a read, all of it in the flash; on         *)
(* native_sim, if its end does not wrap.  Then it reads or writes just     *)
(* these bytes, and any other request leaves the memory alone.             *)
MemoryExact ==
  [][LET arg  == reply'.arg
         open == arg.size > 0 /\ arg.addr # 0
         ram  == Inside(Ram, arg.addr, arg.size)
         any  == ecu.native_sim /\ arg.addr + arg.size <= UINTPTR_MAX
     IN  CASE reply'.event = "ReadMemByAddr" /\ ecu.app = "fixture" ->
                /\ (reply'.code = "OK")
                     <=> /\ open /\ arg.size <= ResponseSize
                         /\ any \/ ram \/ Inside(Flash, arg.addr, arg.size)
                /\ reply'.code = "OK" =>
                     reply'.data = [i \in 1 .. arg.size |->
                                      ecu.memory[arg.addr + i - 1]]
                /\ ecu'.memory = ecu.memory
           [] reply'.event = "WriteMemByAddr" /\ ecu.app = "fixture" ->
                /\ (reply'.code = "OK") <=> (open /\ (any \/ ram))
                /\ ecu'.memory =
                     [a \in Addresses |->
                        IF reply'.code = "OK" /\ a >= arg.addr
                           /\ a < arg.addr + arg.size
                        THEN arg.data ELSE ecu.memory[a]]
           [] OTHER -> ecu'.memory = ecu.memory]_<<ecu, reply>>

(* uds.h, line 718: the default handler "Checks RAM and Flash memory for   *)
(* write access".  It does not hold on a board: a write to the flash is    *)
(* refused (as a test of the library expects).                             *)
FlashWritable ==
  /\ ecu.app = "fixture" /\ reply.event = "WriteMemByAddr"
  /\ reply.arg.size > 0 /\ reply.arg.addr # 0
  /\ Inside(Flash, reply.arg.addr, reply.arg.size)
  => reply.code = "OK"

(* mem_by_address.c, line 32: "Check if the address is within our fake     *)
(* memory range".  It does not hold: a range that ends with the last byte  *)
(* is refused, and the sum of address and size may wrap.                   *)
FakeMemoryExact ==
  /\ ecu.app = "sample" /\ reply.event \in {"ReadMemByAddr", "WriteMemByAddr"}
  /\ reply.arg.size \in 1 .. ResponseSize
  => (reply.code = "OK" <=> Inside(FakeMemory, reply.arg.addr, reply.arg.size))

(* What the service answers for the identifiers and the memory of the      *)
(* elements, cut and put together; the parts travel through a buffer of    *)
(* TempSize bytes.                                                         *)
Cut(element, whole) ==
  IF whole.code # "OK" THEN whole
  ELSE IF element.position + element.size > Len(whole.data)
  THEN [code |-> "GeneralReject", data |-> <<>>]
  ELSE [code |-> "OK",
        data |-> SubSeq(whole.data, element.position + 1,
                        element.position + element.size)]

Part(element) ==
  IF element.kind = "memory"
  THEN Answer(ReadMemoryByAddress(element.addr, element.size), ecu)
  ELSE Cut(element, Answer(ReadDataByIdentifier(element.id, FALSE), ecu))

Joined(acc, element, part) ==
  IF acc.code # "OK" THEN acc
  ELSE IF part.code # "OK" THEN [acc EXCEPT !.code = part.code]
  ELSE IF Len(acc.data) + Len(part.data) <= ResponseSize
  THEN [acc EXCEPT !.data = @ \o part.data]
  ELSE [acc EXCEPT !.code = IF element.kind = "memory"
                            THEN "RequestOutOfRange" ELSE "ResponseTooLong"]

Assembled(elements) ==
  FoldLeft(LAMBDA acc, element : Joined(acc, element, Part(element)),
           [code |-> "OK", data |-> <<>>], elements)

DefinedIds == {reg.id : reg \in Range(ecu.dynamic)}

Nested(reg) ==
  \E e \in Range(reg.elements) : e.kind = "id" /\ e.id \in DefinedIds

Agree(answer, meant) ==
  /\ answer.code = meant.code
  /\ answer.code = "OK" => answer.data = meant.data

SameAnswer(reg) ==
  Agree(Answer(ReadDataByIdentifier(reg.id, FALSE), ecu),
        Assembled(reg.elements))

(* "This ensures it will be handled exactly the same as if it was read by  *)
(* the UDS service": a dynamically defined identifier reads as the parts   *)
(* of its elements, whatever was read before; an element that is refused   *)
(* or too short refuses it.  Its elements are not themselves defined       *)
(* dynamically: see NestedReadsAsService.                                  *)
ReadsAsService ==
  \A reg \in Range(ecu.dynamic) : ~Nested(reg) => SameAnswer(reg)

(* The same for definitions made of other definitions.  The code keeps one *)
(* temp_buffer for all levels, and the parts of the inner identifier land  *)
(* behind what they are cut from: it does not hold.                        *)
NestedReadsAsService == \A reg \in Range(ecu.dynamic) : SameAnswer(reg)

(* What the sample protects is read exactly as long as the answers the     *)
(* tester got say that it may: after a proof of the last challenge and     *)
(* until it is taken back (a wrong proof, deAuthenticate, the timeout), or *)
(* after the key of the last seed, each seed being good for one key.  The  *)
(* challenge is 0 until the first is sent, and a proof of 0 is accepted    *)
(* then (README.md, section 5).                                            *)
SecretsGuarded == tester.entitled

(* "write_check and write are optional. Set to NULL for read-only data     *)
(* identifier": a request for an actor that is not there is answered.      *)
OptionalActors == reply.event # "none" => reply.code # "NullCall"

(* A started routine ends, and can be started again; one that is reported  *)
(* as finished has made all its turns.                                     *)
RoutineEnds ==
  /\ [](ecu.status = "SUCCESS" => ecu.progress = RoutineSteps)
  /\ (ecu.work # "idle" \/ ecu.status = "RUNNING")
       ~> (ecu.work = "idle" /\ ecu.status # "RUNNING")

(* data_by_id.c, line 310: "Thread that periodically updates the LED state *)
(* depending on the state and the override from IO Control", once requests *)
(* leave them alone.  It does not hold if the pin cannot be configured:    *)
(* the thread has returned, with led_data_mutex locked.                    *)
LedFollows ==
  \A v \in 0 .. 2 :
    <>[](v = IF ecu.io_active THEN ecu.io_led ELSE ecu.led_state)
      => <>[](ecu.pin = v)
=============================================================================
