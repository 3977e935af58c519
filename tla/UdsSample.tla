----------------------------- MODULE UdsSample -----------------------------
(***************************************************************************)
(* The application of samples/uds: its data identifiers, memory by         *)
(* address, authentication, security access, routines and the LED.  The    *)
(* fields of s it keeps:                                                   *)
(*   primitive                         primitive_type                      *)
(*   fake_memory                       the array of mem_by_address.c       *)
(*   auth, seeed                       auth_data                           *)
(*   current_seed, seed_requested      of the security access              *)
(*   securityLevel                     of the iso14229 server              *)
(*   led_state, io_led, io_active      led_data                            *)
(*   led_mutex                         is led_data_mutex locked for good?  *)
(*   pin                               the level of the LED's pin          *)
(*   status, progress, force_stop      async_work_data                     *)
(*   work                              where async_routine_work is: idle,  *)
(*                                     queued, or at a step of its handler *)
(* Random values, and whether a driver, the kernel or the crypto library   *)
(* fails, come with the argument of the event.  Encryption is a one-to-one *)
(* map, here the identity on seeds.  A handler that waits for ever has the *)
(* code "Blocked", one that leaves its array the code "OutOfBounds".       *)
(***************************************************************************)
EXTENDS UdsServices

CONSTANTS
  Seeds,            \* random seeds of either service, 0 among them
  FakeMemory,       \* [base, size]: fake_memory_start_addr and its size
  RoutineSteps      \* turns of the asynchronous routine (3000)

(* The data identifiers, and what they hold besides primitive_type; the    *)
(* strings are cut to fewer bytes.                                         *)
primitive_type_id == 80
string_id == 256
authenticated_type_id == 336
led_id == 512
secure_data_id == 768

string == <<1, 2>>
authenticated_type == <<66>>
secure_data == <<77, 78>>
-----------------------------------------------------------------------------
(* data_by_id.c.                                                           *)
read_data_by_id_check(arg, s) ==
  IF arg.id = authenticated_type_id /\ ~s.auth
  THEN Checked("ConditionsNotCorrect", FALSE) ELSE Checked("OK", TRUE)

CopyBytes(arg, s, consume, bytes) ==
  LET copied == Copy(arg.copy, s, bytes)
  IN  Did(copied.code, consume, copied.state)

(* primitive_type goes out most significant byte first.                    *)
read_data_by_id_action(arg, s) ==
  CopyBytes(arg, s, "yes",
    IF arg.id = primitive_type_id
    THEN <<s.primitive \div 256, s.primitive % 256>>
    ELSE IF arg.id = string_id THEN string ELSE authenticated_type)

write_primitive_data_by_id_action(arg, s) ==
  Did("OK", "yes", [s EXCEPT !.primitive = arg.data[1] * 256 + arg.data[2]])

read_led_action(arg, s) ==
  IF arg.fault THEN Did("ConditionsNotCorrect", "unset", s)
  ELSE CopyBytes(arg, s, "yes", <<s.pin>>)

(* An action that locks led_data_mutex, once it has it.                    *)
WithLed(s, done) == IF s.led_mutex THEN Did("Blocked", "unset", s) ELSE done

write_led_action(arg, s) ==
  IF Len(arg.data) < 1
  THEN Did("IncorrectMessageLengthOrInvalidFormat", "unset", s)
  ELSE WithLed(s, Did("OK", "yes", [s EXCEPT !.led_state = arg.data[1]]))

io_ctrl_led_action(arg, s) ==
  CASE arg.param = "adjust" /\ Len(arg.state) >= 1 ->
         WithLed(s, IF arg.fault THEN Did("ConditionsNotCorrect", "unset", s)
                    ELSE CopyBytes(arg, [s EXCEPT !.io_active = TRUE,
                                                  !.io_led = arg.state[1]],
                                   "unset", <<s.pin>>))
    [] arg.param = "reset" ->
         WithLed(s, CopyBytes(arg, [s EXCEPT !.io_led = 0, !.led_state = 0],
                              "unset", <<0>>))
    [] arg.param = "return" ->
         WithLed(s, CopyBytes(arg, [s EXCEPT !.io_active = FALSE],
                              "unset", <<s.led_state>>))
    [] OTHER -> Did("RequestOutOfRange", "unset", s)

(* The thread of the LED: its first turn, and every other.  If the pin     *)
(* cannot be configured it returns with the mutex locked.                  *)
LedBoot(s, configured) ==
  IF configured
  THEN [s EXCEPT !.led_state = 0, !.io_active = FALSE, !.io_led = 0]
  ELSE [s EXCEPT !.led_mutex = TRUE]

LedUpdate(s) ==
  [s EXCEPT !.pin = IF s.io_active THEN s.io_led ELSE s.led_state]
-----------------------------------------------------------------------------
(* mem_by_address.c: the same check for reading and for writing.  The sum  *)
(* is one of uint32_t and may wrap; a range that then leaves the array has *)
(* no defined result.                                                      *)
mem_by_address_check(arg) ==
  Checked("OK",
          /\ arg.addr >= FakeMemory.base
          /\ (arg.addr + arg.size) % (UINTPTR_MAX + 1)
               < FakeMemory.base + FakeMemory.size)

First(arg) == arg.addr - FakeMemory.base

OutOfArray(arg) == First(arg) + arg.size > FakeMemory.size

read_mem_by_address_action(arg, s) ==
  LET copied == CopyBytes(arg, s, "unset",
                  [i \in 1 .. arg.size |->
                     IF First(arg) + i \in DOMAIN s.fake_memory
                     THEN s.fake_memory[First(arg) + i] ELSE 0])
  IN  IF OutOfArray(arg) /\ copied.code = "OK"
      THEN Did("OutOfBounds", "unset", s) ELSE copied

write_mem_by_address_action(arg, s) ==
  IF OutOfArray(arg) THEN Did("OutOfBounds", "unset", s)
  ELSE Did("OK", "unset",
           [s EXCEPT !.fake_memory =
              [i \in DOMAIN @ |->
                 IF i \in First(arg) + 1 .. First(arg) + arg.size
                 THEN arg.data ELSE @[i]]])
-----------------------------------------------------------------------------
(* authentication.c.                                                       *)
auth_action(arg, s) ==
  CASE arg.type = "RCFA" ->
         IF ~arg.algorithm THEN Did("ConditionsNotCorrect", "unset", s)
         ELSE IF arg.fault THEN Did("GeneralReject", "unset", s)
         ELSE Did("OK", "unset",
                  Copy(arg.copy, [s EXCEPT !.seeed = arg.random],
                       <<arg.random>>).state)
    [] arg.type = "VPOWNU" ->
         IF ~arg.algorithm THEN Did("ConditionsNotCorrect", "unset", s)
         ELSE IF ~arg.length
         THEN Did("IncorrectMessageLengthOrInvalidFormat", "unset", s)
         ELSE IF arg.fault THEN Did("GeneralReject", "unset", s)
         ELSE IF arg.proof # s.seeed
         THEN Did("InvalidKey", "unset", [s EXCEPT !.auth = FALSE])
         ELSE Did("OK", "unset", [s EXCEPT !.auth = TRUE])
    [] arg.type = "DA" -> Did("OK", "unset", [s EXCEPT !.auth = FALSE])
    [] OTHER -> Did("SubFunctionNotSupported", "unset", s)

auth_timeout_action(arg, s) == Did("OK", "yes", [s EXCEPT !.auth = FALSE])
-----------------------------------------------------------------------------
(* security_access.c.  A key is named by the seed it is the negation of.   *)
security_access_check(arg) == Checked("OK", arg.level = 1)

security_access_request_seed_action(arg, s) ==
  CopyBytes(arg, [s EXCEPT !.current_seed = arg.random,
                           !.seed_requested = TRUE], "yes", <<arg.random>>)

(* Mutant: the seed can be used until a key fits.                          *)
validate_key_action_retry(arg, s) ==
  IF ~s.seed_requested THEN Did("RequestSequenceError", "yes", s)
  ELSE IF ~arg.length
  THEN Did("IncorrectMessageLengthOrInvalidFormat", "yes", s)
  ELSE IF arg.key = s.current_seed
  THEN Did("OK", "yes", [s EXCEPT !.seed_requested = FALSE])
  ELSE Did("InvalidKey", "yes", s)

security_access_validate_key_action(arg, s) ==
  IF ~s.seed_requested THEN Did("RequestSequenceError", "yes", s)
  ELSE IF ~arg.length
  THEN Did("IncorrectMessageLengthOrInvalidFormat", "yes", s)
  ELSE Did(IF arg.key = s.current_seed THEN "OK" ELSE "InvalidKey", "yes",
           [s EXCEPT !.seed_requested = FALSE])

read_secure_data_check(arg, s) ==
  IF s.securityLevel < 1 THEN Checked("SecurityAccessDenied", TRUE)
  ELSE Checked("OK", TRUE)

read_secure_data_action(arg, s) == CopyBytes(arg, s, "yes", secure_data)
-----------------------------------------------------------------------------
(* routine_control.c: a routine that answers at once, and one that runs on *)
(* the system work queue.                                                  *)
SYNCHRONOUS_ROUTINE_ID == 4660
ASYNCHRONOUS_ROUTINE_ID == 22136

sync_routine_control_check(arg) ==
  IF arg.length THEN Checked("OK", TRUE)
  ELSE Checked("IncorrectMessageLengthOrInvalidFormat", FALSE)

sync_routine_control_action(arg, s) ==
  CopyBytes(arg, s, "yes", <<255 - arg.input>>)

async_work_status == [IDLE |-> 0, SUCCESS |-> 1, STOPPED |-> 2, RUNNING |-> 3]

async_routine_control_action(arg, s) ==
  CASE arg.type = "start" ->
         IF s.work # "idle" \/ s.status = "RUNNING"
         THEN Did("RequestSequenceError", "yes", s)
         ELSE IF arg.fault THEN Did("ConditionsNotCorrect", "yes", s)
         ELSE Did("OK", "yes", [s EXCEPT !.work = "queued"])
    [] arg.type = "stop" ->
         IF s.status # "RUNNING" THEN Did("RequestSequenceError", "yes", s)
         ELSE CopyBytes(arg, [s EXCEPT !.force_stop = TRUE,
                                !.work = IF @ = "queued" THEN "idle" ELSE @],
                        "yes", <<async_work_status["STOPPED"]>>)
    [] arg.type = "results" ->
         CopyBytes(arg, s, "yes", <<async_work_status[s.status], s.progress>>)
    [] OTHER -> Did("SubFunctionNotSupported", "yes", s)

(* async_action, from one hold of the mutex to the next: the start, a turn *)
(* of the loop and the end.                                                *)
AsyncStart(s) ==
  IF s.status = "RUNNING" THEN [s EXCEPT !.work = "idle"]
  ELSE [s EXCEPT !.work = "loop", !.status = "RUNNING", !.progress = 0,
                 !.force_stop = FALSE]

(* Mutant: a stopped routine leaves without a status.                      *)
AsyncLoopSilent(s) ==
  IF s.force_stop THEN [s EXCEPT !.work = "idle"]
  ELSE [s EXCEPT !.progress = @ + 1,
                 !.work = IF s.progress + 1 = RoutineSteps THEN "end" ELSE @]

AsyncLoop(s) ==
  IF s.force_stop THEN [s EXCEPT !.work = "idle", !.status = "STOPPED"]
  ELSE [s EXCEPT !.progress = @ + 1,
                 !.work = IF s.progress + 1 = RoutineSteps THEN "end" ELSE @]

AsyncEnd(s) == [s EXCEPT !.work = "idle", !.status = "SUCCESS"]
=============================================================================
