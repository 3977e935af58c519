---------------------------- MODULE UdsServices ----------------------------
(***************************************************************************)
(* The services the UDS library answers itself: the default handlers for   *)
(* memory by address (lib/uds/memory_by_address.c) and for dynamically     *)
(* defined identifiers (lib/uds/dynamically_define_data_ids.c; the heap    *)
(* and the registration ids are the subject of UdsRegistry).               *)
(*                                                                         *)
(* A handler is an operator from the argument of the event and the state s *)
(* to what it does: a check to [code, apply], an action to [code, consume, *)
(* state].  s is a record:                                                 *)
(*   temp, len  temp_buffer and temp_buffer_len                            *)
(*   out        the response the iso14229 library is filling               *)
(*   native_sim is the build for the board native_sim?                     *)
(*   memory     the address space                                          *)
(*   dynamic    the dynamic registrations of the instance                  *)
(* and the fields of the application.                                      *)
(***************************************************************************)
EXTENDS UdsRegistrations

CONSTANTS
  AddressWidth,     \* of uintptr_t and size_t
  Ram, Flash,       \* [base, size] of the chosen memories
  TempSize,         \* sizeof(temp_buffer)
  ResponseSize      \* what the iso14229 library can send

ASSUME SizesOK == {AddressWidth, TempSize, ResponseSize} \subseteq Nat \ {0}

UINTPTR_MAX == 2 ^ AddressWidth - 1
Addresses == 0 .. UINTPTR_MAX

Checked(code, apply) == [code |-> code, apply |-> apply]
Did(code, consume, state) == [code |-> code, consume |-> consume,
                              state |-> state]
-----------------------------------------------------------------------------
(* The copy function of an event: uds_copy into temp_buffer, or the one of *)
(* the library into the response (external).                               *)
uds_copy(s, bytes) ==
  IF Len(bytes) > TempSize - s.len
  THEN [code |-> "ResponseTooLong", state |-> s]
  ELSE [code  |-> "OK",
        state |-> [s EXCEPT
          !.temp = [i \in 1 .. TempSize |->
                      IF i \in s.len + 1 .. s.len + Len(bytes)
                      THEN bytes[i - s.len] ELSE s.temp[i]],
          !.len = s.len + Len(bytes)]]

CopyToResponse(s, bytes) ==
  IF Len(s.out) + Len(bytes) > ResponseSize
  THEN [code |-> "ResponseTooLong", state |-> s]
  ELSE [code |-> "OK", state |-> [s EXCEPT !.out = s.out \o bytes]]

Copy(dest, s, bytes) ==
  IF dest = "temp" THEN uds_copy(s, bytes) ELSE CopyToResponse(s, bytes)
-----------------------------------------------------------------------------
(* Memory by address.                                                      *)
Within(region, addr, size) ==
  /\ addr >= region.base
  /\ (addr + size) % (UINTPTR_MAX + 1) <= region.base + region.size

(* Mutant: no test for overflow.                                           *)
is_memory_address_valid_wraps(s, addr, size, readonly) ==
  \/ s.native_sim
  \/ Within(Ram, addr, size)
  \/ readonly /\ Within(Flash, addr, size)

is_memory_address_valid(s, addr, size, readonly) ==
  /\ addr <= UINTPTR_MAX - size
  /\ \/ s.native_sim
     \/ Within(Ram, addr, size)
     \/ readonly /\ Within(Flash, addr, size)

DefaultMemoryCheck(arg, s, readonly) ==
  IF arg.addr # 0 /\ arg.size # 0
     /\ is_memory_address_valid(s, arg.addr, arg.size, readonly)
  THEN Checked("OK", TRUE) ELSE Checked("RequestOutOfRange", FALSE)

BytesAt(s, addr, size) ==
  [i \in 1 .. size |-> s.memory[(addr + i - 1) % (UINTPTR_MAX + 1)]]

uds_action_default_memory_by_addr_read(arg, s) ==
  LET copied == Copy(arg.copy, s, BytesAt(s, arg.addr, arg.size))
  IN  Did(IF copied.code = "OK" THEN "OK" ELSE "RequestOutOfRange", "unset",
          copied.state)

uds_action_default_memory_by_addr_write(arg, s) ==
  Did("OK", "unset",
      [s EXCEPT !.memory =
         [a \in Addresses |->
            IF a \in {(arg.addr + i) % (UINTPTR_MAX + 1) :
                        i \in 0 .. arg.size - 1}
            THEN arg.data ELSE @[a]]])
-----------------------------------------------------------------------------
(* Dynamically defined identifiers.  An element is a part of an identifier *)
(* or of the memory; a definition is a dynamic registration that has only  *)
(* a read actor, with its elements.                                        *)
IdElement(id, position, size) ==
  [kind |-> "id", id |-> id, position |-> position, size |-> size]
MemoryElement(addr, size) ==
  [kind |-> "memory", addr |-> addr, size |-> size]

Null == Actor("NULL", "NULL")

Definition(id, elements) ==
  [type |-> "DATA_IDENTIFIER", id |-> id, elements |-> elements,
   actors |->
     [read  |-> Actor("uds_dynamic_data_by_id_read_data_by_id_check",
                      "uds_dynamic_data_by_id_read_data_by_id_action"),
      write |-> Null, io_control |-> Null]]

DefinitionOf(s, id) == SelectSeq(s.dynamic, LAMBDA reg : reg.id = id)

uds_check_default_dynamically_define_data_ids(arg) ==
  Checked("OK", arg.type \in {"define", "clear"})

AddElement(s, id, element) ==
  IF DefinitionOf(s, id) = <<>>
  THEN [s EXCEPT !.dynamic = Append(@, Definition(id, <<element>>))]
  ELSE [s EXCEPT !.dynamic =
          [k \in DOMAIN @ |->
             IF @[k].id = id
             THEN [@[k] EXCEPT !.elements = Append(@, element)] ELSE @[k]]]

RemoveIds(s, ids) ==
  [s EXCEPT !.dynamic = SelectSeq(@, LAMBDA reg : reg.id \notin ids)]

uds_action_default_dynamically_define_data_ids(arg, s) ==
  Did("OK", "yes",
      IF arg.type = "define" THEN AddElement(s, arg.id, arg.element)
      ELSE RemoveIds(s, arg.ids))

uds_dynamic_data_by_id_read_data_by_id_check(arg, reg) ==
  Checked("OK", arg.id = reg.id)

(* After the event of an element: the part of it is handed to the copy     *)
(* function of the event for the whole identifier.                         *)
(* Mutant: the length of what came back is not compared.                   *)
TakePartUnchecked(element, dest, child) ==
  Copy(dest, child, SubSeq(child.temp, element.position + 1,
                           element.position + element.size))

TakePart(element, dest, child) ==
  IF element.position + element.size > child.len
  THEN [code |-> "GeneralReject", state |-> child]
  ELSE Copy(dest, child, SubSeq(child.temp, element.position + 1,
                                element.position + element.size))
=============================================================================
