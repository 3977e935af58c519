--------------------------- MODULE MCUdsServices ---------------------------
(***************************************************************************)
(* UdsEcu with small inputs, next to the lists of UdsEventFlow and the     *)
(* sessions of UdsSession.  A behaviour looks at one group of services     *)
(* (focus).  MaxElements bounds the elements of the definitions, together. *)
(***************************************************************************)
EXTENDS UdsEcu, UdsEventFlow, MCUdsSession

CONSTANT MaxElements

VARIABLE focus

others == <<lists, vars, focus>>

mcvars == <<ecuVars, others>>

MCRam == [base |-> 10, size |-> 3]
MCFlash == [base |-> 3, size |-> 4]

MCFakeMemory == [base |-> 4, size |-> 3]

DynamicIds == {11, 12}

(* What the identifiers 11 and 12 can be made of.                          *)
ElementChoices(id) ==
  IF id = 11
  THEN {IdElement(data_id_r, 1, 1), IdElement(data_id_r, 1, 2),
        IdElement(data_id_rw, 0, 1), MemoryElement(11, 2)}
  ELSE {IdElement(data_id_rw, 0, 2), IdElement(11, 0, 1)}

Elems == FoldLeft(LAMBDA n, reg : n + Len(reg.elements), 0, ecu.dynamic)

DataRequests ==
  {ReadDataByIdentifier(id, FALSE) : id \in DynamicIds}
  \cup {DefineDataIdentifier(x[1], x[2]) :
          x \in {y \in DynamicIds \X UNION {ElementChoices(id) :
                                           id \in DynamicIds} :
                   y[2] \in ElementChoices(y[1]) /\ Elems < MaxElements}}
  \cup {ClearDataIdentifiers(ids) :
          ids \in {x \in {{11}, DynamicIds} :
                     reply.event = "ReadDataByIdent"}}

Unlock ==
  {Authentication("RCFA", algorithm, 0, TRUE, random, fault) :
     random \in Seeds, algorithm, fault \in BOOLEAN}
  \cup {Authentication("VPOWNU", algorithm, proof, length, 0, fault) :
          proof \in Seeds, algorithm, length, fault \in BOOLEAN}
  \cup {Authentication(type, TRUE, 0, TRUE, 0, FALSE) :
          type \in {"DA", "other"}}
  \cup {RequestSeed(level, random) : level \in {1, 3}, random \in Seeds}
  \cup {SendKey(level, key, length) :
          level \in {1, 3}, key \in Seeds, length \in BOOLEAN}
  \cup {ReadDataByIdentifier(id, FALSE) :
          id \in {authenticated_type_id, secure_data_id, 999}}
  \cup {AuthTimeout}

(* A read, or a write and then a read.                                     *)
MemoryRequests ==
  {WriteMemoryByAddress(addr, size, 200) :
     addr, size \in IF reply.event = "none" THEN Addresses ELSE {}}
  \cup {ReadMemoryByAddress(addr, size) :
          addr, size \in IF reply.event # "ReadMemByAddr" THEN Addresses
                        ELSE {}}

RoutineRequests ==
  {RoutineControl(ASYNCHRONOUS_ROUTINE_ID, type, 0, TRUE, fault) :
     type \in {"start", "stop", "results", "other"}, fault \in BOOLEAN}
  \cup {RoutineControl(SYNCHRONOUS_ROUTINE_ID, "start", 5, length, FALSE) :
          length \in BOOLEAN}
  \cup {RoutineControl(1, "start", 0, TRUE, FALSE)}

LedRequests ==
  {WriteDataByIdentifier(led_id, data) : data \in {<<>>, <<1>>, <<2>>}}
  \cup {ReadDataByIdentifier(led_id, fault) : fault \in BOOLEAN}
  \cup {WriteDataByIdentifier(primitive_type_id, <<2, 1>>)}
  \cup {InputOutputControl(param, state, fault) :
          param \in {"adjust", "reset", "return", "other"},
          state \in {<<>>, <<1>>, <<2>>}, fault \in BOOLEAN}

ReadOnlyRequests ==
  {WriteDataByIdentifier(id, <<2, 1>>) :
     id \in DynamicIds \cup {data_id_r}}

(* What the tester of a behaviour may send next.                           *)
Requests ==
  CASE focus = "data" -> DataRequests
    [] focus = "unlock" -> Unlock
    [] focus \in {"memory", "fake"} -> MemoryRequests
    [] focus = "routine" -> RoutineRequests
    [] focus = "led" -> LedRequests
    [] OTHER -> {}

MCInit ==
  /\ static = <<>> /\ dynamic = <<>> /\ registered = <<>> /\ macros = 0
  /\ \/ /\ focus \in {"session", "dispatch", "macros", "unlock", "routine", "led", "fake"}
        /\ Start("sample", FALSE)
     \/ focus = "data" /\ Start("fixture", FALSE)
     \/ focus = "memory" /\ \E native \in BOOLEAN : Start("fixture", native)
  /\ Init /\ (focus # "session" => order = <<"session", "custom", "link">>)

EcuNext ==
  /\ \/ \E request \in Requests : Serve(request)
     \/ focus = "data" /\ InstallAction({data_id_r} \ ecu.denied)
     \/ focus = "led" /\ LedThread
     \/ AsyncWork
  /\ UNCHANGED <<lists, vars>>

FlowNext ==
  /\ \/ focus = "dispatch" /\ Register
     \/ focus = "macros" /\ UseMacro
  /\ UNCHANGED <<ecuVars, vars>>

SessionNext == focus = "session" /\ Next /\ UNCHANGED <<ecuVars, lists>>

MCNext == (EcuNext \/ FlowNext \/ SessionNext) /\ UNCHANGED focus

(* The scheduler runs the thread of the LED again and again, and the work  *)
(* queue whatever is in it.                                                *)
MCSpec ==
  /\ MCInit /\ [][MCNext]_mcvars
  /\ WF_mcvars(focus = "led" /\ LedThread /\ UNCHANGED others)
  /\ WF_mcvars(AsyncWork /\ UNCHANGED others)

(* Only the fixture's data identifiers and defined ones, written too.      *)
DataInit == MCInit /\ focus = "data"
DataNext ==
  /\ \E request \in DataRequests \cup ReadOnlyRequests : Serve(request)
  /\ UNCHANGED others
DataSpec == DataInit /\ [][DataNext]_mcvars
=============================================================================
