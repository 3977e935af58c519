---------------------------- MODULE UdsEventFlow ----------------------------
(***************************************************************************)
(* The way of an event to the actors, for every short list of              *)
(* registrations: HandleEvent against the event flow that README.rst       *)
(* describes, and the macros with the event tables against the events      *)
(* that uds.h names for the actors.  The lists grow by one registration,   *)
(* or by one use of a macro, in a step.                                    *)
(***************************************************************************)
EXTENDS UdsRegistrations

CONSTANTS MaxStatic, MaxDynamic, Instances, MaxMacros

VARIABLES
  static, dynamic,  \* registrations, by what they do with an event
  registered,       \* what the used macros have registered, in order
  macros            \* how many were used

lists == <<static, dynamic, registered, macros>>

(* What a registration can do with an event; "instance" is whom it was     *)
(* registered for.                                                         *)
Behaviours ==
  [type : BOOLEAN, check : {"none", "OK", "NRC_check"}, apply : BOOLEAN,
   action : {"none", "OK", "NRC_action"}, consume : {"unset", "no", "yes"}]

Registrations == [instance : Instances, does : Behaviours]

Handler ==
  [r \in Registrations |-> [s \in Instances |->
     [type |-> r.does.type, check |-> r.does.check, apply |-> r.does.apply,
      action |-> r.does.action, consume |-> r.does.consume, next |-> s]]]

Event(instance, default_nrc) ==
  HandleEvent(static, dynamic, Handler, default_nrc, instance)

(* What the entries of the table answer if no handler processes the event. *)
Defaults == {entry.default_nrc : entry \in uds_event_handler_data}

(* One behaviour for every way through uds_check_and_act_on_event.         *)
Behaviour(type, check, apply, action, consume) ==
  [type |-> type, check |-> check, apply |-> apply, action |-> action,
   consume |-> consume]

Representatives ==
  {Behaviour(FALSE, "OK", TRUE, "OK", "yes"),
   Behaviour(TRUE, "none", FALSE, "none", "unset"),
   Behaviour(TRUE, "NRC_check", TRUE, "OK", "yes"),
   Behaviour(TRUE, "OK", FALSE, "OK", "yes"),
   Behaviour(TRUE, "OK", TRUE, "none", "unset")}
  \cup [type : {TRUE}, check : {"OK"}, apply : {TRUE},
        action : {"OK", "NRC_action"}, consume : {"yes", "no", "unset"}]

Register ==
  \E r \in [instance : Instances, does : Representatives] :
    /\ \/ /\ Len(static) < MaxStatic
          /\ static' = Append(static, r)
          /\ UNCHANGED dynamic
       \/ /\ Len(dynamic) < MaxDynamic
          /\ dynamic' = Append(dynamic, r)
          /\ UNCHANGED static
    /\ UNCHANGED <<registered, macros>>

(* One use of each macro, with actors named after their fields; those for  *)
(* an id with two ids.                                                     *)
Catalogue ==
  {READ_DTC_INFO_MANY("check", "actor", <<1, 2>>),
   READ_DTC_INFO_ALL("check", "actor"), LINK_CONTROL_DEFAULT}
  \cup {<<reg>> : reg \in
    {READ_DTC_INFO("check", "actor", 2),
     MEMORY("check", "read", "check", "write"), MEMORY_DEFAULT,
     ECU_RESET("check", "ecu_reset", "check", "execute_scheduled_reset"),
     ECU_DEFAULT_HARD_RESET,
     DIAG_SESSION_CTRL("check", "diag_sess_ctrl", "check", "session_timeout"),
     CLEAR_DIAG_INFO("check", "actor"),
     ROUTINE_CONTROL(1, "check", "actor"), ROUTINE_CONTROL(2, "check", "actor"),
     SECURITY_ACCESS("check", "request_seed", "check", "validate_key"),
     COMMUNICATION_CONTROL("check", "actor"),
     CONTROL_DTC_SETTING("check", "actor"),
     DYNAMICALLY_DEFINE_DATA_IDS("check", "actor"),
     DYNAMICALLY_DEFINE_DATA_IDS_DEFAULT,
     AUTHENTICATION("check", "auth", "check", "timeout"),
     UPLOAD_DOWNLOAD}
    \cup {DATA_BY_IDENTIFIER(id, Actor("check", "read"),
             Actor("check", "write"), Actor("check", "io_control")) :
             id \in {1, 2}}}

UseMacro ==
  /\ macros < MaxMacros
  /\ \E regs \in Catalogue : registered' = registered \o regs
  /\ macros' = macros + 1
  /\ UNCHANGED <<static, dynamic>>
-----------------------------------------------------------------------------
All == static \o dynamic

(* The registration at i ends the iteration: its check or its action       *)
(* fails, or its action consumes the event.                                *)
EndsAt(i) ==
  LET d == All[i].does
      approved == d.type /\ d.check = "OK" /\ d.apply /\ d.action # "none"
  IN  \/ d.type /\ d.check \notin {"OK", "none"}
      \/ approved /\ d.action # "OK"
      \/ approved /\ d.consume = "yes"
      \/ approved /\ d.consume = "unset" /\ i <= Len(static)

Reached(i) == \A j \in 1 .. (i - 1) : ~EndsAt(j)

Executed(i) ==
  LET d == All[i].does
  IN  Reached(i) /\ d.type /\ d.check = "OK" /\ d.apply /\ d.action # "none"

(* The registrations up to i whose action is called.                       *)
ExecutedTo(i) == {j \in 1 .. i : Executed(j)}

(* "iterates through registered event handlers (static first, then         *)
(* dynamic) ... If consume_event is true, iteration stops": the actions    *)
(* called are those of the approving registrations up to the first that    *)
(* ends the iteration, each once and in order.                             *)
CallsInOrder ==
  \A n \in Instances, default_nrc \in Defaults :
    LET calls == Event(n, default_nrc).calls
    IN  /\ Len(calls) = Cardinality(ExecutedTo(Len(All)))
        /\ \A i \in 1 .. Len(All) :
             Executed(i) => calls[Cardinality(ExecutedTo(i))] = All[i]

(* Some action was called, none that was called failed and no check did.   *)
Processed == \E i \in 1 .. Len(All) : Executed(i)
NothingFailed ==
  \A i \in 1 .. Len(All) :
    Reached(i) =>
      /\ Executed(i) => All[i].does.action = "OK"
      /\ All[i].does.type => All[i].does.check \in {"OK", "none"}

(* The answer is positive exactly if nothing on the way failed and some    *)
(* action was called; or none was, and the event's default is a positive   *)
(* response, as it is for the events of diag_session_ctrl.c.               *)
PositiveOnlyIfProcessed ==
  \A n \in Instances, default_nrc \in Defaults :
    Event(n, default_nrc).code = "OK" <=>
      NothingFailed /\ (Processed \/ default_nrc = "OK")

(* The event flow of README.rst, lines 137-148, but for what is answered   *)
(* if no handler processes the event: there the table decides.             *)
DispatchExact == CallsInOrder /\ PositiveOnlyIfProcessed

(* README.rst, line 148: "If no handler processes the event, a negative    *)
(* response is sent to the client", for the events of a request.  It does  *)
(* not hold: a session change nobody handles is answered positively.       *)
UnprocessedIsRefused ==
  \A n \in Instances, entry \in uds_event_handler_data :
    /\ entry.event \notin {"SessionTimeout", "AuthTimeout", "DoScheduledReset"}
    /\ ~Processed
    => Event(n, entry.default_nrc).code # "OK"

(* "Pointer to associated the UDS server instance": only handlers that     *)
(* were registered for the instance get its events.                        *)
OnlyOwnHandlers ==
  \A n \in Instances :
    \A i \in 1 .. Len(Event(n, "OK").calls) :
      Event(n, "OK").calls[i].instance = n
-----------------------------------------------------------------------------
(* The comments of struct uds_registration_t: the event an actor is for.   *)
(* They disagree about dynamically_define_data_ids: the comment of the     *)
(* struct (line 567) names UDS_EVT_DynamicDefineDataId, the one of its     *)
(* actor (line 582), a copy of the one before, UDS_EVT_CommCtrl.  The      *)
(* first is taken.                                                         *)
Documented ==
  {<<"DIAG_SESSION_CTRL", "diag_sess_ctrl", "DiagSessCtrl">>,
   <<"DIAG_SESSION_CTRL", "session_timeout", "SessionTimeout">>,
   <<"ECU_RESET", "ecu_reset", "EcuReset">>,
   <<"ECU_RESET", "execute_scheduled_reset", "DoScheduledReset">>,
   <<"DATA_IDENTIFIER", "read", "ReadDataByIdent">>,
   <<"DATA_IDENTIFIER", "write", "WriteDataByIdent">>,
   <<"DATA_IDENTIFIER", "io_control", "IOControl">>,
   <<"MEMORY", "read", "ReadMemByAddr">>,
   <<"MEMORY", "write", "WriteMemByAddr">>,
   <<"READ_DTC_INFO", "actor", "ReadDTCInformation">>,
   <<"CONTROL_DTC_SETTING", "actor", "ControlDTCSetting">>,
   <<"CLEAR_DIAG_INFO", "actor", "ClearDiagnosticInfo">>,
   <<"ROUTINE_CONTROL", "actor", "RoutineCtrl">>,
   <<"SECURITY_ACCESS", "request_seed", "SecAccessRequestSeed">>,
   <<"SECURITY_ACCESS", "validate_key", "SecAccessValidateKey">>,
   <<"COMMUNICATION_CONTROL", "actor", "CommCtrl">>,
   <<"DYNAMIC_DEFINE_DATA_IDS", "actor", "DynamicDefineDataId">>,
   <<"LINK_CONTROL", "actor", "LinkControl">>,
   <<"AUTHENTICATION", "auth", "Auth">>,
   <<"AUTHENTICATION", "timeout", "AuthTimeout">>}
  \cup {<<"UPLOAD_DOWNLOAD", "none", event>> :
           event \in {"RequestDownload", "RequestUpload", "TransferData",
                      "RequestTransferExit", "RequestFileTransfer"}}

(* uds.h has them as enum uds_read_dtc_info_subfunc.                       *)
Subfunctions == (1 .. 14) \cup (20 .. 26) \cup {66, 85, 86}

(* The actors an event calls, if every check agrees and none consumes it.  *)
Called(event, id) ==
  LET entry == CHOOSE e \in uds_event_handler_data : e.event = event
      handler ==
        [reg \in Range(registered) |-> [s \in {"any"} |->
           Reach(entry, reg, id, [code |-> "OK", apply |-> TRUE],
                 [code |-> "OK", consume |-> "no", state |-> s], s)]]
      calls == HandleEvent(registered, <<>>, handler, entry.default_nrc, "any").calls
  IN  [k \in 1 .. Len(calls) |-> calls[k].actors[entry.field].action]

(* The registrations up to n that an event is meant for: those of its type *)
(* and, for one with an identifier, a routine or a subfunction, of that id.*)
MeantTo(n, type, id) ==
  {k \in 1 .. n : registered[k].type = type /\ registered[k].id \in {NoId, id}}

Reaches(type, field, event, id) ==
  LET called == Called(event, id)
  IN  /\ Len(called) = Cardinality(MeantTo(Len(registered), type, id))
      /\ \A k \in MeantTo(Len(registered), type, id) :
           called[Cardinality(MeantTo(k, type, id))] =
             registered[k].actors[field].action

(* An event calls exactly the actors that are documented for it, and for   *)
(* an event with an id those of that id: each registration's once, in the  *)
(* order of registration.  A macro for several subfunctions leaves none    *)
(* out.                                                                    *)
EventReachesItsActor ==
  /\ \A doc \in Documented, id \in {NoId, 1, 2, 86} :
       Reaches(doc[1], doc[2], doc[3], id)
  /\ {reg.id : reg \in Range(READ_DTC_INFO_ALL("check", "actor"))}
       = Subfunctions
=============================================================================
