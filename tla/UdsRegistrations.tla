-------------------------- MODULE UdsRegistrations --------------------------
(***************************************************************************)
(* How an application registers for an event: the registration macros of   *)
(* include/ardep/uds_macro.h, and the event tables of lib/uds/*.c that say *)
(* which registrations an event is for, which of their actors it calls and *)
(* what is answered if there is none.                                      *)
(*                                                                         *)
(* A registration keeps its type, its id (the identifier, routine or       *)
(* subfunction it is for; NoId if the type has none) and its actors by the *)
(* name of their field in struct uds_registration_t.  The instance and the *)
(* user context are left out.  Functions are their names, NULL is "NULL".  *)
(***************************************************************************)
EXTENDS Naturals, FiniteSets, UdsDispatch

NoId == 0

Actor(check, action) == [check |-> check, action |-> action]

Registration(type, id, actors) ==
  [type |-> type, id |-> id, actors |-> actors]
-----------------------------------------------------------------------------
(* The macros, each without UDS_REGISTER_ and _HANDLER.                    *)
READ_DTC_INFO(check, act, subfunc_id) ==
  Registration("READ_DTC_INFO", subfunc_id, [actor |-> Actor(check, act)])

(* APPLY_n is APPLY_(n-1) and one registration for the last, for n <= 24:  *)
(* one for each, in their order.                                           *)
READ_DTC_INFO_APPLY(check, act, subfuncs) ==
  [k \in 1 .. Len(subfuncs) |-> READ_DTC_INFO(check, act, subfuncs[k])]

READ_DTC_INFO_MANY(check, act, subfuncs) ==
  READ_DTC_INFO_APPLY(check, act, subfuncs)

READ_DTC_INFO_ALL(check, act) ==
  READ_DTC_INFO_APPLY(check, act,
    <<1, 2, 3, 4, 5, 6, 7, 8, 9, 10, 11, 12, 13, 14,
      20, 21, 22, 23, 24, 25, 26, 66, 85, 86>>)

MEMORY(read_check, read, write_check, write) ==
  Registration("MEMORY", NoId, [read  |-> Actor(read_check, read),
                                write |-> Actor(write_check, write)])

MEMORY_DEFAULT ==
  MEMORY("uds_check_default_memory_by_addr_read",
         "uds_action_default_memory_by_addr_read",
         "uds_check_default_memory_by_addr_write",
         "uds_action_default_memory_by_addr_write")

ECU_RESET(reset_check, reset, scheduled_check, scheduled) ==
  Registration("ECU_RESET", NoId,
               [ecu_reset               |-> Actor(reset_check, reset),
                execute_scheduled_reset |-> Actor(scheduled_check, scheduled)])

ECU_DEFAULT_HARD_RESET ==
  ECU_RESET("uds_check_ecu_hard_reset", "uds_action_ecu_hard_reset",
            "uds_check_execute_scheduled_reset",
            "uds_action_execute_scheduled_reset")

DATA_BY_IDENTIFIER(data_id, read, write, io_control) ==
  Registration("DATA_IDENTIFIER", data_id,
               [read |-> read, write |-> write, io_control |-> io_control])

DIAG_SESSION_CTRL(ctrl_check, ctrl, timeout_check, timeout) ==
  Registration("DIAG_SESSION_CTRL", NoId,
               [diag_sess_ctrl  |-> Actor(ctrl_check, ctrl),
                session_timeout |-> Actor(timeout_check, timeout)])

CLEAR_DIAG_INFO(check, act) ==
  Registration("CLEAR_DIAG_INFO", NoId, [actor |-> Actor(check, act)])

ROUTINE_CONTROL(routine_id, check, act) ==
  Registration("ROUTINE_CONTROL", routine_id, [actor |-> Actor(check, act)])

SECURITY_ACCESS(seed_check, seed, key_check, key) ==
  Registration("SECURITY_ACCESS", NoId,
               [request_seed |-> Actor(seed_check, seed),
                validate_key |-> Actor(key_check, key)])

COMMUNICATION_CONTROL(check, act) ==
  Registration("COMMUNICATION_CONTROL", NoId, [actor |-> Actor(check, act)])

CONTROL_DTC_SETTING(check, act) ==
  Registration("CONTROL_DTC_SETTING", NoId, [actor |-> Actor(check, act)])

DYNAMICALLY_DEFINE_DATA_IDS(check, act) ==
  Registration("DYNAMIC_DEFINE_DATA_IDS", NoId, [actor |-> Actor(check, act)])

DYNAMICALLY_DEFINE_DATA_IDS_DEFAULT ==
  DYNAMICALLY_DEFINE_DATA_IDS("uds_check_default_dynamically_define_data_ids",
                              "uds_action_default_dynamically_define_data_ids")

AUTHENTICATION(auth_check, auth, timeout_check, timeout) ==
  Registration("AUTHENTICATION", NoId,
               [auth    |-> Actor(auth_check, auth),
                timeout |-> Actor(timeout_check, timeout)])

LINK_CONTROL(check, act) ==
  Registration("LINK_CONTROL", NoId, [actor |-> Actor(check, act)])

(* The default link control also follows both kinds of session change.     *)
LINK_CONTROL_DEFAULT ==
  <<LINK_CONTROL("uds_check_default_link_control",
                 "uds_action_default_link_control"),
    DIAG_SESSION_CTRL("uds_check_default_link_control_change_diag_session",
                      "uds_action_default_link_control_change_diag_session",
                      "uds_check_default_link_control_change_diag_session",
                      "uds_action_default_link_control_change_diag_session")>>
-----------------------------------------------------------------------------
(* An entry of the table: the event, the type of the registrations it is   *)
(* for, the actor it calls, how the check is reached and the default NRC.  *)
(* "own": the check of the actor is called, if there is one.  "id": only   *)
(* if the id of the registration is the requested one, and then the check  *)
(* if there is one.  "idcall": the same, but the check is called whether   *)
(* or not there is one.  "always": the action applies without a check.     *)
Entry(event, type, field, reach, default_nrc) ==
  [event |-> event, type |-> type, field |-> field, reach |-> reach,
   default_nrc |-> default_nrc]

authentication ==
  {Entry("Auth", "AUTHENTICATION", "auth", "own", "SubFunctionNotSupported"),
   Entry("AuthTimeout", "AUTHENTICATION", "timeout", "own",
         "SubFunctionNotSupported")}

clear_diag_info ==
  {Entry("ClearDiagnosticInfo", "CLEAR_DIAG_INFO", "actor", "own",
         "RequestOutOfRange")}

comm_ctrl ==
  {Entry("CommCtrl", "COMMUNICATION_CONTROL", "actor", "own",
         "RequestOutOfRange")}

control_dtc_setting ==
  {Entry("ControlDTCSetting", "CONTROL_DTC_SETTING", "actor", "own",
         "SubFunctionNotSupported")}

data_by_identifier ==
  {Entry("ReadDataByIdent", "DATA_IDENTIFIER", "read", "id",
         "RequestOutOfRange"),
   Entry("WriteDataByIdent", "DATA_IDENTIFIER", "write", "idcall",
         "RequestOutOfRange"),
   Entry("IOControl", "DATA_IDENTIFIER", "io_control", "idcall",
         "RequestOutOfRange")}

diag_session_ctrl ==
  {Entry("DiagSessCtrl", "DIAG_SESSION_CTRL", "diag_sess_ctrl", "own", "OK"),
   Entry("SessionTimeout", "DIAG_SESSION_CTRL", "session_timeout", "own",
         "OK")}

dynamically_define_data_ids ==
  {Entry("DynamicDefineDataId", "DYNAMIC_DEFINE_DATA_IDS", "actor", "own",
         "SubFunctionNotSupported")}

(* Mutant: the second entry was copied from the first.                     *)
ecu_reset_copied ==
  {Entry(event, "ECU_RESET", "ecu_reset", "own", "SubFunctionNotSupported") :
     event \in {"EcuReset", "DoScheduledReset"}}

ecu_reset ==
  {Entry("EcuReset", "ECU_RESET", "ecu_reset", "own",
         "SubFunctionNotSupported"),
   Entry("DoScheduledReset", "ECU_RESET", "execute_scheduled_reset", "own",
         "SubFunctionNotSupported")}

link_control ==
  {Entry("LinkControl", "LINK_CONTROL", "actor", "own",
         "SubFunctionNotSupported")}

memory_by_address ==
  {Entry("ReadMemByAddr", "MEMORY", "read", "own", "ConditionsNotCorrect"),
   Entry("WriteMemByAddr", "MEMORY", "write", "own", "ConditionsNotCorrect")}

read_dtc_info ==
  {Entry("ReadDTCInformation", "READ_DTC_INFO", "actor", "id",
         "SubFunctionNotSupported")}

routine_control ==
  {Entry("RoutineCtrl", "ROUTINE_CONTROL", "actor", "id",
         "SubFunctionNotSupported")}

security_access ==
  {Entry("SecAccessRequestSeed", "SECURITY_ACCESS", "request_seed", "own",
         "ConditionsNotCorrect"),
   Entry("SecAccessValidateKey", "SECURITY_ACCESS", "validate_key", "own",
         "ConditionsNotCorrect")}

(* One registration, of the library itself, gets all five.                 *)
upload_download ==
  {Entry(event, "UPLOAD_DOWNLOAD", "none", "always",
         "SubFunctionNotSupported") :
     event \in {"RequestDownload", "RequestUpload", "TransferData",
                "RequestTransferExit", "RequestFileTransfer"}}

UPLOAD_DOWNLOAD ==
  Registration("UPLOAD_DOWNLOAD", NoId,
               [none |-> Actor("uds_check_always_apply",
                               "uds_action_upload_download")])

uds_event_handler_data ==
  authentication \cup clear_diag_info \cup comm_ctrl \cup control_dtc_setting
  \cup data_by_identifier \cup diag_session_ctrl
  \cup dynamically_define_data_ids \cup ecu_reset \cup link_control
  \cup memory_by_address \cup read_dtc_info \cup routine_control
  \cup security_access \cup upload_download
-----------------------------------------------------------------------------
(* What the entry makes of a registration, id being that of the request:   *)
(* checked is what the actor's check would answer, done what its action    *)
(* would do, either only if it is called, and state is the state before.   *)
(* A call through a NULL pointer has the code "NullCall".                  *)
Reach(entry, reg, id, checked, done, state) ==
  LET fits    == reg.type = entry.type
      actor   == reg.actors[entry.field]
      byId    == entry.reach \in {"id", "idcall"}
      passed  == [code |-> "OK", apply |-> FALSE]
      result  ==
        IF ~fits \/ (byId /\ reg.id # id) THEN passed
        ELSE IF actor.check # "NULL" THEN checked
        ELSE IF entry.reach = "idcall" THEN [passed EXCEPT !.code = "NullCall"]
        ELSE IF byId THEN passed
        ELSE [passed EXCEPT !.code = "none"]
      acts    == fits /\ result.code = "OK" /\ result.apply
                 /\ actor.action # "NULL"
  IN  [type    |-> fits,
       check   |-> result.code,
       apply   |-> result.apply,
       action  |-> IF acts THEN done.code ELSE "none",
       consume |-> IF acts THEN done.consume ELSE "unset",
       next    |-> IF acts THEN done.state ELSE state]
=============================================================================
