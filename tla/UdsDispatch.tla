---------------------------- MODULE UdsDispatch ----------------------------
(***************************************************************************)
(* How an event finds its handlers: uds_check_and_act_on_event and         *)
(* uds_handle_event of lib/uds/uds.c.  Static registrations come first,    *)
(* then the dynamic ones, each in list order.                              *)
(*                                                                         *)
(* handler[reg][s] says what the registration reg does with the event in   *)
(* the state s, as a record:                                               *)
(*   type     does its type fit the event?                                 *)
(*   check    what its check function returns ("none": it has none)        *)
(*   apply    does the check function set apply_action?                    *)
(*   action   what its action returns ("none": it has none)                *)
(*   consume  what the action stores in consume_event ("unset": nothing)   *)
(*   next     the state after the action                                   *)
(* "OK" is UDS_OK and UDS_PositiveResponse; any other code is an NRC.      *)
(***************************************************************************)
EXTENDS Sequences, SequencesExt

(* The action is called.                                                   *)
Acts(h) == h.type /\ h.check = "OK" /\ h.apply /\ h.action # "none"

(* What uds_check_and_act_on_event returns.                                *)
VisitCode(h) ==
  IF ~h.type \/ h.check = "none" THEN "OK"
  ELSE IF h.check # "OK" THEN h.check
  ELSE IF Acts(h) THEN h.action ELSE "OK"

(* consume_event after it: cleared unless the action was called, and then  *)
(* what the action made of the initial value.                              *)
Consumes(h, initial) ==
  Acts(h) /\ (IF h.consume = "unset" THEN initial ELSE h.consume = "yes")

(* Mutant: a handler that fails does not end the iteration.                *)
VisitGoesOn(acc, h, reg, initial) ==
  IF acc.done THEN acc
  ELSE [done  |-> Consumes(h, initial),
        code  |-> VisitCode(h),
        found |-> acc.found \/ (Acts(h) /\ h.action = "OK"),
        calls |-> IF Acts(h) THEN Append(acc.calls, reg) ELSE acc.calls,
        state |-> IF Acts(h) THEN h.next ELSE acc.state]

(* One turn of the loop; the iteration ends when the event is consumed or  *)
(* a code other than UDS_OK comes back.                                    *)
Visit(acc, h, reg, initial) ==
  IF acc.done THEN acc
  ELSE [done  |-> Consumes(h, initial) \/ VisitCode(h) # "OK",
        code  |-> VisitCode(h),
        found |-> acc.found \/ (Acts(h) /\ h.action = "OK"),
        calls |-> IF Acts(h) THEN Append(acc.calls, reg) ELSE acc.calls,
        state |-> IF Acts(h) THEN h.next ELSE acc.state]

(* The two loops of uds_handle_event: turns[n] is where they are after the *)
(* first n registrations.  consume_event starts out TRUE for the static    *)
(* registrations and FALSE for the dynamic ones.                           *)
Turns(static, dynamic, handler, state) ==
  LET all == static \o dynamic
      turn[n \in 0 .. Len(all)] ==
        IF n = 0
        THEN [done |-> FALSE, code |-> "OK", found |-> FALSE, calls |-> <<>>,
              state |-> state]
        ELSE LET acc == turn[n - 1]
             IN  Visit(acc, handler[all[n]][acc.state], all[n], n <= Len(static))
  IN  turn

(* uds_handle_event: the code it returns, the registrations whose action   *)
(* it called and the state they left.                                      *)
HandleEvent(static, dynamic, handler, default_nrc, state) ==
  LET end == Turns(static, dynamic, handler, state)[Len(static \o dynamic)]
  IN  [code  |-> IF end.done THEN end.code
                 ELSE IF end.found THEN "OK" ELSE default_nrc,
       calls |-> end.calls,
       state |-> end.state]
=============================================================================
