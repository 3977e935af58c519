----------------------------- MODULE CanRouter ------------------------------
(***************************************************************************)
(* lib/can_router/can_router.c on a gateway between a CAN controller and   *)
(* the bridge of the commander: at start the entries of every routing      *)
(* table become receive filters one after the other, and a frame that      *)
(* passes a filter is sent to the other side without waiting.              *)
(*                                                                         *)
(* External: the CAN controller, which gives a filter an id or refuses it. *)
(***************************************************************************)
EXTENDS Lin2Can

CONSTANTS
  CanFilters,    \* filters of the routing tables and of the applications
  RouterTables,  \* the sequences of tables a program may be linked with
  FilterIds      \* ids the CAN controller may give a filter

(* Where a frame comes from; to is the other side.                         *)
RouterEntries == [from : {"can", "lin2can"}, filter : CanFilters]

ASSUME CanRouterAssumption ==
  /\ RouterTables \subseteq Seq(Seq(RouterEntries))
  /\ FilterIds \subseteq Nat
  /\ Nobody # "router"

VARIABLES
  router_tables,  \* the section can_router_table_t; never changes
  registering,    \* the table and the entry can_router_sysinit has come to
  sysinit,        \* whether it has returned, and what
  can_filters     \* the entries that are filters of the CAN controller

routerVars == <<router_tables, registering, sysinit, can_filters>>

InitRouter ==
  /\ router_tables \in RouterTables
  /\ registering = [table |-> 1, entry |-> 1]
  /\ sysinit = [returned |-> FALSE, err |-> 0]
  /\ can_filters = {}

RouterDone == sysinit.returned

EntriesLeft ==
  /\ registering.table <= Len(router_tables)
  /\ registering.entry <= Len(router_tables[registering.table])

(* What can_add_rx_filter may return for an entry.                         *)
FilterResults(e) ==
  IF e.from = "can" THEN FilterIds \cup {-28} ELSE {FilterResult(Commander, e.filter)}

(* One round of can_router_register: any value but zero, a filter id too,  *)
(* ends it, and can_router_sysinit with it.                                *)
RouteEntry ==
  LET e == router_tables[registering.table][registering.entry]
  IN  /\ ~RouterDone /\ EntriesLeft
      /\ \E err \in FilterResults(e) :
           /\ registering' = IF err = 0 THEN [registering EXCEPT !.entry = @ + 1]
                             ELSE registering
           /\ sysinit' = [returned |-> err # 0, err |-> err]
           /\ IF e.from = "can"
              THEN /\ can_filters' = can_filters \cup (IF err < 0 THEN {} ELSE {registering})
                   /\ UNCHANGED bridgeVars
              ELSE AddFilter(Commander, e.filter, "router") /\ UNCHANGED can_filters
      /\ UNCHANGED router_tables

(* can_router_sysinit goes on to the next table, or returns.               *)
NextTable ==
  /\ ~RouterDone /\ ~EntriesLeft
  /\ IF registering.table <= Len(router_tables)
     THEN /\ registering' = [table |-> registering.table + 1, entry |-> 1]
          /\ UNCHANGED sysinit
     ELSE /\ sysinit' = [returned |-> TRUE, err |-> 0]
          /\ UNCHANGED registering
  /\ UNCHANGED <<router_tables, can_filters, bridgeVars>>

(* A mask that is neither full nor empty may let any id pass.              *)
Passes(filter, id) == filter.mask = "exact" => filter.id = id

(* can_router_frame_cb for a frame of the CAN controller; a send that      *)
(* fails drops the frame.                                                  *)
RouteToLin(frame) ==
  /\ \E r \in can_filters : Passes(router_tables[r.table][r.entry].filter, frame.id)
  /\ Send(Commander, frame)
-----------------------------------------------------------------------------
Entries == UNION {{[table |-> t, entry |-> i] : i \in 1 .. Len(router_tables[t])} :
                  t \in 1 .. Len(router_tables)}

(* The filter of an entry is set, and its frames come to the router.       *)
Installed(r) ==
  LET e == router_tables[r.table][r.entry]
  IN  IF e.from = "can" THEN r \in can_filters
      ELSE \A a \in FilterAddresses(e.filter) : incoming_callbacks[Commander][a] = "router"

Passed(r) ==
  \/ r.table < registering.table
  \/ r.table = registering.table /\ r.entry < registering.entry

(* Passed, or the one whose filter id was taken for an error.              *)
Reached(r) == Passed(r) \/ (r = registering /\ sysinit.err > 0)

(* Whatever the tables are and whichever id or error can_add_rx_filter     *)
(* returns: the routes before the one that ended can_router_sysinit stand, *)
(* that one does if the value was a filter id, which is taken for an       *)
(* error, no later one does, and if the result is zero all of them stand.  *)
(* The filters of the ISO-TP application change none of this.              *)
RoutesInstalled ==
  /\ \A r \in Entries : Reached(r) => Installed(r)
  /\ RouterDone /\ sysinit.err = 0 => \A r \in Entries : Installed(r)
  /\ \A r \in can_filters : Reached(r)
  /\ \A a \in Addresses : incoming_callbacks[Commander][a] = "router" =>
       \E r \in Entries : /\ Reached(r)
                          /\ router_tables[r.table][r.entry].from = "lin2can"
                          /\ a \in FilterAddresses(router_tables[r.table][r.entry].filter)
=============================================================================
