----------------------------- MODULE UdsRegistry -----------------------------
(***************************************************************************)
(* The dynamic registrations of a UDS instance: register_event_handler and *)
(* unregister_event_handler of uds.c, used by the application and by the   *)
(* default handler of DynamicallyDefineDataIdentifier (0x2C) in            *)
(* dynamically_define_data_ids.c, with the heap blocks they own.           *)
(*                                                                         *)
(* A request runs in the UDS thread, which is cooperative: it is atomic.   *)
(* An application thread is preemptible: with AppPreempted a request may   *)
(* run between find_next_dynamic_id and sys_slist_append.                  *)
(*                                                                         *)
(* External: k_malloc, which may fail at the points in MayFail.            *)
(***************************************************************************)
EXTENDS Integers, Sequences, FiniteSets, Functions

CONSTANTS
  NBlocks,       \* heap blocks
  MaxId,         \* stands for UINT32_MAX
  MaxItems,      \* bound on the items of one dynamic identifier
  AppDids,       \* data ids the application registers
  DddiDids,      \* data ids clients define and clear
  MayFail,       \* allocations that may fail
  AppPreempted   \* may a request preempt a registration of the application?

Allocations == {"DATA_LIST", "TEMP_REG", "DATA_ITEM", "REGISTRATION",
                "REG_ID_ITEM"}

ASSUME RegistryAssumption ==
  /\ NBlocks \in Nat /\ MaxId \in Nat \ {0} /\ MaxItems \in Nat \ {0}
  /\ MayFail \subseteq Allocations
  /\ AppPreempted \in BOOLEAN

VARIABLES
  regs,     \* dynamic_registrations, in list order
  idlist,   \* dynamic_registration_id_list of the 0x2C handler
  live,     \* heap blocks that are allocated
  fault,    \* a block was used or freed after it had been freed
  pending,  \* the id an application thread has found but not appended yet
  appIds,   \* ids the application got and has not unregistered
  disturbed \* history: an id found by the application was given out before it
            \* was used, or a client cleared a registration of the application

vars == <<regs, idlist, live, fault, pending, appIds, disturbed>>

Blocks == 1 .. NBlocks

None == 0

(* A registration of the application has no data list of ours.             *)
Registration ==
  [block : Blocks, id : 1 .. MaxId, did : AppDids \cup DddiDids,
   owner : {"app", "dddi"}, list : Blocks \cup {None}, items : Seq(Blocks)]

Init ==
  /\ regs = <<>> /\ idlist = <<>>
  /\ live = {} /\ fault = FALSE
  /\ pending = None /\ appIds = {}
  /\ disturbed = FALSE
-----------------------------------------------------------------------------
(* The first place of a set of places, or the smallest id of a set; 0 if   *)
(* there is none.                                                          *)
First(S) == IF S = {} THEN None ELSE CHOOSE i \in S : \A j \in S : i <= j

(* The k-th smallest number of a set.                                      *)
Nth(S, k) == CHOOSE i \in S : Cardinality({j \in S : j < i}) = k - 1

(* What a list has at some of its places, in the order of the list.        *)
Only(list, places) ==
  [k \in 1 .. Cardinality(places) |-> list[Nth(places, k)]]

(* External: the heap.  The blocks an allocation gets are the lowest free  *)
(* ones; which ones they are makes no difference.                          *)
FreeBlocks ==
  LET free == Blocks \ live
  IN  [k \in 1 .. Cardinality(free) |-> Nth(free, k)]

(* One request allocates the set new and then frees what the pointers in   *)
(* the domain of frees point to.                                           *)
HeapStep(new, frees) ==
  /\ live' = (live \cup new) \ Range(frees)
  /\ fault' = (fault \/ ~IsInjective(frees) \/ ~(Range(frees) \subseteq live \cup new))

UsedIds == {regs[i].id : i \in DOMAIN regs}

(* Mutant: the id is the number of registrations plus one.                 *)
NextIdByCount == IF Len(regs) < MaxId THEN Len(regs) + 1 ELSE None

(* The lowest id from 1 that no registration uses, 0 if there is none.     *)
find_next_dynamic_id ==
  First((1 .. MaxId) \ UsedIds)

(* What unregister_event_handler frees of the registration at place i:     *)
(* uds_unregister_dynamic_identifier the items and the list, then the      *)
(* registration itself is freed.  A pointer is a place and a field.        *)
Pointers(i) ==
  {<<"block", i, 0>>}
    \cup IF regs[i].owner = "dddi"
         THEN {<<"list", i, 0>>} \cup {<<"item", i, k>> : k \in DOMAIN regs[i].items}
         ELSE {}

Target(p) ==
  CASE p[1] = "block" -> regs[p[2]].block
    [] p[1] = "list"  -> regs[p[2]].list
    [] p[1] = "item"  -> regs[p[2]].items[p[3]]
    [] p[1] = "id"    -> idlist[p[2]].block

(* The frees of the registrations at some places and of some entries of    *)
(* the id list.                                                            *)
Frees(places, entries) ==
  [p \in (UNION {Pointers(i) : i \in places}) \cup {<<"id", j, 0>> : j \in entries}
     |-> Target(p)]

UdsThreadMayRun == fault = FALSE /\ (AppPreempted \/ pending = None)
-----------------------------------------------------------------------------
(* uds_register_event_handler called by an application thread.             *)
AppFindId ==
  /\ fault = FALSE /\ pending = None
  /\ find_next_dynamic_id # None
  /\ pending' = find_next_dynamic_id
  /\ UNCHANGED <<regs, idlist, live, fault, appIds, disturbed>>

AppAppend(did) ==
  /\ fault = FALSE /\ pending # None
  /\ pending' = None
  /\ \/ /\ Blocks \ live # {}
        /\ HeapStep({FreeBlocks[1]}, <<>>)
        /\ regs' = Append(regs, [block |-> FreeBlocks[1], id |-> pending,
                                 did |-> did, owner |-> "app",
                                 list |-> None, items |-> <<>>])
        /\ appIds' = appIds \cup {pending}
        /\ disturbed' = (disturbed \/ pending \in UsedIds)
     \/ /\ "REGISTRATION" \in MayFail
        /\ UNCHANGED <<regs, live, fault, appIds, disturbed>>
  /\ UNCHANGED idlist

(* uds_unregister_event_handler called by the application; its own         *)
(* unregister_registration_fn may refuse.  An unknown id changes nothing.  *)
AppUnregister(id) ==
  LET i == First({j \in DOMAIN regs : regs[j].id = id})
  IN  /\ fault = FALSE /\ pending = None
      /\ \/ /\ i # 0
            /\ regs' = Only(regs, DOMAIN regs \ {i})
            /\ HeapStep({}, Frees({i}, {}))
            /\ appIds' = appIds \ {id}
         \/ /\ i # 0 /\ regs[i].owner = "app"
            /\ UNCHANGED <<regs, live, fault, appIds>>
      /\ UNCHANGED <<idlist, pending, disturbed>>
-----------------------------------------------------------------------------
(* Define by data id or by memory address: uds_..._add_new_id.  The two    *)
(* differ only in what an item holds.                                      *)

Existing(did) ==
  First({i \in DOMAIN regs :
           regs[i].did = did /\ \E j \in DOMAIN idlist : idlist[j].id = regs[i].id})

(* Another item for an identifier that is defined already.  If k_malloc    *)
(* fails all its items are freed, but it stays registered.                 *)
AppendItem(i) ==
  \/ /\ Len(regs[i].items) < MaxItems
     /\ Blocks \ live # {}
     /\ HeapStep({FreeBlocks[1]}, <<>>)
     /\ regs' = [regs EXCEPT ![i].items = Append(@, FreeBlocks[1])]
  \/ /\ "DATA_ITEM" \in MayFail
     /\ HeapStep({}, regs[i].items)
     /\ regs' = [regs EXCEPT ![i].items = <<>>]

(* Mutant: the data list is forgotten when the item cannot be allocated.   *)
ErrorFreesLeaky(failed, list, temp, item, reg) ==
  CASE failed = "DATA_LIST"    -> <<>>
    [] failed = "TEMP_REG"     -> <<list>>
    [] failed = "DATA_ITEM"    -> <<temp>>
    [] failed = "REGISTRATION" -> <<item, list, temp>>
    [] failed = "REG_ID_ITEM"  -> <<item, list, reg>> \o <<item, list, temp>>

(* A new identifier takes five blocks.  What the error path frees depends  *)
(* on which of the allocations failed.                                     *)
ErrorFrees(failed, list, temp, item, reg) ==
  CASE failed = "DATA_LIST"    -> <<>>
    [] failed = "TEMP_REG"     -> <<list>>
    [] failed = "DATA_ITEM"    -> <<list, temp>>
    [] failed = "REGISTRATION" -> <<item, list, temp>>
    \* the handler is unregistered, then the caller cleans up too
    [] failed = "REG_ID_ITEM"  -> <<item, list, reg>> \o <<item, list, temp>>

AllocatedBefore(failed, list, temp, item, reg) ==
  CASE failed = "DATA_LIST"    -> {}
    [] failed = "TEMP_REG"     -> {list}
    [] failed = "DATA_ITEM"    -> {list, temp}
    [] failed = "REGISTRATION" -> {list, temp, item}
    [] failed = "REG_ID_ITEM"  -> {list, temp, item, reg}

DefineNew(did) ==
  LET b == FreeBlocks
      id == find_next_dynamic_id
  IN  /\ Len(b) >= 5
      /\ \/ /\ id # None
            /\ HeapStep({b[k] : k \in 1 .. 5}, <<b[2]>>)
            /\ regs' = Append(regs, [block |-> b[4], id |-> id, did |-> did,
                                     owner |-> "dddi", list |-> b[1],
                                     items |-> <<b[3]>>])
            /\ idlist' = Append(idlist, [block |-> b[5], id |-> id])
         \/ \E failed \in MayFail \cup (IF id = None THEN {"REGISTRATION"} ELSE {}) :
              /\ failed = "REG_ID_ITEM" => id # None
              /\ HeapStep(AllocatedBefore(failed, b[1], b[2], b[3], b[4]),
                          ErrorFrees(failed, b[1], b[2], b[3], b[4]))
              /\ UNCHANGED <<regs, idlist>>

Define(did) ==
  /\ UdsThreadMayRun
  /\ \/ Existing(did) # 0 /\ AppendItem(Existing(did)) /\ UNCHANGED idlist
     \/ Existing(did) = 0 /\ DefineNew(did)
  /\ UNCHANGED <<pending, appIds, disturbed>>
-----------------------------------------------------------------------------
(* Mutant: the id of the removed registration stays in the list.           *)
ClearSingleKeepsId(did) ==
  LET i == First({j \in DOMAIN regs : regs[j].did = did})
  IN  /\ UdsThreadMayRun
      /\ i # 0
      /\ regs' = Only(regs, DOMAIN regs \ {i})
      /\ HeapStep({}, Frees({i}, {}))
      /\ disturbed' = (disturbed \/ regs[i].owner = "app")
      /\ UNCHANGED <<idlist, pending, appIds>>

(* Clear: ..._remove_single_id takes the first dynamic registration with   *)
(* the data id, whoever registered it, and drops its id from the list.     *)
ClearSingle(did) ==
  LET i == First({j \in DOMAIN regs : regs[j].did = did})
      id == IF i = 0 THEN 0 ELSE regs[i].id
      dropped == {j \in DOMAIN idlist : idlist[j].id = id}
  IN  /\ UdsThreadMayRun
      /\ idlist' = Only(idlist, DOMAIN idlist \ dropped)
      /\ \/ /\ i # 0
            /\ regs' = Only(regs, DOMAIN regs \ {i})
            /\ HeapStep({}, Frees({i}, dropped))
            /\ disturbed' = (disturbed \/ regs[i].owner = "app")
         \/ /\ i # 0 => regs[i].owner = "app"  \* unknown, or refused
            /\ HeapStep({}, Frees({}, dropped))
            /\ UNCHANGED <<regs, disturbed>>
      /\ UNCHANGED <<pending, appIds>>

(* Mutant: every dynamic registration is removed, not only those listed.   *)
ClearAllRegistrations ==
  /\ UdsThreadMayRun
  /\ regs' = <<>>
  /\ idlist' = <<>>
  /\ live' = {}
  /\ UNCHANGED <<fault, pending, appIds, disturbed>>

(* ..._remove_all_ids unregisters every id of the list, then empties it.   *)
(* Each entry of the list takes the first registration that is left with   *)
(* its id: of n entries with one id, the first n registrations with it go. *)
ClearAll ==
  LET gone == {i \in DOMAIN regs :
                 Cardinality({j \in 1 .. i : regs[j].id = regs[i].id}) <=
                   Cardinality({j \in DOMAIN idlist : idlist[j].id = regs[i].id})}
  IN  /\ UdsThreadMayRun
      /\ regs' = Only(regs, DOMAIN regs \ gone)
      /\ idlist' = <<>>
      /\ HeapStep({}, Frees(gone, DOMAIN idlist))
      /\ UNCHANGED <<pending, appIds, disturbed>>

Next ==
  \/ AppFindId
  \/ \E did \in AppDids : AppAppend(did)
  \/ \E id \in appIds : AppUnregister(id)
  \/ \E did \in DddiDids : Define(did)
  \/ \E did \in DddiDids : ClearSingle(did)
  \/ ClearAll

Spec == Init /\ [][Next]_vars
-----------------------------------------------------------------------------
(* Types of the two lists and of the heap.                                 *)
TypeOK ==
  /\ regs \in Seq(Registration)
  /\ idlist \in Seq([block : Blocks, id : 1 .. MaxId])
  /\ live \subseteq Blocks
  /\ fault \in BOOLEAN
  /\ pending \in 0 .. MaxId
  /\ appIds \subseteq 1 .. MaxId

(* The blocks that are still needed.                                       *)
Reachable ==
  {regs[i].block : i \in DOMAIN regs}
    \cup {regs[i].list : i \in {j \in DOMAIN regs : regs[j].owner = "dddi"}}
    \cup (UNION {Range(regs[i].items) : i \in DOMAIN regs})
    \cup {idlist[i].block : i \in DOMAIN idlist}

(* "FREED: [DATA_LIST] via uds_unregister_dynamic_identifier or error      *)
(* cleanup": no block is freed twice or used after it was freed.           *)
NoDoubleFree == ~fault

(* Every path of the 0x2C handler, the error paths included, gives back    *)
(* once, and only once, exactly the blocks nothing refers to any more: no  *)
(* block leaks and no registration or list points to a freed block.        *)
HeapExact == NoDoubleFree /\ live = Reachable

(* "the assigned unique ID for this registration": no two registrations    *)
(* have the same dynamic id.  Not true of the code when a request preempts *)
(* a registration of the application.                                      *)
IdsUnique == \A i, j \in DOMAIN regs : regs[i].id = regs[j].id => i = j

(* The list of the 0x2C handler names exactly the identifiers it defined:  *)
(* each one can still be cleared, and no id in it went to someone else.    *)
IdsTracked ==
  {idlist[i].id : i \in DOMAIN idlist} =
    {regs[i].id : i \in {j \in DOMAIN regs : regs[j].owner = "dddi"}}

(* What the application registered stays registered under the id it was    *)
(* given until the application unregisters it.                             *)
AppIdsValid ==
  \A id \in appIds :
    \E i \in DOMAIN regs : regs[i].id = id /\ regs[i].owner = "app"

(* Heap and types: every block is accounted for on every path.             *)
HeapOK == TypeOK /\ HeapExact

(* Ids are unique, the list of the 0x2C handler names exactly its own      *)
(* registrations and the application's stay valid, until one of two things *)
(* happens that the code does not prevent: a request preempts a            *)
(* registration and gets its id, or a client clears a data id that the     *)
(* application registered.  No other sequence of calls, failed allocations *)
(* and requests disturbs them.                                             *)
IdsOK == disturbed \/ (IdsUnique /\ IdsTracked /\ AppIdsValid)
=============================================================================
