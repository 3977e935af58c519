---------------------------- MODULE LinScheduler ----------------------------
(***************************************************************************)
(* The LIN schedule tables of drivers/lin/abstract_lin/lin_scheduler.c: a  *)
(* thread that sends the frames of the active table one after the other,   *)
(* and set_active_table and disable, which application threads call.  The  *)
(* semaphore "active" is given while a table is active and nobody uses     *)
(* current_table and current_table_entry.                                  *)
(*                                                                         *)
(* Calls are made after the thread has initialised its semaphores.  The    *)
(* semaphore "skip" is never given: the wait on it is a delay.             *)
(*                                                                         *)
(* External: k_sem; a give hands the semaphore to a waiting thread.        *)
(***************************************************************************)
EXTENDS Integers

CONSTANTS
  Callers,       \* application threads
  Tables,        \* indices of the schedule tables
  Indices,       \* indices that callers pass, also out of bounds
  Count,         \* number of entries of each table
  InitialTable,  \* a table or Off
  Off,           \* current_table == -1
  Thread,        \* the scheduler thread
  Serialized     \* do the callers exclude each other?

ASSUME SchedulerAssumption ==
  /\ Count \in [Tables -> Nat \ {0}]
  /\ Off \notin Tables
  /\ Tables \subseteq Indices
  /\ InitialTable \in Tables \cup {Off}
  /\ Thread \notin Callers
  /\ Serialized \in BOOLEAN

VARIABLES
  current_table, current_table_entry,
  active,    \* count of the semaphore "active"
  blocked,   \* threads waiting for it
  pc,        \* where each thread is
  table, entry,  \* the thread's locals
  arg,       \* table_index of the call each caller makes
  restart,   \* history: a table was set since the last frame
  last       \* history: table and entry of the last frame

shared == <<current_table, current_table_entry>>

sem == <<active, blocked>>

locals == <<table, entry, arg>>

hist == <<restart, last>>

vars == <<shared, sem, pc, locals, hist>>

Threads == Callers \cup {Thread}

(* Places at which a thread may use the shared indices.                    *)
InThreadSection == {"table", "entry", "advance", "schedule", "give"}

InCallerSection == {"set_table", "set_entry", "set_give", "disable_store"}

Labels == InThreadSection \cup InCallerSection \cup
          {"take", "delay", "idle", "set_take", "disable_take"}

Init ==
  /\ current_table = InitialTable
  /\ current_table_entry = 0
  /\ active = IF InitialTable = Off THEN 0 ELSE 1
  /\ blocked = {}
  /\ pc = [t \in Threads |-> IF t = Thread THEN "take" ELSE "idle"]
  /\ table = Off /\ entry = 0
  /\ arg = [c \in Callers |-> Off]
  /\ restart = TRUE
  /\ last = [table |-> Off, entry |-> 0]

Goto(t, label) == pc' = [pc EXCEPT ![t] = label]

(* The place behind each k_sem_take.                                       *)
Taken(label) ==
  CASE label = "take" -> "table"
    [] label = "set_take" -> "set_table"
    [] label = "disable_take" -> "disable_store"

TakeActive(t) ==
  /\ t \notin blocked
  /\ \/ active = 1 /\ active' = 0 /\ Goto(t, Taken(pc[t])) /\ UNCHANGED blocked
     \/ active = 0 /\ blocked' = blocked \cup {t} /\ UNCHANGED <<active, pc>>

GiveActive(t, label) ==
  \/ blocked = {} /\ active' = 1 /\ Goto(t, label) /\ UNCHANGED blocked
  \/ \E w \in blocked :
       /\ blocked' = blocked \ {w}
       /\ pc' = [u \in Threads |-> IF u = t THEN label
                                   ELSE IF u = w THEN Taken(pc[w]) ELSE pc[u]]
       /\ UNCHANGED active
-----------------------------------------------------------------------------
(* The loop of _abstract_lin_scheduler_thread.                             *)

ThreadTake ==
  /\ pc[Thread] = "take"
  /\ TakeActive(Thread)
  /\ UNCHANGED <<shared, locals, hist>>

ReadTable ==
  /\ pc[Thread] = "table"
  /\ table' = current_table
  /\ Goto(Thread, "entry")
  /\ UNCHANGED <<shared, sem, entry, arg, hist>>

ReadEntry ==
  /\ pc[Thread] = "entry"
  /\ entry' = current_table_entry
  /\ Goto(Thread, "advance")
  /\ UNCHANGED <<shared, sem, table, arg, hist>>

(* current_table_entry++ writes back what was read, then wraps.            *)
Advance ==
  /\ pc[Thread] = "advance"
  /\ current_table_entry' = IF entry + 1 >= Count[table] THEN 0 ELSE entry + 1
  /\ Goto(Thread, "schedule")
  /\ UNCHANGED <<current_table, sem, locals, hist>>

(* abstract_lin_schedule_now                                               *)
Schedule ==
  /\ pc[Thread] = "schedule"
  /\ last' = [table |-> table, entry |-> entry]
  /\ restart' = FALSE
  /\ Goto(Thread, "give")
  /\ UNCHANGED <<shared, sem, locals>>

(* Mutant: the thread takes and gives the semaphore outside of its loop.   *)
ThreadNeverGives ==
  /\ pc[Thread] = "give"
  /\ Goto(Thread, "table")
  /\ UNCHANGED <<shared, sem, locals, hist>>

ThreadGive ==
  /\ pc[Thread] = "give"
  /\ GiveActive(Thread, "delay")
  /\ UNCHANGED <<shared, locals, hist>>

(* k_sem_take(&data->skip, entry->delay) times out.                        *)
Delay ==
  /\ pc[Thread] = "delay"
  /\ Goto(Thread, "take")
  /\ UNCHANGED <<shared, sem, locals, hist>>

ThreadStep ==
  \/ ThreadTake
  \/ ReadTable
  \/ ReadEntry
  \/ Advance
  \/ Schedule
  \/ ThreadGive
  \/ Delay
-----------------------------------------------------------------------------
MayCall(c) ==
  /\ pc[c] = "idle"
  /\ Serialized => \A d \in Callers : pc[d] = "idle"

(* Mutant: the semaphore is only taken when the table changes.             *)
SetSameUnlocked(c, index) ==
  /\ MayCall(c)
  /\ index \in Tables
  /\ arg' = [arg EXCEPT ![c] = index]
  /\ Goto(c, IF current_table \in {Off, index} THEN "set_table" ELSE "set_take")
  /\ UNCHANGED <<shared, sem, table, entry, hist>>

(* abstract_lin_scheduler_set_active_table; an index out of bounds is      *)
(* refused before anything is touched.                                     *)
SetActiveTable(c, index) ==
  /\ MayCall(c)
  /\ index \in Tables
  /\ arg' = [arg EXCEPT ![c] = index]
  /\ Goto(c, IF current_table # Off THEN "set_take" ELSE "set_table")
  /\ UNCHANGED <<shared, sem, table, entry, hist>>

SetTake(c) ==
  /\ pc[c] = "set_take"
  /\ TakeActive(c)
  /\ UNCHANGED <<shared, locals, hist>>

SetTable(c) ==
  /\ pc[c] = "set_table"
  /\ current_table' = arg[c]
  /\ Goto(c, "set_entry")
  /\ UNCHANGED <<current_table_entry, sem, locals, hist>>

(* Mutant: the entry of the old table stays the next one.                  *)
SetEntryKept(c) ==
  /\ pc[c] = "set_entry"
  /\ restart' = TRUE
  /\ Goto(c, "set_give")
  /\ UNCHANGED <<shared, sem, locals, last>>

SetEntry(c) ==
  /\ pc[c] = "set_entry"
  /\ current_table_entry' = 0
  /\ restart' = TRUE
  /\ Goto(c, "set_give")
  /\ UNCHANGED <<current_table, sem, locals, last>>

(* Mutant: the semaphore is not given for a table set while disabled.      *)
SetDoesNotGive(c) ==
  /\ pc[c] = "set_give"
  /\ Goto(c, "idle")
  /\ UNCHANGED <<shared, sem, locals, hist>>

SetGive(c) ==
  /\ pc[c] = "set_give"
  /\ GiveActive(c, "idle")
  /\ UNCHANGED <<shared, locals, hist>>
-----------------------------------------------------------------------------
(* abstract_lin_scheduler_disable, unless "already stopped".               *)
Disable(c) ==
  /\ MayCall(c)
  /\ current_table # Off
  /\ Goto(c, "disable_take")
  /\ UNCHANGED <<shared, sem, locals, hist>>

DisableTake(c) ==
  /\ pc[c] = "disable_take"
  /\ TakeActive(c)
  /\ UNCHANGED <<shared, locals, hist>>

DisableStore(c) ==
  /\ pc[c] = "disable_store"
  /\ current_table' = Off
  /\ Goto(c, "idle")
  /\ UNCHANGED <<current_table_entry, sem, locals, hist>>

(* What a caller does once it has begun a call.                            *)
CallStep(c) ==
  \/ SetTake(c)
  \/ SetTable(c)
  \/ SetEntry(c)
  \/ SetGive(c)
  \/ DisableTake(c)
  \/ DisableStore(c)

Next ==
  \/ ThreadStep
  \/ \E c \in Callers :
       \/ \E index \in Indices : SetActiveTable(c, index)
       \/ Disable(c)
       \/ CallStep(c)

Spec == Init /\ [][Next]_vars

(* The thread is scheduled again and again, and so is a caller inside a    *)
(* call; nothing makes anyone call.                                        *)
FairSpec ==
  /\ Spec
  /\ WF_vars(ThreadStep)
  /\ \A c \in Callers : WF_vars(CallStep(c))
-----------------------------------------------------------------------------
(* Types; a thread is blocked only at a k_sem_take.                        *)
TypeOK ==
  /\ current_table \in Tables \cup {Off}
  /\ current_table_entry \in Nat
  /\ active \in {0, 1}
  /\ blocked \subseteq Threads
  /\ pc \in [Threads -> Labels]
  /\ pc[Thread] \in InThreadSection \cup {"take", "delay"}
  /\ \A c \in Callers : pc[c] \notin InThreadSection \cup {"take", "delay"}
  /\ \A t \in blocked : pc[t] \in {"take", "set_take", "disable_take"}
  /\ table \in Tables \cup {Off}
  /\ entry \in Nat
  /\ arg \in [Callers -> Tables \cup {Off}]
  /\ restart \in BOOLEAN
  /\ last \in [table : Tables \cup {Off}, entry : Nat]

(* current_table and current_table_entry are never changed by a caller     *)
(* while the thread is between taking and giving "active".                 *)
SectionsExclusive ==
  pc[Thread] \in InThreadSection =>
    \A c \in Callers : pc[c] \notin InCallerSection

(* The thread never indexes tables[] with -1 or entries[] beyond the count *)
(* of the table it read, although table and index are set in two steps.    *)
IndexInBounds ==
  /\ pc[Thread] = "table" => current_table \in Tables
  /\ pc[Thread] \in {"advance", "schedule"} =>
       table \in Tables /\ entry < Count[table]

(* "let thread actively wait for set_active_table": while the scheduler is *)
(* disabled the thread is about to send nothing.                           *)
QuietWhileDisabled ==
  current_table = Off => pc[Thread] \notin InThreadSection

(* Why these hold when callers exclude each other.  At most one caller is  *)
(* inside a call ...                                                       *)
OneCaller ==
  \A c, d \in Callers : pc[c] # "idle" /\ pc[d] # "idle" => c = d

(* ... "active" can be taken only while a table is active and nobody uses  *)
(* the indices, and who waits for it finds a table active ...              *)
TokenInv ==
  /\ active = 1 => /\ blocked = {}
                   /\ current_table # Off
                   /\ pc[Thread] \notin InThreadSection
                   /\ \A c \in Callers : pc[c] \notin InCallerSection
  /\ \A c \in Callers :
       /\ pc[c] \in {"set_take", "disable_take", "set_entry", "set_give"} =>
            current_table # Off
       /\ pc[c] \in {"set_take", "set_table", "set_entry", "set_give"} =>
            arg[c] \in Tables

(* ... and the entry fits the table except between the two assignments of  *)
(* set_active_table.                                                       *)
IndexInv ==
  /\ current_table \in Tables /\ (\A c \in Callers : pc[c] # "set_entry") =>
       current_table_entry < Count[current_table]
  /\ pc[Thread] \in {"entry", "advance", "schedule", "give"} =>
       table = current_table

SchedulerInv ==
  /\ TypeOK
  /\ OneCaller
  /\ SectionsExclusive
  /\ QuietWhileDisabled
  /\ TokenInv
  /\ IndexInv
  /\ IndexInBounds

(* "start from the beginning again": the first frame after a table was set *)
(* is entry 0 of that table; after that the entries follow each other      *)
(* round the same table and none is left out or sent twice.                *)
EntriesInOrder ==
  [][pc[Thread] = "schedule" /\ pc'[Thread] = "give" =>
       IF restart THEN last' = [table |-> current_table, entry |-> 0]
       ELSE last' = [table |-> last.table,
                     entry |-> (last.entry + 1) % Count[last.table]]]_vars

(* A call of set_active_table returns.                                     *)
SetReturns ==
  \A c \in Callers : pc[c] = "set_take" ~> pc[c] = "idle"

(* While a table stays active its frames are sent again and again, however *)
(* often the table is changed.                                             *)
KeepsSending ==
  <>[](current_table # Off) => []<>(pc[Thread] = "schedule")
=============================================================================
