-------------------------- MODULE LinNetworkProofs --------------------------
(***************************************************************************)
(* Proofs about LinNetwork and the LinScheduler in it, for any number of   *)
(* callers, schedule tables, queues, callback tables and routing tables of *)
(* any length, and any CAN frames.  As long as callers exclude each other  *)
(* the scheduler's thread has the indices to itself while it uses them,    *)
(* they are in bounds, and entries are sent in order.  The network runs    *)
(* the scheduler's specification, the callback tables are exact between    *)
(* two calls, the gateway's routes are installed, and the bridge           *)
(* implements a FIFO channel in each direction.                            *)
(***************************************************************************)
EXTENDS LinNetwork, FiniteSetTheorems, SequenceTheorems,
        WellFoundedInduction, TLAPS

-----------------------------------------------------------------------------
(* The scheduler alone.                                                    *)

LEMMA InitInv == Init => SchedulerInv
  BY SchedulerAssumption
  DEF Init, SchedulerInv, TypeOK, OneCaller, SectionsExclusive,
      QuietWhileDisabled, TokenInv, IndexInv, IndexInBounds, Threads, Labels,
      InThreadSection, InCallerSection

(* A thread that takes "active" goes behind its k_sem_take; otherwise it   *)
(* blocks where it is.                                                     *)
LEMMA TakeStep ==
  ASSUME SchedulerInv, NEW t \in Threads, TakeActive(t),
         pc[t] \in {"take", "set_take", "disable_take"},
         UNCHANGED <<shared, locals, hist>>
  PROVE  SchedulerInv'
<1> USE SchedulerAssumption
    DEF SchedulerInv, Threads, shared, locals, hist, InThreadSection,
        InCallerSection
<1>1. CASE active = 0 /\ blocked' = blocked \cup {t} /\ UNCHANGED <<active, pc>>
  BY <1>1 DEF TypeOK, OneCaller, SectionsExclusive, QuietWhileDisabled,
     TokenInv, IndexInv, IndexInBounds
<1>2. CASE active = 1 /\ active' = 0 /\ Goto(t, Taken(pc[t])) /\ UNCHANGED blocked
  <2>1. pc' = [pc EXCEPT ![t] = Taken(pc[t])] /\ blocked = {} /\ current_table # Off
    BY <1>2 DEF Goto, TokenInv
  <2>2. \/ t = Thread /\ Taken(pc[t]) = "table"
        \/ t \in Callers /\ pc[t] = "set_take" /\ Taken(pc[t]) = "set_table"
        \/ t \in Callers /\ pc[t] = "disable_take" /\ Taken(pc[t]) = "disable_store"
    BY DEF Taken, TypeOK
  <2>3. TypeOK'
    BY <1>2, <2>1, <2>2 DEF TypeOK, Labels
  <2>4. OneCaller' /\ SectionsExclusive' /\ QuietWhileDisabled' /\ TokenInv'
    BY <1>2, <2>1, <2>2
    DEF TypeOK, OneCaller, SectionsExclusive, QuietWhileDisabled, TokenInv
  <2>5. IndexInv' /\ IndexInBounds'
    BY <1>2, <2>1, <2>2 DEF TypeOK, IndexInv, IndexInBounds
  <2> QED BY <2>3, <2>4, <2>5
<1> QED BY <1>1, <1>2 DEF TakeActive

(* A give frees "active" or hands it to a thread that waits for it.        *)
LEMMA GiveStep ==
  ASSUME SchedulerInv, NEW t \in Threads, NEW label, GiveActive(t, label),
         \/ t = Thread /\ pc[t] = "give" /\ label = "delay"
         \/ t \in Callers /\ pc[t] = "set_give" /\ label = "idle",
         UNCHANGED <<shared, locals, hist>>
  PROVE  SchedulerInv'
<1> USE SchedulerAssumption
    DEF SchedulerInv, Threads, shared, locals, hist, InThreadSection,
        InCallerSection
<1>1. current_table # Off
  BY DEF QuietWhileDisabled, TokenInv
<1>2. pc[Thread] \in InThreadSection => t = Thread
  BY DEF SectionsExclusive, TypeOK
<1>3. \A c \in Callers : pc[c] \in InCallerSection => t = c
  BY DEF SectionsExclusive, OneCaller, TypeOK
<1>4. CASE blocked = {} /\ active' = 1 /\ Goto(t, label) /\ UNCHANGED blocked
  <2>1. pc' = [pc EXCEPT ![t] = label]
    BY <1>4 DEF Goto
  <2>2. TypeOK'
    BY <1>4, <2>1 DEF TypeOK, Labels
  <2>3. OneCaller' /\ SectionsExclusive' /\ QuietWhileDisabled'
    BY <1>1, <1>2, <1>3, <2>1
    DEF TypeOK, OneCaller, SectionsExclusive, QuietWhileDisabled
  <2>4. TokenInv'
    BY <1>1, <1>2, <1>3, <1>4, <2>1 DEF TypeOK, TokenInv
  <2>5. IndexInv' /\ IndexInBounds'
    BY <1>1, <1>2, <1>3, <2>1 DEF TypeOK, IndexInv, IndexInBounds
  <2> QED BY <2>2, <2>3, <2>4, <2>5
<1>5. ASSUME NEW w \in blocked,
             blocked' = blocked \ {w},
             pc' = [u \in Threads |-> IF u = t THEN label
                                      ELSE IF u = w THEN Taken(pc[w]) ELSE pc[u]],
             UNCHANGED active
      PROVE  SchedulerInv'
  <2>1. w \in Threads /\ w # t /\ active = 0
    BY <1>5 DEF TypeOK, TokenInv
  <2>2. \/ w = Thread /\ pc[w] = "take" /\ Taken(pc[w]) = "table"
        \/ w \in Callers /\ pc[w] = "set_take" /\ Taken(pc[w]) = "set_table"
        \/ w \in Callers /\ pc[w] = "disable_take" /\ Taken(pc[w]) = "disable_store"
    BY <1>5, <2>1 DEF Taken, TypeOK
  <2>3. TypeOK'
    BY <1>5, <2>1, <2>2 DEF TypeOK, Labels
  <2>4. w \in Callers => t = Thread
    BY <2>1, <2>2 DEF OneCaller, TypeOK
  <2>5. OneCaller' /\ SectionsExclusive' /\ QuietWhileDisabled'
    BY <1>1, <1>2, <1>3, <1>5, <2>1, <2>2, <2>4
    DEF TypeOK, OneCaller, SectionsExclusive, QuietWhileDisabled
  <2>6. TokenInv'
    BY <1>1, <1>5, <2>1, <2>2 DEF TypeOK, TokenInv
  <2>7. IndexInv' /\ IndexInBounds'
    BY <1>1, <1>5, <2>1, <2>2 DEF TypeOK, IndexInv, IndexInBounds
  <2> QED BY <2>3, <2>5, <2>6, <2>7
<1> QED BY <1>4, <1>5 DEF GiveActive

(* The steps of the thread.                                                *)
LEMMA ThreadInv ==
  ASSUME SchedulerInv, ThreadStep
  PROVE  SchedulerInv'
<1> USE SchedulerAssumption DEF SchedulerInv, InThreadSection, InCallerSection
<1>1. CASE ThreadTake
  BY <1>1, TakeStep DEF ThreadTake, Threads
<1>2. CASE ReadTable
  BY <1>2 DEF ReadTable, Goto, shared, sem, hist, Threads, Labels, TypeOK,
     OneCaller, SectionsExclusive, QuietWhileDisabled, TokenInv, IndexInv,
     IndexInBounds
<1>3. CASE ReadEntry
  BY <1>3 DEF ReadEntry, Goto, shared, sem, hist, Threads, Labels, TypeOK,
     OneCaller, SectionsExclusive, QuietWhileDisabled, TokenInv, IndexInv,
     IndexInBounds
<1>4. CASE Advance
  <2>1. table = current_table /\ table \in Tables /\ Count[table] \in Nat \ {0}
    BY <1>4 DEF Advance, IndexInv, IndexInBounds
  <2>2. current_table_entry' \in Nat /\ current_table_entry' < Count[table]
    BY <1>4, <2>1 DEF Advance, TypeOK, IndexInBounds
  <2> QED
    BY <1>4, <2>1, <2>2 DEF Advance, Goto, sem, locals, hist, Threads, Labels,
       TypeOK, OneCaller, SectionsExclusive, QuietWhileDisabled, TokenInv,
       IndexInv, IndexInBounds
<1>5. CASE Schedule
  BY <1>5 DEF Schedule, Goto, shared, sem, locals, Threads, Labels, TypeOK,
     OneCaller, SectionsExclusive, QuietWhileDisabled, TokenInv, IndexInv,
     IndexInBounds
<1>6. CASE ThreadGive
  BY <1>6, GiveStep DEF ThreadGive, Threads
<1>7. CASE Delay
  BY <1>7 DEF Delay, Goto, shared, sem, locals, hist, Threads, Labels, TypeOK,
     OneCaller, SectionsExclusive, QuietWhileDisabled, TokenInv, IndexInv,
     IndexInBounds
<1> QED BY <1>1, <1>2, <1>3, <1>4, <1>5, <1>6, <1>7 DEF ThreadStep

(* The steps of a caller.                                                  *)
LEMMA CallerInv ==
  ASSUME Serialized, SchedulerInv, NEW c \in Callers,
         \/ \E index \in Indices : SetActiveTable(c, index)
         \/ Disable(c)
         \/ CallStep(c)
  PROVE  SchedulerInv'
<1> USE SchedulerAssumption DEF SchedulerInv, InThreadSection, InCallerSection
<1>0. c # Thread /\ c \in Threads
  BY DEF Threads
<1>1. ASSUME NEW index \in Indices, SetActiveTable(c, index)
      PROVE  SchedulerInv'
  BY <1>0, <1>1 DEF SetActiveTable, MayCall, Goto, shared, sem, hist, Threads,
     Labels, TypeOK, OneCaller, SectionsExclusive, QuietWhileDisabled,
     TokenInv, IndexInv, IndexInBounds
<1>2. CASE Disable(c)
  BY <1>0, <1>2 DEF Disable, MayCall, Goto, shared, sem, locals, hist, Threads,
     Labels, TypeOK, OneCaller, SectionsExclusive, QuietWhileDisabled,
     TokenInv, IndexInv, IndexInBounds
<1>3. CASE SetTake(c)
  BY <1>0, <1>3, TakeStep DEF SetTake
<1>4. CASE SetTable(c)
  BY <1>0, <1>4 DEF SetTable, Goto, sem, locals, hist, Threads,
     Labels, TypeOK, OneCaller, SectionsExclusive, QuietWhileDisabled,
     TokenInv, IndexInv, IndexInBounds
<1>5. CASE SetEntry(c)
  BY <1>0, <1>5 DEF SetEntry, Goto, sem, locals, Threads,
     Labels, TypeOK, OneCaller, SectionsExclusive, QuietWhileDisabled,
     TokenInv, IndexInv, IndexInBounds
<1>6. CASE SetGive(c)
  BY <1>0, <1>6, GiveStep DEF SetGive
<1>7. CASE DisableTake(c)
  BY <1>0, <1>7, TakeStep DEF DisableTake
<1>8. CASE DisableStore(c)
  BY <1>0, <1>8 DEF DisableStore, Goto, sem, locals, hist, Threads,
     Labels, TypeOK, OneCaller, SectionsExclusive, QuietWhileDisabled,
     TokenInv, IndexInv, IndexInBounds
<1> QED
  BY <1>1, <1>2, <1>3, <1>4, <1>5, <1>6, <1>7, <1>8 DEF CallStep

LEMMA StutterInv ==
  ASSUME SchedulerInv, UNCHANGED vars
  PROVE  SchedulerInv'
  BY DEF vars, shared, sem, locals, hist, SchedulerInv, TypeOK, OneCaller,
     SectionsExclusive, QuietWhileDisabled, TokenInv, IndexInv, IndexInBounds

(* The inductive invariant, when callers exclude each other: the token     *)
(* "active" and what its holder may rely on.                               *)
THEOREM SchedulerInvariant ==
  ASSUME Serialized
  PROVE  Spec => []SchedulerInv
<1>1. Init => SchedulerInv
  BY InitInv
<1>2. SchedulerInv /\ [Next]_vars => SchedulerInv'
  BY ThreadInv, CallerInv, StutterInv DEF Next
<1> QED BY <1>1, <1>2, PTL DEF Spec

(* The thread and a caller never use current_table and                     *)
(* current_table_entry at the same time.                                   *)
THEOREM SectionsAreExclusive ==
  ASSUME Serialized
  PROVE  Spec => []SectionsExclusive
<1>1. SchedulerInv => SectionsExclusive
  BY DEF SchedulerInv
<1> QED BY <1>1, SchedulerInvariant, PTL

(* The thread never reads tables[-1] or an entry beyond the table.         *)
THEOREM IndicesAreInBounds ==
  ASSUME Serialized
  PROVE  Spec => []IndexInBounds
<1>1. SchedulerInv => IndexInBounds
  BY DEF SchedulerInv
<1> QED BY <1>1, SchedulerInvariant, PTL

(* A disabled scheduler sends nothing.                                     *)
THEOREM DisabledIsQuiet ==
  ASSUME Serialized
  PROVE  Spec => []QuietWhileDisabled
<1>1. SchedulerInv => QuietWhileDisabled
  BY DEF SchedulerInv
<1> QED BY <1>1, SchedulerInvariant, PTL
-----------------------------------------------------------------------------
(* The order in which the entries of a table are sent.                     *)

NextEntry(t, e) == IF e + 1 >= Count[t] THEN 0 ELSE e + 1

(* After a table was set the shared index is 0 until the thread has gone   *)
(* through its section once; after that it is one beyond the last frame,   *)
(* except between the two assignments of set_active_table.  From "advance" *)
(* on the index to send is in the thread's local.                          *)
OrderInv ==
  /\ pc[Thread] = "schedule" => current_table_entry = NextEntry(table, entry)
  /\ restart =>
       /\ pc[Thread] # "schedule" => current_table_entry = 0
       /\ pc[Thread] \in {"advance", "schedule"} => entry = 0
  /\ ~restart /\ current_table # Off /\ (\A c \in Callers : pc[c] # "set_entry") =>
       /\ last.table = current_table
       /\ last.entry < Count[current_table]
       /\ pc[Thread] # "schedule" =>
            current_table_entry = NextEntry(current_table, last.entry)
       /\ pc[Thread] \in {"advance", "schedule"} =>
            entry = NextEntry(current_table, last.entry)

LEMMA NextEntryIsModulo ==
  ASSUME NEW t \in Tables, NEW e \in Nat, e < Count[t]
  PROVE  NextEntry(t, e) = (e + 1) % Count[t]
<1> DEFINE k == Count[t]
<1>1. k \in Nat \ {0}
  BY SchedulerAssumption
<1> HIDE DEF k
<1>2. e < k
  BY DEF k
<1>3. (IF e + 1 >= k THEN 0 ELSE e + 1) = (e + 1) % k
  <2>1. CASE e + 1 >= k
    <3>1. e + 1 = k
      BY <1>1, <1>2, <2>1
    <3>2. k % k = 0
      BY <1>1
    <3> QED BY <2>1, <3>1, <3>2
  <2>2. CASE ~(e + 1 >= k)
    <3>1. (e + 1) % k = e + 1
      BY <1>1, <2>2
    <3> QED BY <2>2, <3>1
  <2> QED BY <2>1, <2>2
<1> QED BY <1>3 DEF NextEntry, k

(* A step that changes places and the semaphore only.                      *)
LEMMA OrderKept ==
  ASSUME OrderInv, UNCHANGED <<shared, entry, hist>>,
         pc[Thread] = "schedule" => pc'[Thread] = pc[Thread] /\ table' = table,
         pc'[Thread] \in {"advance", "schedule"} => pc'[Thread] = pc[Thread],
         \A c \in Callers : pc[c] = "set_entry" => pc'[c] = pc[c]
  PROVE  OrderInv'
<1>1. /\ current_table' = current_table /\ current_table_entry' = current_table_entry
      /\ entry' = entry /\ restart' = restart /\ last' = last
  BY DEF shared, hist
<1>2. (\A c \in Callers : pc'[c] # "set_entry") => (\A c \in Callers : pc[c] # "set_entry")
  OBVIOUS
<1>3. \A t, e : NextEntry(t, e)' = NextEntry(t, e)
  BY DEF NextEntry
<1> QED BY <1>1, <1>2, <1>3 DEF OrderInv, NextEntry

(* Taking "active" or giving it.                                           *)
LEMMA OrderTake ==
  ASSUME SchedulerInv, OrderInv, NEW t \in Threads, TakeActive(t),
         pc[t] \in {"take", "set_take", "disable_take"},
         UNCHANGED <<shared, locals, hist>>
  PROVE  OrderInv'
<1>1. Taken(pc[t]) \notin {"advance", "schedule"}
  BY DEF Taken
<1>2. pc' = pc \/ pc' = [pc EXCEPT ![t] = Taken(pc[t])]
  BY DEF TakeActive, Goto
<1>3. pc \in [Threads -> Labels] /\ Thread \in Threads /\ Callers \subseteq Threads
  BY DEF SchedulerInv, TypeOK, Threads
<1>4. \A u \in Threads : \/ pc'[u] = pc[u]
                         \/ u = t /\ pc'[u] = Taken(pc[t])
  BY <1>2, <1>3
<1> QED BY <1>1, <1>3, <1>4, OrderKept DEF locals

LEMMA OrderGive ==
  ASSUME SchedulerInv, OrderInv, NEW t \in Threads, NEW label, GiveActive(t, label),
         pc[t] \in {"give", "set_give"}, label \in {"delay", "idle"},
         UNCHANGED <<shared, locals, hist>>
  PROVE  OrderInv'
<1>1. pc \in [Threads -> Labels] /\ Thread \in Threads /\ Callers \subseteq Threads
      /\ blocked \subseteq Threads
      /\ \A w \in blocked : pc[w] \in {"take", "set_take", "disable_take"}
  BY DEF SchedulerInv, TypeOK, Threads
<1>2. \A w \in blocked : Taken(pc[w]) \notin {"advance", "schedule"}
  BY <1>1 DEF Taken
<1>3. ASSUME NEW u \in Threads
      PROVE  \/ pc'[u] = pc[u]
             \/ u = t /\ pc'[u] = label
             \/ \E w \in blocked : u = w /\ pc'[u] = Taken(pc[w])
  BY <1>1 DEF GiveActive, Goto
<1> QED BY <1>1, <1>2, <1>3, OrderKept DEF locals

LEMMA OrderThread ==
  ASSUME SchedulerInv, OrderInv, ThreadStep
  PROVE  OrderInv'
<1> USE SchedulerAssumption
<1>1. pc \in [Threads -> Labels] /\ Thread \in Threads /\ Callers \subseteq Threads \ {Thread}
  BY DEF SchedulerInv, TypeOK, Threads
<1>2. CASE ThreadTake
  BY <1>1, <1>2, OrderTake DEF ThreadTake
<1>3. CASE ThreadGive
  BY <1>1, <1>3, OrderGive DEF ThreadGive
<1>4. CASE ReadTable
  BY <1>1, <1>4, OrderKept DEF ReadTable, Goto
<1>5. CASE Delay
  BY <1>1, <1>5, OrderKept DEF Delay, Goto, locals
<1>6. CASE ReadEntry
  <2>1. /\ pc[Thread] = "entry" /\ pc'[Thread] = "advance"
        /\ \A c \in Callers : pc'[c] = pc[c]
        /\ entry' = current_table_entry
        /\ UNCHANGED <<current_table, current_table_entry, restart, last>>
    BY <1>1, <1>6 DEF ReadEntry, Goto, shared, hist
  <2> QED BY <2>1 DEF OrderInv, NextEntry
<1>7. CASE Advance
  <2>1. /\ pc[Thread] = "advance" /\ pc'[Thread] = "schedule"
        /\ \A c \in Callers : pc'[c] = pc[c]
        /\ current_table_entry' = NextEntry(table, entry)
        /\ UNCHANGED <<current_table, table, entry, restart, last>>
    BY <1>1, <1>7 DEF Advance, Goto, locals, hist, NextEntry
  <2> QED BY <2>1 DEF OrderInv, NextEntry
<1>8. CASE Schedule
  <2>1. /\ pc[Thread] = "schedule" /\ pc'[Thread] = "give"
        /\ last' = [table |-> table, entry |-> entry] /\ restart' = FALSE
        /\ UNCHANGED <<current_table, current_table_entry>>
    BY <1>1, <1>8 DEF Schedule, Goto, shared
  <2>2. table = current_table /\ entry < Count[table]
        /\ current_table_entry = NextEntry(table, entry)
    BY <2>1 DEF SchedulerInv, IndexInv, IndexInBounds, OrderInv
  <2>3. last'.table = table /\ last'.entry = entry
    BY <2>1
  <2> QED BY <2>1, <2>2, <2>3 DEF OrderInv, NextEntry
<1> QED BY <1>2, <1>3, <1>4, <1>5, <1>6, <1>7, <1>8 DEF ThreadStep

LEMMA OrderCaller ==
  ASSUME SchedulerInv, OrderInv, NEW c \in Callers,
         \/ \E index \in Indices : SetActiveTable(c, index)
         \/ Disable(c)
         \/ CallStep(c)
  PROVE  OrderInv'
<1> USE SchedulerAssumption
<1>1. pc \in [Threads -> Labels] /\ Thread \in Threads /\ c \in Threads \ {Thread}
      /\ Callers \subseteq Threads
  BY DEF SchedulerInv, TypeOK, Threads
<1>2. ASSUME NEW index \in Indices, SetActiveTable(c, index) PROVE OrderInv'
  BY <1>1, <1>2, OrderKept DEF SetActiveTable, MayCall, Goto
<1>3. CASE Disable(c)
  BY <1>1, <1>3, OrderKept DEF Disable, MayCall, Goto, locals
<1>4. CASE SetTake(c)
  BY <1>1, <1>4, OrderTake DEF SetTake
<1>5. CASE DisableTake(c)
  BY <1>1, <1>5, OrderTake DEF DisableTake
<1>6. CASE SetGive(c)
  BY <1>1, <1>6, OrderGive DEF SetGive
<1>7. CASE SetTable(c)
  <2>1. /\ pc[c] = "set_table" /\ pc'[c] = "set_entry" /\ pc'[Thread] = pc[Thread]
        /\ UNCHANGED <<current_table_entry, table, entry, restart, last>>
    BY <1>1, <1>7 DEF SetTable, Goto, locals, hist
  <2> QED BY <2>1 DEF OrderInv, NextEntry
<1>8. CASE SetEntry(c)
  <2>1. /\ pc[c] = "set_entry" /\ pc'[Thread] = pc[Thread]
        /\ current_table_entry' = 0 /\ restart' = TRUE
    BY <1>1, <1>8 DEF SetEntry, Goto
  <2>2. pc[Thread] \notin {"advance", "schedule"}
    BY <2>1 DEF SchedulerInv, SectionsExclusive, InThreadSection, InCallerSection
  <2> QED BY <2>1, <2>2 DEF OrderInv
<1>9. CASE DisableStore(c)
  <2>1. /\ current_table' = Off /\ pc'[Thread] = pc[Thread]
        /\ UNCHANGED <<current_table_entry, table, entry, restart, last>>
    BY <1>1, <1>9 DEF DisableStore, Goto, locals, hist
  <2> QED BY <2>1 DEF OrderInv, NextEntry
<1> QED BY <1>2, <1>3, <1>4, <1>5, <1>6, <1>7, <1>8, <1>9 DEF CallStep

LEMMA OrderInit == Init => OrderInv
BY SchedulerAssumption DEF Init, OrderInv, Threads

LEMMA OrderStutter == OrderInv /\ UNCHANGED vars => OrderInv'
BY DEF OrderInv, NextEntry, vars, shared, locals, hist

(* What the step that sends a frame sends.                                 *)
LEMMA SentInOrder ==
  ASSUME SchedulerInv, OrderInv, Next, pc[Thread] = "schedule", pc'[Thread] = "give"
  PROVE  IF restart THEN last' = [table |-> current_table, entry |-> 0]
         ELSE last' = [table |-> last.table,
                       entry |-> (last.entry + 1) % Count[last.table]]
<1> USE SchedulerAssumption
<1>1. Schedule
  <2>1. pc \in [Threads -> Labels] /\ Thread \in Threads /\ Callers \subseteq Threads \ {Thread}
        /\ \A w \in blocked : pc[w] \in {"take", "set_take", "disable_take"}
    BY DEF SchedulerInv, TypeOK, Threads
  <2>2. ASSUME NEW c \in Callers,
               \/ \E index \in Indices : SetActiveTable(c, index)
               \/ Disable(c)
               \/ CallStep(c)
        PROVE  pc'[Thread] = pc[Thread]
    <3>1. ASSUME TakeActive(c) PROVE pc'[Thread] = pc[Thread]
      BY <2>1, <3>1 DEF TakeActive, Goto
    <3>2. ASSUME GiveActive(c, "idle") PROVE pc'[Thread] = pc[Thread]
      BY <2>1, <3>2 DEF GiveActive, Goto
    <3> QED BY <2>1, <2>2, <3>1, <3>2 DEF SetActiveTable, Disable, CallStep, SetTake,
               SetTable, SetEntry, SetGive, DisableTake, DisableStore, Goto
  <2>3. ThreadStep
    BY <2>2 DEF Next
  <2> QED BY <2>3 DEF ThreadStep, ThreadTake, ReadTable, ReadEntry, Advance, ThreadGive, Delay
<1>2. last' = [table |-> table, entry |-> entry]
  BY <1>1 DEF Schedule
<1>3. table = current_table /\ table \in Tables /\ current_table # Off
      /\ last.entry \in Nat
  BY DEF SchedulerInv, TypeOK, IndexInv, IndexInBounds
<1>4. \A c \in Callers : pc[c] # "set_entry"
  BY DEF SchedulerInv, SectionsExclusive, InThreadSection, InCallerSection
<1>5. CASE restart
  BY <1>2, <1>3, <1>5 DEF OrderInv
<1>6. CASE ~restart
  <2>1. /\ last.table = current_table /\ last.entry < Count[current_table]
        /\ entry = NextEntry(current_table, last.entry)
    BY <1>3, <1>4, <1>6 DEF OrderInv
  <2>2. entry = (last.entry + 1) % Count[last.table]
    BY <1>3, <2>1, NextEntryIsModulo
  <2> QED BY <1>2, <1>3, <1>6, <2>1, <2>2
<1> QED BY <1>5, <1>6

(* "start from the beginning again": for tables of any length and however  *)
(* set_active_table, disable and the thread interleave, a table that was   *)
(* set is sent from entry 0, and then its entries follow each other round  *)
(* the table, none left out and none sent twice.                           *)
THEOREM EntriesAreInOrder ==
  ASSUME Serialized
  PROVE  Spec => EntriesInOrder
<1>1. Init => SchedulerInv /\ OrderInv
  BY InitInv, OrderInit
<1>2. SchedulerInv /\ OrderInv /\ [Next]_vars => (SchedulerInv /\ OrderInv)'
  BY ThreadInv, CallerInv, StutterInv, OrderThread, OrderCaller, OrderStutter DEF Next
<1>3. SchedulerInv /\ OrderInv /\ [Next]_vars =>
        [pc[Thread] = "schedule" /\ pc'[Thread] = "give" =>
           IF restart THEN last' = [table |-> current_table, entry |-> 0]
           ELSE last' = [table |-> last.table,
                         entry |-> (last.entry + 1) % Count[last.table]]]_vars
  BY SentInOrder
<1> QED BY <1>1, <1>2, <1>3, PTL DEF Spec, EntriesInOrder
-----------------------------------------------------------------------------
(* What the callback tables hold.                                          *)

Bridge == {"bridge"}

Slot ==
  [frame_id : Nat, type : {"incoming", "outgoing"},
   cb : AppCallbacks \cup {NoCallback} \cup Bridge]

Fields == {"frame_id", "type", "cb"}

(* The slots that hold a complete registration: a slot being filled does   *)
(* not yet, and while slots move down the one being overwritten is free.   *)
Live(n) ==
  IF call[n].step = "none" THEN 0 .. used_callbacks[n] - 1
  ELSE IF call[n].step = "shift" THEN (0 .. used_callbacks[n]) \ {call[n].index}
  ELSE 0 .. used_callbacks[n] - 2

TableTypes(n) ==
  /\ used_callbacks[n] \in 0 .. MaxFrames
  /\ callbacks[n] \in [Slots -> Slot]
  /\ call[n] \in [step : Fields \cup {"none", "shift"}, index : Nat, entry : Slot]
  /\ call[n].step = "none" => call[n] = NoCall

(* What a call in progress has done to the table so far.                   *)
CallInv(n) ==
  /\ call[n].step = "shift" =>
       call[n].index < used_callbacks[n] /\ used_callbacks[n] < MaxFrames
  /\ call[n].step \in Fields =>
       /\ call[n].index + 1 = used_callbacks[n]
       /\ \A i \in Live(n) : callbacks[n][i].frame_id # call[n].entry.frame_id
  /\ call[n].step \in {"type", "cb"} =>
       callbacks[n][call[n].index].frame_id = call[n].entry.frame_id
  /\ call[n].step = "cb" =>
       callbacks[n][call[n].index].type = call[n].entry.type

LiveInv(n) ==
  /\ \A i, j \in Live(n) : callbacks[n][i].frame_id = callbacks[n][j].frame_id => i = j
  /\ registered[n] = {callbacks[n][i] : i \in Live(n)}

TableInv(n) == TableTypes(n) /\ CallInv(n) /\ LiveInv(n)

AlFunctions ==
  /\ DOMAIN callbacks = Nodes
  /\ DOMAIN used_callbacks = Nodes
  /\ DOMAIN call = Nodes
  /\ DOMAIN registered = Nodes

AlInv == AlFunctions /\ \A n \in Nodes : TableInv(n)
-----------------------------------------------------------------------------
(* The callback tables.                                                    *)

LEMMA MinOfNaturals ==
  ASSUME NEW S \in SUBSET Nat, S # {}
  PROVE  Min(S) \in S /\ \A y \in S : Min(S) <= y
<1>1. \A x, y \in Nat : <<y, x>> \in OpToRel(<, Nat) <=> y < x
  BY DEF OpToRel
<1>2. PICK R : IsWellFoundedOn(R, Nat) /\ \A x, y \in Nat : <<y, x>> \in R <=> y < x
  BY <1>1, NatLessThanWellFounded, Zenon
<1>3. PICK x \in S : \A y \in S : ~(<<y, x>> \in R)
  BY <1>2, WFMin
<1>4. ASSUME NEW y \in S PROVE x <= y
  <2>1. ~(y < x)
    BY <1>2, <1>3
  <2> QED BY <2>1
<1> QED BY <1>3, <1>4 DEF Min

(* A step of one node's application leaves the tables of the others alone. *)
LEMMA OtherTables ==
  ASSUME AlInv, NEW n \in Nodes, AlFunctions', TableInv(n)',
         \A m \in Nodes \ {n} :
           /\ callbacks'[m] = callbacks[m]
           /\ used_callbacks'[m] = used_callbacks[m]
           /\ call'[m] = call[m]
           /\ registered'[m] = registered[m]
  PROVE  AlInv'
<1>1. ASSUME NEW m \in Nodes \ {n} PROVE TableInv(m)'
  <2>1. TableTypes(m)' /\ (Live(m)' = Live(m))
    BY DEF AlInv, TableInv, TableTypes, Live
  <2>2. CallInv(m)' /\ LiveInv(m)'
    BY <2>1 DEF AlInv, TableInv, CallInv, LiveInv
  <2> QED BY <2>1, <2>2 DEF TableInv
<1> QED BY <1>1 DEF AlInv

LEMMA RegisterStep ==
  ASSUME AlInv, NEW n \in Nodes, NEW e \in Slot, Register(n, e)
  PROVE  AlInv'
<1> USE AbstractLinAssumption DEF Slots, Fields
<1>1. /\ call[n] = NoCall
      /\ used_callbacks' = [used_callbacks EXCEPT ![n] = @ + 1]
      /\ call' = [call EXCEPT ![n] =
                    [step |-> "frame_id", index |-> used_callbacks[n], entry |-> e]]
      /\ callbacks' = callbacks /\ registered' = registered
      /\ ~HasMatch(n, e.frame_id)
      /\ MaxFrames - used_callbacks[n] > 0
  BY DEF Register, Allocate, FreeSlots
<1>2. AlFunctions' /\ TableTypes(n) /\ CallInv(n) /\ LiveInv(n)
  BY <1>1 DEF AlInv, AlFunctions, TableInv
<1>3. /\ used_callbacks'[n] = used_callbacks[n] + 1
      /\ call'[n] = [step |-> "frame_id", index |-> used_callbacks[n], entry |-> e]
  BY <1>1 DEF AlInv, AlFunctions
<1>4. TableTypes(n)'
  BY <1>1, <1>2, <1>3 DEF TableTypes
<1>5. Live(n) = 0 .. used_callbacks[n] - 1 /\ Live(n)' = 0 .. used_callbacks[n] - 1
  BY <1>1, <1>2, <1>3 DEF Live, NoCall, TableTypes
<1>6. \A i \in Live(n) : callbacks[n][i].frame_id # e.frame_id
  BY <1>1, <1>2, <1>5 DEF HasMatch, Matching, TableTypes
<1>7. CallInv(n)'
  BY <1>1, <1>2, <1>3, <1>5, <1>6 DEF CallInv, TableTypes
<1>8. LiveInv(n)'
  BY <1>1, <1>2, <1>5 DEF LiveInv
<1>9. \A m \in Nodes \ {n} : used_callbacks'[m] = used_callbacks[m] /\ call'[m] = call[m]
  BY <1>1 DEF AlInv, AlFunctions
<1> QED BY <1>1, <1>2, <1>4, <1>7, <1>8, <1>9, OtherTables DEF TableInv

LEMMA FillStep ==
  ASSUME AlInv, NEW n \in Nodes, Fill(n)
  PROVE  AlInv'
<1> USE AbstractLinAssumption DEF Slots, Fields
<1> DEFINE c == call[n]
           k == c.index
           old == callbacks[n][k]
           new == [old EXCEPT ![c.step] = c.entry[c.step]]
<1>1. /\ c.step \in Fields
      /\ callbacks' = [callbacks EXCEPT ![n][k][c.step] = c.entry[c.step]]
      /\ used_callbacks' = used_callbacks
  BY DEF Fill, FieldAfter
<1>2. AlFunctions /\ TableTypes(n) /\ CallInv(n) /\ LiveInv(n)
  BY <1>1 DEF AlInv, TableInv
<1>3. k \in Slots /\ k + 1 = used_callbacks[n] /\ old \in Slot /\ c.entry \in Slot
  BY <1>1, <1>2 DEF TableTypes, CallInv
<1>4. /\ callbacks'[n] = [callbacks[n] EXCEPT ![k] = new]
      /\ callbacks'[n][k] = new
      /\ \A i \in Slots \ {k} : callbacks'[n][i] = callbacks[n][i]
      /\ \A m \in Nodes \ {n} : callbacks'[m] = callbacks[m]
  BY <1>1, <1>2, <1>3 DEF AlFunctions, TableTypes
<1>5. /\ new \in Slot
      /\ c.step = "frame_id" => new.frame_id = c.entry.frame_id
      /\ c.step = "type" => new.frame_id = old.frame_id /\ new.type = c.entry.type
      /\ c.step = "cb" => /\ new.frame_id = old.frame_id /\ new.type = old.type
                          /\ new.cb = c.entry.cb
  BY <1>1, <1>3 DEF Slot
<1> HIDE DEF new
<1>6. DOMAIN callbacks' = Nodes /\ callbacks'[n] \in [Slots -> Slot]
  BY <1>1, <1>2, <1>3, <1>4, <1>5 DEF AlFunctions, TableTypes
<1>7. Live(n) = 0 .. used_callbacks[n] - 2 /\ \A i \in Live(n) : i \in Slots \ {k}
  BY <1>1, <1>2, <1>3 DEF Live, TableTypes
<1>8. CASE c.step = "cb"
  <2>1. call' = [call EXCEPT ![n] = NoCall]
        /\ registered' = [registered EXCEPT ![n] = @ \cup {c.entry}]
    BY <1>8 DEF Fill, FieldAfter
  <2>2. AlFunctions' /\ call'[n] = NoCall /\ registered'[n] = registered[n] \cup {c.entry}
    BY <1>1, <1>2, <1>6, <2>1 DEF AlFunctions
  <2>3. TableTypes(n)'
    BY <1>1, <1>2, <1>6, <2>2 DEF TableTypes, NoCall, EmptySlot, Slot
  <2>4. Live(n)' = Live(n) \cup {k}
    <3>1. Live(n)' = 0 .. used_callbacks[n] - 1
      BY <1>1, <2>2 DEF Live, NoCall
    <3>2. used_callbacks[n] \in Nat /\ k \in Nat /\ k = used_callbacks[n] - 1
      BY <1>2, <1>3 DEF TableTypes
    <3> QED BY <1>7, <3>1, <3>2
  <2>5. new = c.entry
    BY <1>2, <1>3, <1>5, <1>8 DEF CallInv, Slot
  <2>6. LiveInv(n)'
    <3>1. \A i \in Live(n) : callbacks[n][i].frame_id # c.entry.frame_id
      BY <1>1, <1>2 DEF CallInv
    <3>2. \A i, j \in Live(n)' :
            callbacks'[n][i].frame_id = callbacks'[n][j].frame_id => i = j
      BY <1>2, <1>4, <1>7, <2>4, <2>5, <3>1 DEF LiveInv
    <3>3. registered'[n] = {callbacks'[n][i] : i \in Live(n)'}
      BY <1>2, <1>4, <1>7, <2>2, <2>4, <2>5 DEF LiveInv
    <3> QED BY <3>2, <3>3 DEF LiveInv
  <2>7. CallInv(n)'
    BY <2>2 DEF CallInv, NoCall
  <2>8. \A m \in Nodes \ {n} : call'[m] = call[m] /\ registered'[m] = registered[m]
    BY <1>2, <2>1 DEF AlFunctions
  <2> QED BY <1>1, <1>4, <2>2, <2>3, <2>6, <2>7, <2>8, OtherTables DEF TableInv
<1>9. CASE c.step \in {"frame_id", "type"}
  <2> DEFINE s == IF c.step = "frame_id" THEN "type" ELSE "cb"
  <2>1. call' = [call EXCEPT ![n].step = s] /\ registered' = registered
    BY <1>9 DEF Fill, FieldAfter
  <2>2. AlFunctions' /\ call'[n] = [c EXCEPT !.step = s]
    BY <1>1, <1>2, <1>6, <2>1 DEF AlFunctions
  <2>3. /\ call'[n].step = s /\ call'[n].index = k /\ call'[n].entry = c.entry
        /\ call'[n] \in [step : Fields \cup {"none", "shift"}, index : Nat, entry : Slot]
    BY <1>2, <2>2 DEF TableTypes
  <2>4. TableTypes(n)'
    BY <1>1, <1>2, <1>6, <2>3 DEF TableTypes
  <2>5. Live(n)' = Live(n)
    BY <1>1, <1>7, <2>3 DEF Live
  <2>6. LiveInv(n)'
    BY <1>2, <1>4, <1>7, <2>1, <2>5 DEF LiveInv
  <2>7. CallInv(n)'
    <3>1. \A i \in Live(n)' : callbacks'[n][i].frame_id # call'[n].entry.frame_id
      BY <1>1, <1>2, <1>4, <1>7, <2>3, <2>5 DEF CallInv
    <3>2. /\ callbacks'[n][k].frame_id = c.entry.frame_id
          /\ s = "cb" => callbacks'[n][k].type = c.entry.type
      BY <1>2, <1>4, <1>5, <1>9 DEF CallInv
    <3> QED BY <1>1, <1>3, <2>3, <3>1, <3>2 DEF CallInv
  <2>8. \A m \in Nodes \ {n} : call'[m] = call[m] /\ registered'[m] = registered[m]
    BY <1>2, <2>1 DEF AlFunctions
  <2> QED BY <1>1, <1>4, <2>2, <2>4, <2>6, <2>7, <2>8, OtherTables DEF TableInv
<1> QED BY <1>1, <1>8, <1>9

(* Where al_unregister goes on: nothing left to move ends the call.        *)
LEMMA ShiftFromStep ==
  ASSUME NEW n \in Nodes, AlFunctions', TableTypes(n), NEW i \in Nat,
         used_callbacks'[n] < MaxFrames, used_callbacks'[n] \in Nat,
         i <= used_callbacks'[n],
         callbacks'[n] \in [Slots -> Slot],
         call'[n] = ShiftFrom(i, used_callbacks'[n])
  PROVE  /\ TableTypes(n)'
         /\ CallInv(n)'
         /\ Live(n)' = (0 .. used_callbacks'[n]) \ {i}
<1> USE AbstractLinAssumption DEF Slots, Fields
<1>1. CASE i < used_callbacks'[n]
  <2>1. call'[n] = [step |-> "shift", index |-> i, entry |-> EmptySlot]
    BY <1>1 DEF ShiftFrom
  <2>2. EmptySlot \in Slot
    BY DEF EmptySlot, Slot
  <2>3. TableTypes(n)'
    BY <1>1, <2>1, <2>2 DEF TableTypes
  <2>4. CallInv(n)' /\ Live(n)' = (0 .. used_callbacks'[n]) \ {i}
    BY <1>1, <2>1 DEF CallInv, Live
  <2> QED BY <2>3, <2>4
<1>2. CASE ~(i < used_callbacks'[n])
  <2>1. call'[n] = NoCall /\ i = used_callbacks'[n]
    BY <1>2 DEF ShiftFrom
  <2>2. TableTypes(n)' /\ CallInv(n)'
    BY <2>1 DEF TableTypes, CallInv, NoCall, EmptySlot, Slot
  <2>3. Live(n)' = 0 .. used_callbacks'[n] - 1
    BY <2>1 DEF Live, NoCall
  <2> QED BY <2>1, <2>2, <2>3
<1> QED BY <1>1, <1>2

LEMMA UnregisterStep ==
  ASSUME AlInv, NEW n \in Nodes, NEW id, Unregister(n, id)
  PROVE  AlInv'
<1> USE AbstractLinAssumption DEF Slots, Fields
<1> DEFINE k == Min(Matching(n, id))
           u == used_callbacks[n]
<1>1. /\ call[n] = NoCall
      /\ Matching(n, id) # {}
      /\ call' = [call EXCEPT ![n] = ShiftFrom(k, u - 1)]
      /\ registered' = [registered EXCEPT ![n] = {e \in @ : e.frame_id # id}]
      /\ used_callbacks' = [used_callbacks EXCEPT ![n] = @ - 1]
      /\ callbacks' = callbacks
  BY DEF Unregister, HasMatch
<1>2. AlFunctions /\ TableTypes(n) /\ CallInv(n) /\ LiveInv(n)
  BY DEF AlInv, TableInv
<1>3. k \in Matching(n, id)
  BY <1>1, MinOfNaturals DEF Matching
<1>4. k \in Slots /\ k < u /\ callbacks[n][k].frame_id = id
  BY <1>3 DEF Matching
<1> HIDE DEF k
<1>5. /\ AlFunctions'
      /\ call'[n] = ShiftFrom(k, u - 1)
      /\ registered'[n] = {e \in registered[n] : e.frame_id # id}
      /\ used_callbacks'[n] = u - 1
  BY <1>1, <1>2 DEF AlFunctions
<1>6. /\ TableTypes(n)'
      /\ CallInv(n)'
      /\ Live(n)' = (0 .. u - 1) \ {k}
  <2>1. u - 1 \in Nat /\ u - 1 < MaxFrames /\ k <= u - 1 /\ k \in Nat
    BY <1>2, <1>4 DEF TableTypes
  <2>2. callbacks'[n] \in [Slots -> Slot]
    BY <1>1, <1>2 DEF TableTypes
  <2> QED BY <1>2, <1>5, <2>1, <2>2, ShiftFromStep
<1>7. Live(n) = 0 .. u - 1
  BY <1>1 DEF Live, NoCall
<1>8. LiveInv(n)'
  <2>1. \A i \in Live(n) : callbacks[n][i].frame_id = id <=> i = k
    <3>1. k \in Live(n)
      BY <1>2, <1>4, <1>7 DEF TableTypes
    <3>2. \A i, j \in Live(n) :
            callbacks[n][i].frame_id = callbacks[n][j].frame_id => i = j
      BY <1>2 DEF LiveInv
    <3> QED BY <1>4, <3>1, <3>2
  <2>2. registered'[n] = {callbacks[n][i] : i \in Live(n) \ {k}}
    BY <1>2, <1>5, <2>1 DEF LiveInv
  <2> QED BY <1>1, <1>2, <1>6, <1>7, <2>2 DEF LiveInv
<1>9. \A m \in Nodes \ {n} : /\ call'[m] = call[m]
                            /\ registered'[m] = registered[m]
                            /\ used_callbacks'[m] = used_callbacks[m]
  BY <1>1, <1>2 DEF AlFunctions
<1> QED BY <1>1, <1>5, <1>6, <1>8, <1>9, OtherTables DEF TableInv

LEMMA ShiftStep ==
  ASSUME AlInv, NEW n \in Nodes, Shift(n)
  PROVE  AlInv'
<1> USE AbstractLinAssumption DEF Slots, Fields
<1> DEFINE k == call[n].index
           u == used_callbacks[n]
<1>1. /\ call[n].step = "shift"
      /\ callbacks' = [callbacks EXCEPT ![n][k] = callbacks[n][k + 1]]
      /\ call' = [call EXCEPT ![n] = ShiftFrom(k + 1, u)]
      /\ used_callbacks' = used_callbacks
      /\ registered' = registered
  BY DEF Shift
<1>2. AlFunctions /\ TableTypes(n) /\ CallInv(n) /\ LiveInv(n)
  BY DEF AlInv, TableInv
<1>3. k \in Slots /\ k < u /\ u < MaxFrames /\ k + 1 \in Slots
  BY <1>1, <1>2 DEF TableTypes, CallInv
<1>4. /\ AlFunctions'
      /\ call'[n] = ShiftFrom(k + 1, u)
      /\ callbacks'[n] = [callbacks[n] EXCEPT ![k] = callbacks[n][k + 1]]
      /\ \A m \in Nodes \ {n} : callbacks'[m] = callbacks[m] /\ call'[m] = call[m]
  BY <1>1, <1>2 DEF AlFunctions
<1>5. /\ callbacks'[n] \in [Slots -> Slot]
      /\ \A i \in Slots : callbacks'[n][i] = IF i = k THEN callbacks[n][k + 1]
                                             ELSE callbacks[n][i]
  BY <1>2, <1>3, <1>4 DEF TableTypes
<1>6. /\ TableTypes(n)'
      /\ CallInv(n)'
      /\ Live(n)' = (0 .. u) \ {k + 1}
  <2>1. /\ used_callbacks'[n] \in Nat /\ used_callbacks'[n] < MaxFrames
        /\ k + 1 <= used_callbacks'[n] /\ k + 1 \in Nat
    BY <1>1, <1>2, <1>3 DEF TableTypes
  <2>2. call'[n] = ShiftFrom(k + 1, used_callbacks'[n])
    BY <1>1, <1>4
  <2> HIDE DEF k
  <2>3. /\ TableTypes(n)'
        /\ CallInv(n)'
        /\ Live(n)' = (0 .. used_callbacks'[n]) \ {k + 1}
    BY <1>2, <1>4, <1>5, <2>1, <2>2, ShiftFromStep
  <2> QED BY <1>1, <2>3
<1>7. Live(n) = (0 .. u) \ {k} /\ u \in Nat
  BY <1>1, <1>2 DEF Live, TableTypes
<1>8. LiveInv(n)'
  <2> DEFINE from(i) == IF i = k THEN k + 1 ELSE i
  <2>1. \A i \in Live(n)' : from(i) \in Live(n) /\ callbacks'[n][i] = callbacks[n][from(i)]
    BY <1>3, <1>5, <1>6, <1>7
  <2>2. \A j \in Live(n) : \E i \in Live(n)' : from(i) = j
    BY <1>3, <1>6, <1>7
  <2>3. \A i, j \in Live(n)' : from(i) = from(j) => i = j
    BY <1>3, <1>6
  <2> HIDE DEF from
  <2>4. {callbacks'[n][i] : i \in Live(n)'} = {callbacks[n][i] : i \in Live(n)}
    BY <2>1, <2>2
  <2>5. \A i, j \in Live(n)' :
          callbacks'[n][i].frame_id = callbacks'[n][j].frame_id => i = j
    BY <1>2, <2>1, <2>3 DEF LiveInv
  <2> QED BY <1>1, <1>2, <2>4, <2>5 DEF LiveInv
<1> QED BY <1>1, <1>4, <1>6, <1>8, OtherTables DEF TableInv

LEMMA CountBelow ==
  ASSUME NEW k \in Nat
  PROVE  IsFiniteSet(0 .. k - 1) /\ Cardinality(0 .. k - 1) = k
<1>1. 0 \in Int /\ k - 1 \in Int
  OBVIOUS
<1>2. /\ IsFiniteSet(0 .. k - 1)
      /\ Cardinality(0 .. k - 1) = IF 0 > k - 1 THEN 0 ELSE k - 1 - 0 + 1
  BY <1>1, FS_Interval, ZenonT(30)
<1> QED BY <1>2

(* The invariant says what TableExact says once a call is over.            *)
LEMMA AlInvIsExact == AlInv => TableExact
<1> SUFFICES ASSUME AlInv, NEW n \in Nodes, call[n] = NoCall
             PROVE  /\ {callbacks[n][i] : i \in 0 .. used_callbacks[n] - 1} = registered[n]
                    /\ Cardinality(registered[n]) = used_callbacks[n]
                    /\ \A d, e \in registered[n] : d.frame_id = e.frame_id => d = e
  BY DEF TableExact
<1> DEFINE u == used_callbacks[n]
           S == 0 .. u - 1
           f == [i \in S |-> callbacks[n][i]]
<1>1. TableTypes(n) /\ LiveInv(n) /\ Live(n) = S
  BY DEF AlInv, TableInv, Live, NoCall
<1>2. /\ {callbacks[n][i] : i \in S} = registered[n]
      /\ \A d, e \in registered[n] : d.frame_id = e.frame_id => d = e
  BY <1>1 DEF LiveInv
<1>3. f \in Bijection(S, registered[n])
  <2>1. f \in [S -> registered[n]] /\ \A t \in registered[n] : \E i \in S : f[i] = t
    BY <1>2
  <2>2. \A i, j \in S : f[i] = f[j] => i = j
    BY <1>1 DEF LiveInv
  <2> QED BY <2>1, <2>2 DEF Bijection, Injection, Surjection, IsInjective
<1>4. IsFiniteSet(S) /\ Cardinality(S) = u
  <2>1. u \in Nat
    BY <1>1 DEF TableTypes
  <2> QED BY <2>1, CountBelow
<1>5. Cardinality(registered[n]) = u
  BY <1>3, <1>4, FS_Bijection DEF ExistsBijection
<1> QED BY <1>2, <1>5
-----------------------------------------------------------------------------
(* The bridge's two slots on each node, which no application touches.      *)

BridgeSlots(n) ==
  /\ used_callbacks[n] >= 2
  /\ callbacks[n][0] = BridgeEntries(n)[1]
  /\ callbacks[n][1] = BridgeEntries(n)[2]
  /\ \A i \in Slots : i >= 2 => callbacks[n][i] \in AppSlots
  /\ call[n].step # "none" => call[n].index >= 2
  /\ call[n].step \in Fields => call[n].entry \in AppSlots

TablesInv == AlInv /\ \A n \in Nodes : BridgeSlots(n)

LEMMA EntriesFacts ==
  ASSUME NEW n \in Nodes
  PROVE  LET es == EntriesAtStart(n)
         IN  /\ es \in Seq(Slot) /\ Len(es) \in 2 .. MaxFrames
             /\ es[1] = BridgeEntries(n)[1]
             /\ es[2] = BridgeEntries(n)[2]
             /\ \A i \in DOMAIN es : i > 2 => es[i] \in AppSlots
             /\ \A i, j \in DOMAIN es : es[i].frame_id = es[j].frame_id => i = j
<1> DEFINE st == IF n = Commander THEN StaticEntries ELSE <<>>
           br == BridgeEntries(n)
           es == EntriesAtStart(n)
<1>1. /\ br \in Seq(Slot) /\ Len(br) = 2
      /\ br[1].frame_id \in {MasterRequest, SlaveResponse}
      /\ br[2].frame_id \in {MasterRequest, SlaveResponse}
      /\ br[1].frame_id # br[2].frame_id
  <2> DEFINE a == [frame_id |-> incoming_id(n), type |-> "incoming", cb |-> "bridge"]
             b == [frame_id |-> outgoing_id(n), type |-> "outgoing", cb |-> "bridge"]
  <2>1. /\ incoming_id(n) \in {MasterRequest, SlaveResponse}
        /\ outgoing_id(n) \in {MasterRequest, SlaveResponse}
        /\ incoming_id(n) # outgoing_id(n)
        /\ MasterRequest \in Nat /\ SlaveResponse \in Nat
    BY DEF incoming_id, outgoing_id, MasterRequest, SlaveResponse
  <2>2. a \in Slot /\ b \in Slot
    BY <2>1 DEF Slot, Bridge
  <2>3. br = <<a, b>> /\ a.frame_id = incoming_id(n) /\ b.frame_id = outgoing_id(n)
    BY DEF BridgeEntries
  <2> HIDE DEF a, b
  <2>4. br[1] = a /\ br[2] = b
    BY <2>3
  <2>5. br \in Seq(Slot) /\ Len(br) = 2
    BY <2>2, <2>3
  <2> QED BY <2>1, <2>3, <2>4, <2>5
<1>2. /\ st \in Seq(AppSlots) /\ Len(st) + 2 <= MaxFrames
      /\ \A i, j \in DOMAIN st : st[i].frame_id = st[j].frame_id => i = j
  BY LinNetworkAssumption, AbstractLinAssumption
<1>3. AppSlots \subseteq Slot
      /\ \A a \in AppSlots : a.frame_id \notin {MasterRequest, SlaveResponse}
  BY DEF AppSlots, Slot
<1>4. st \in Seq(Slot)
  BY <1>2, <1>3
<1>5. es = br \o st
  BY DEF EntriesAtStart
<1> HIDE DEF st, br, es
<1>6. es \in Seq(Slot) /\ Len(es) = 2 + Len(st)
  <2>1. br \in Seq(Slot) /\ st \in Seq(Slot)
    BY <1>1, <1>4
  <2>2. br \o st \in Seq(Slot) /\ Len(br \o st) = Len(br) + Len(st)
    BY <2>1, ConcatProperties
  <2> QED BY <1>1, <1>5, <2>2
<1>7. es[1] = br[1] /\ es[2] = br[2]
      /\ \A i \in DOMAIN es : i > 2 => i - 2 \in DOMAIN st /\ es[i] = st[i - 2]
  BY <1>1, <1>4, <1>5, <1>6, ConcatProperties
<1>8. \A i \in DOMAIN es : i > 2 => es[i] \in AppSlots
  BY <1>2, <1>7
<1>9. \A i, j \in DOMAIN es : es[i].frame_id = es[j].frame_id => i = j
  <2> SUFFICES ASSUME NEW i \in DOMAIN es, NEW j \in DOMAIN es,
                      es[i].frame_id = es[j].frame_id
               PROVE  i = j
    OBVIOUS
  <2>1. i \in Nat \ {0} /\ j \in Nat \ {0}
    BY <1>6
  <2>2. CASE i > 2 /\ j > 2
    BY <1>2, <1>7, <2>1, <2>2
  <2>3. CASE i <= 2 /\ j <= 2
    BY <1>1, <1>7, <2>1, <2>3
  <2>4. CASE (i > 2 /\ j <= 2) \/ (i <= 2 /\ j > 2)
    BY <1>1, <1>3, <1>7, <1>8, <2>1, <2>4
  <2> QED BY <2>1, <2>2, <2>3, <2>4
<1> QED BY <1>2, <1>6, <1>7, <1>8, <1>9, AbstractLinAssumption DEF br, es

LEMMA TablesInit == NetInit => TablesInv
<1> SUFFICES ASSUME NetInit PROVE TablesInv
  OBVIOUS
<1> USE LinNetworkAssumption, AbstractLinAssumption
<1>1. AlFunctions
  BY DEF NetInit, AlFunctions
<1>2. ASSUME NEW n \in Nodes PROVE TableInv(n) /\ BridgeSlots(n)
  <2> DEFINE es == EntriesAtStart(n)
  <2>1. /\ es \in Seq(Slot) /\ Len(es) \in 2 .. MaxFrames
        /\ es[1] = BridgeEntries(n)[1]
        /\ es[2] = BridgeEntries(n)[2]
        /\ \A i \in DOMAIN es : i > 2 => es[i] \in AppSlots
        /\ \A i, j \in DOMAIN es : es[i].frame_id = es[j].frame_id => i = j
    BY EntriesFacts
  <2>2. /\ callbacks[n] = TableOf(es)
        /\ used_callbacks[n] = Len(es)
        /\ registered[n] = {es[i] : i \in DOMAIN es}
        /\ call[n] = NoCall
    BY DEF NetInit
  <2> HIDE DEF es
  <2>3. /\ DOMAIN callbacks[n] = Slots
        /\ \A i \in Slots : callbacks[n][i] = IF i + 1 \in DOMAIN es THEN es[i + 1] ELSE EmptySlot
    BY <2>2 DEF TableOf
  <2>4. EmptySlot \in Slot /\ EmptySlot \in AppSlots
    BY DEF EmptySlot, Slot, AppSlots, MasterRequest, SlaveResponse
  <2>5. DOMAIN es = 1 .. Len(es) /\ \A i \in DOMAIN es : es[i] \in Slot
    BY <2>1
  <2>6. callbacks[n] \in [Slots -> Slot]
    <3>1. \A i \in Slots : callbacks[n][i] \in Slot
      BY <2>3, <2>4, <2>5
    <3>2. callbacks[n] = [i \in Slots |-> callbacks[n][i]]
      BY <2>2 DEF TableOf
    <3> QED BY <3>1, <3>2
  <2>7. TableTypes(n)
    BY <2>1, <2>2, <2>4, <2>6 DEF TableTypes, NoCall, Fields
  <2>8. CallInv(n)
    BY <2>2 DEF CallInv, NoCall, Fields
  <2>9. Live(n) = 0 .. Len(es) - 1
    BY <2>2 DEF Live, NoCall
  <2>10. \A i \in Live(n) : /\ i \in Slots /\ i + 1 \in DOMAIN es
                            /\ callbacks[n][i] = es[i + 1]
    BY <2>1, <2>3, <2>5, <2>9 DEF Slots
  <2>11. \A i \in DOMAIN es : i - 1 \in Live(n) /\ callbacks[n][i - 1] = es[i]
    <3>1. \A i \in DOMAIN es : i - 1 \in Live(n) /\ (i - 1) + 1 = i
      BY <2>1, <2>5, <2>9
    <3> QED BY <2>10, <3>1
  <2>12. LiveInv(n)
    <3>1. \A i, j \in Live(n) : callbacks[n][i].frame_id = callbacks[n][j].frame_id => i = j
      <4>1. \A i, j \in Live(n) : i + 1 = j + 1 => i = j
        BY <2>9
      <4> QED BY <2>1, <2>10, <4>1
    <3>2. registered[n] = {callbacks[n][i] : i \in Live(n)}
      BY <2>2, <2>10, <2>11
    <3> QED BY <3>1, <3>2 DEF LiveInv
  <2>13. BridgeSlots(n)
    <3>1. callbacks[n][0] = es[1] /\ callbacks[n][1] = es[2]
      BY <2>1, <2>10, <2>9
    <3>2. \A i \in Slots : i >= 2 => callbacks[n][i] \in AppSlots
      <4> SUFFICES ASSUME NEW i \in Slots, i >= 2 PROVE callbacks[n][i] \in AppSlots
        OBVIOUS
      <4>1. i + 1 > 2
        BY DEF Slots
      <4> QED BY <2>1, <2>3, <2>4, <4>1
    <3> QED BY <2>1, <2>2, <3>1, <3>2 DEF BridgeSlots, NoCall, Fields
  <2> QED BY <2>7, <2>8, <2>12, <2>13 DEF TableInv
<1> QED BY <1>1, <1>2 DEF TablesInv, AlInv

(* Another table is as it was.                                             *)
LEMMA OtherBridgeSlots ==
  ASSUME NEW m \in Nodes, BridgeSlots(m),
         callbacks'[m] = callbacks[m], used_callbacks'[m] = used_callbacks[m],
         call'[m] = call[m]
  PROVE  BridgeSlots(m)'
BY DEF BridgeSlots, BridgeEntries, incoming_id, outgoing_id

LEMMA BridgeIds ==
  ASSUME NEW n \in Nodes
  PROVE  /\ BridgeEntries(n)[1] =
              [frame_id |-> incoming_id(n), type |-> "incoming", cb |-> "bridge"]
         /\ BridgeEntries(n)[2] =
              [frame_id |-> outgoing_id(n), type |-> "outgoing", cb |-> "bridge"]
         /\ incoming_id(n) \in {MasterRequest, SlaveResponse}
         /\ outgoing_id(n) \in {MasterRequest, SlaveResponse}
         /\ incoming_id(n) # outgoing_id(n)
BY DEF BridgeEntries, incoming_id, outgoing_id, MasterRequest, SlaveResponse

LEMMA TablesRegister ==
  ASSUME TablesInv, NEW n \in Nodes, NEW e \in AppEntries, Register(n, e)
  PROVE  TablesInv'
<1>1. e \in AppSlots /\ e \in Slot
  BY LinNetworkAssumption DEF AppSlots, Slot
<1>2. AlInv' /\ AlFunctions
  BY <1>1, RegisterStep DEF TablesInv, AlInv
<1>3. /\ callbacks' = callbacks
      /\ used_callbacks' = [used_callbacks EXCEPT ![n] = @ + 1]
      /\ call' = [call EXCEPT ![n] =
                    [step |-> "frame_id", index |-> used_callbacks[n], entry |-> e]]
  BY DEF Register, Allocate
<1>4. /\ used_callbacks'[n] = used_callbacks[n] + 1
      /\ call'[n] = [step |-> "frame_id", index |-> used_callbacks[n], entry |-> e]
      /\ BridgeSlots(n) /\ used_callbacks[n] \in Nat
  BY <1>2, <1>3 DEF AlFunctions, TablesInv, AlInv, TableInv, TableTypes
<1>5. BridgeSlots(n)'
  BY <1>1, <1>3, <1>4 DEF BridgeSlots, BridgeEntries, incoming_id, outgoing_id, Fields
<1>6. ASSUME NEW m \in Nodes \ {n} PROVE BridgeSlots(m)'
  BY <1>2, <1>3, OtherBridgeSlots DEF AlFunctions, TablesInv
<1> QED BY <1>2, <1>5, <1>6 DEF TablesInv

LEMMA TablesFill ==
  ASSUME TablesInv, NEW n \in Nodes, Fill(n)
  PROVE  TablesInv'
<1> DEFINE c == call[n]
           k == c.index
           new == [callbacks[n][k] EXCEPT ![c.step] = c.entry[c.step]]
<1>1. AlInv' /\ AlFunctions /\ AlFunctions' /\ BridgeSlots(n) /\ TableTypes(n) /\ CallInv(n)
  BY FillStep DEF TablesInv, AlInv, TableInv
<1>2. /\ c.step \in Fields
      /\ callbacks' = [callbacks EXCEPT ![n][k][c.step] = c.entry[c.step]]
      /\ used_callbacks' = used_callbacks
      /\ \/ call' = [call EXCEPT ![n] = NoCall]
         \/ \E s \in Fields : call' = [call EXCEPT ![n].step = s]
  BY DEF Fill, FieldAfter, Fields
<1>3. k >= 2 /\ k \in Slots /\ k \in Nat /\ c.entry \in AppSlots
      /\ callbacks[n][k] \in AppSlots
  BY <1>1, <1>2, AbstractLinAssumption DEF BridgeSlots, TableTypes, CallInv, Slots, Fields
<1>4. new \in AppSlots
  BY <1>2, <1>3 DEF AppSlots, Fields
<1>5. callbacks'[n] = [callbacks[n] EXCEPT ![k] = new]
      /\ \A m \in Nodes \ {n} : callbacks'[m] = callbacks[m] /\ call'[m] = call[m]
  BY <1>1, <1>2, <1>3 DEF AlFunctions, TableTypes
<1> HIDE DEF new
<1>6. /\ callbacks'[n][0] = callbacks[n][0]
      /\ callbacks'[n][1] = callbacks[n][1]
      /\ \A i \in Slots : i >= 2 => callbacks'[n][i] \in AppSlots
  BY <1>1, <1>3, <1>4, <1>5 DEF TableTypes, BridgeSlots
<1>7. \/ call'[n].step = "none" /\ call'[n].step \notin Fields
      \/ call'[n].index = k /\ call'[n].entry = c.entry
  <2>1. CASE call' = [call EXCEPT ![n] = NoCall]
    BY <1>1, <2>1 DEF AlFunctions, NoCall, Fields
  <2>2. ASSUME NEW s \in Fields, call' = [call EXCEPT ![n].step = s]
        PROVE  call'[n].index = k /\ call'[n].entry = c.entry
    BY <1>1, <2>2 DEF AlFunctions, TableTypes, Fields
  <2> QED BY <1>2, <2>1, <2>2
<1>8. BridgeSlots(n)'
  BY <1>1, <1>2, <1>3, <1>6, <1>7 DEF BridgeSlots, BridgeEntries, incoming_id, outgoing_id
<1>9. ASSUME NEW m \in Nodes \ {n} PROVE BridgeSlots(m)'
  BY <1>2, <1>5, OtherBridgeSlots DEF TablesInv
<1> QED BY <1>1, <1>8, <1>9 DEF TablesInv

LEMMA ShiftFromBridge ==
  ASSUME NEW i \in Nat, NEW u \in Nat, i >= 2
  PROVE  LET c == ShiftFrom(i, u)
         IN  /\ c.step # "none" => c.index >= 2
             /\ c.step \notin Fields
BY DEF ShiftFrom, NoCall, Fields

LEMMA TablesUnregister ==
  ASSUME TablesInv, NEW n \in Nodes, NEW e \in AppEntries, Unregister(n, e.frame_id)
  PROVE  TablesInv'
<1> DEFINE id == e.frame_id
           k == Min(Matching(n, id))
           u == used_callbacks[n]
<1>1. id \notin {MasterRequest, SlaveResponse}
  BY LinNetworkAssumption DEF AppSlots
<1>2. AlInv' /\ AlFunctions /\ BridgeSlots(n) /\ TableTypes(n)
  BY UnregisterStep DEF TablesInv, AlInv, TableInv
<1>3. /\ Matching(n, id) # {}
      /\ call' = [call EXCEPT ![n] = ShiftFrom(k, u - 1)]
      /\ used_callbacks' = [used_callbacks EXCEPT ![n] = @ - 1]
      /\ callbacks' = callbacks
  BY DEF Unregister, HasMatch
<1>4. k \in Slots /\ k < u /\ callbacks[n][k].frame_id = id
  <2> HIDE DEF id
  <2>1. Matching(n, id) \in SUBSET Nat
    BY AbstractLinAssumption DEF Matching, Slots
  <2>2. k \in Matching(n, id)
    BY <1>3, <2>1, MinOfNaturals
  <2> QED BY <2>2 DEF Matching
<1> HIDE DEF k, id
<1>5. k >= 2 /\ k \in Nat /\ u - 1 >= 2 /\ u - 1 \in Nat
  <2>1. callbacks[n][0].frame_id # id /\ callbacks[n][1].frame_id # id
    <3>1. BridgeEntries(n)[1].frame_id # id /\ BridgeEntries(n)[2].frame_id # id
      <4>1. /\ BridgeEntries(n)[1].frame_id \in {MasterRequest, SlaveResponse}
            /\ BridgeEntries(n)[2].frame_id \in {MasterRequest, SlaveResponse}
        BY DEF BridgeEntries, incoming_id, outgoing_id
      <4> QED BY <1>1, <4>1
    <3> QED BY <1>2, <3>1 DEF BridgeSlots
  <2>2. k # 0 /\ k # 1
    BY <1>4, <2>1
  <2> QED BY <1>2, <1>4, <2>2 DEF Slots, TableTypes
<1>6. call'[n] = ShiftFrom(k, u - 1) /\ used_callbacks'[n] = u - 1
  BY <1>2, <1>3 DEF AlFunctions
<1>7. (call'[n].step # "none" => call'[n].index >= 2) /\ call'[n].step \notin Fields
  BY <1>5, <1>6, ShiftFromBridge
<1>8. BridgeSlots(n)'
  BY <1>2, <1>3, <1>5, <1>6, <1>7 DEF BridgeSlots, BridgeEntries, incoming_id, outgoing_id
<1>9. ASSUME NEW m \in Nodes \ {n} PROVE BridgeSlots(m)'
  BY <1>2, <1>3, OtherBridgeSlots DEF AlFunctions, TablesInv
<1> QED BY <1>2, <1>8, <1>9 DEF TablesInv

LEMMA TablesShift ==
  ASSUME TablesInv, NEW n \in Nodes, Shift(n)
  PROVE  TablesInv'
<1> DEFINE k == call[n].index
           u == used_callbacks[n]
<1>1. AlInv' /\ AlFunctions /\ BridgeSlots(n) /\ TableTypes(n) /\ CallInv(n)
  BY ShiftStep DEF TablesInv, AlInv, TableInv
<1>2. /\ call[n].step = "shift"
      /\ callbacks' = [callbacks EXCEPT ![n][k] = callbacks[n][k + 1]]
      /\ call' = [call EXCEPT ![n] = ShiftFrom(k + 1, u)]
      /\ used_callbacks' = used_callbacks
  BY DEF Shift
<1>3. k \in Slots /\ k + 1 \in Slots /\ k >= 2 /\ k \in Nat /\ u \in Nat
  BY <1>1, <1>2, AbstractLinAssumption DEF BridgeSlots, TableTypes, CallInv, Slots
<1>4. /\ call'[n] = ShiftFrom(k + 1, u)
      /\ callbacks'[n] = [callbacks[n] EXCEPT ![k] = callbacks[n][k + 1]]
      /\ \A m \in Nodes \ {n} : callbacks'[m] = callbacks[m] /\ call'[m] = call[m]
  BY <1>1, <1>2 DEF AlFunctions
<1>5. /\ callbacks'[n][0] = callbacks[n][0]
      /\ callbacks'[n][1] = callbacks[n][1]
      /\ \A i \in Slots : i >= 2 => callbacks'[n][i] \in AppSlots
  BY <1>1, <1>3, <1>4 DEF TableTypes, BridgeSlots
<1>6. (call'[n].step # "none" => call'[n].index >= 2) /\ call'[n].step \notin Fields
  BY <1>3, <1>4, ShiftFromBridge
<1>7. BridgeSlots(n)'
  BY <1>1, <1>2, <1>5, <1>6 DEF BridgeSlots, BridgeEntries, incoming_id, outgoing_id
<1>8. ASSUME NEW m \in Nodes \ {n} PROVE BridgeSlots(m)'
  BY <1>2, <1>4, OtherBridgeSlots DEF TablesInv
<1> QED BY <1>1, <1>7, <1>8 DEF TablesInv

LEMMA TablesUnchanged == TablesInv /\ UNCHANGED alVars => TablesInv'
BY DEF TablesInv, AlInv, AlFunctions, TableInv, TableTypes, CallInv, LiveInv, Live,
   BridgeSlots, alVars, BridgeEntries, incoming_id, outgoing_id

(* Only the responder's application changes a table.                       *)
LEMMA WhoChangesTables ==
  NetNext => \/ UNCHANGED alVars
             \/ ResponderApplication
BY DEF NetNext, Sysinit, SchedulerStep, ScheduleNow, netVars, TableCall, CallerStep,
   BusStep, BusHeader, BusData, BusEnd, BusFault, IsoTpSends, IsoTpFilters, GatewayRoutes

LEMMA TablesStep == TablesInv /\ [NetNext]_allVars => TablesInv'
<1> SUFFICES ASSUME TablesInv, ResponderApplication PROVE TablesInv'
  BY TablesUnchanged, WhoChangesTables DEF allVars, netVars
<1>1. Responder \in Nodes
  BY LinNetworkAssumption
<1>2. CASE \E e \in AppEntries : Register(Responder, e)
  BY <1>1, <1>2, TablesRegister
<1>3. CASE \E e \in AppEntries : Unregister(Responder, e.frame_id)
  BY <1>1, <1>3, TablesUnregister
<1>4. CASE TableStep
  BY <1>1, <1>4, TablesFill, TablesShift DEF TableStep
<1> QED BY <1>2, <1>3, <1>4 DEF ResponderApplication

(* Between two calls the callback table of each node says exactly what its *)
(* application registered, one slot for each id, although registering      *)
(* fills a slot field by field and unregistering moves the others down one *)
(* by one while interrupts read them: al_register_*_cb and al_unregister.  *)
THEOREM TablesAreExact == NetSafety => []TableExact
<1>1. TablesInv => TableExact
  BY AlInvIsExact DEF TablesInv
<1> QED BY TablesInit, TablesStep, <1>1, PTL DEF NetSafety
-----------------------------------------------------------------------------
(* The scheduler inside the network.                                       *)

LEMMA NetStepIsSchedulerStep == [NetNext]_allVars => [Next]_vars
BY DEF NetNext, Next, allVars, netVars, Sysinit, SchedulerStep, ThreadStep, TableCall,
   CallerStep, BusStep, BusHeader, BusData, BusEnd, BusFault, ResponderApplication,
   IsoTpSends, IsoTpFilters, GatewayRoutes

(* The network adds waiting, never a step of its own, to the scheduler of  *)
(* lin_scheduler.c: what is shown above of the scheduler alone             *)
(* holds while the bus, the bridges and the applications run.              *)
THEOREM NetRunsScheduler == NetSafety => Spec
<1>1. NetInit => Init
  BY DEF NetInit
<1> QED BY <1>1, NetStepIsSchedulerStep, PTL DEF NetSafety, Spec

(* So the scheduler keeps its invariant and its order in the network too.  *)
THEOREM NetScheduleInOrder ==
  ASSUME Serialized
  PROVE  NetSafety => []SchedulerInv /\ EntriesInOrder
BY NetRunsScheduler, SchedulerInvariant, EntriesAreInOrder, PTL
-----------------------------------------------------------------------------
(* The gateway's routes.                                                   *)

RouteTypes ==
  /\ router_tables \in Seq(Seq(RouterEntries))
  /\ registering \in [table : Nat \ {0}, entry : Nat \ {0}]
  /\ sysinit \in [returned : BOOLEAN, err : Int]
  /\ can_filters \subseteq Entries
  /\ DOMAIN incoming_callbacks = Nodes
  /\ DOMAIN incoming_callbacks[Commander] = Addresses

(* Zero is returned only behind the last table, and anything else at once. *)
RouteProgress ==
  /\ ~RouterDone => sysinit.err = 0
  /\ RouterDone /\ sysinit.err = 0 => registering.table > Len(router_tables)

RoutesInv == RouteTypes /\ RouteProgress /\ RoutesInstalled

LEMMA EntryOf ==
  ASSUME RouteTypes, NEW r \in Entries
  PROVE  /\ r.table \in 1 .. Len(router_tables)
         /\ r.entry \in 1 .. Len(router_tables[r.table])
         /\ r = [table |-> r.table, entry |-> r.entry]
         /\ r.table \in Nat \ {0} /\ r.entry \in Nat \ {0}
         /\ router_tables[r.table][r.entry] \in RouterEntries
<1>1. PICK t \in 1 .. Len(router_tables) : \E i \in 1 .. Len(router_tables[t]) :
        r = [table |-> t, entry |-> i]
  BY DEF Entries
<1>2. Len(router_tables) \in Nat /\ router_tables[t] \in Seq(RouterEntries)
  BY DEF RouteTypes
<1> QED BY <1>1, <1>2

LEMMA EntriesAre ==
  ASSUME RouteTypes, NEW t \in 1 .. Len(router_tables),
         NEW i \in 1 .. Len(router_tables[t])
  PROVE  [table |-> t, entry |-> i] \in Entries
BY DEF Entries

LEMMA RoutesInit == NetInit => RoutesInv
<1> SUFFICES ASSUME NetInit PROVE RoutesInv
  OBVIOUS
<1>1. /\ router_tables \in RouterTables
      /\ registering = [table |-> 1, entry |-> 1]
      /\ sysinit = [returned |-> FALSE, err |-> 0]
      /\ can_filters = {}
      /\ incoming_callbacks = [n \in Nodes |-> [a \in Addresses |-> Nobody]]
  BY DEF NetInit, InitRouter, InitBridge
<1>2. Commander \in Nodes /\ router_tables \in Seq(Seq(RouterEntries))
  BY <1>1, LinNetworkAssumption, CanRouterAssumption
<1>3. RouteTypes
  BY <1>1, <1>2 DEF RouteTypes
<1>4. RouteProgress
  BY <1>1 DEF RouteProgress, RouterDone
<1>5. \A r \in Entries : ~Reached(r)
  <2> SUFFICES ASSUME NEW r \in Entries PROVE ~Reached(r)
    OBVIOUS
  <2>1. r.table \in Nat \ {0} /\ r.entry \in Nat \ {0}
    BY <1>3, EntryOf
  <2> QED BY <1>1, <2>1 DEF Reached, Passed
<1>6. \A a \in Addresses : incoming_callbacks[Commander][a] # "router"
  BY <1>1, <1>2, CanRouterAssumption
<1>7. RoutesInstalled
  BY <1>1, <1>5, <1>6 DEF RoutesInstalled, RouterDone
<1> QED BY <1>3, <1>4, <1>7 DEF RoutesInv

LEMMA InAddresses == ASSUME NEW filter PROVE FilterAddresses(filter) \subseteq Addresses
BY DEF FilterAddresses

(* What lin2can_add_rx_filter does to the row of its node.                 *)
LEMMA FilterAdded ==
  ASSUME NEW filter, RouteTypes, AddFilter(Commander, filter, "router")
  PROVE  LET old == incoming_callbacks[Commander]
             new == incoming_callbacks'[Commander]
         IN  /\ DOMAIN incoming_callbacks' = Nodes
             /\ DOMAIN new = Addresses
             /\ FilterResult(Commander, filter) \in Int
             /\ FilterResult(Commander, filter) < 0 => new = old
             /\ FilterResult(Commander, filter) >= 0 =>
                  /\ \A a \in FilterAddresses(filter) : new[a] = "router"
                  /\ \A a \in Addresses \ FilterAddresses(filter) : new[a] = old[a]
             /\ \A a \in Addresses : old[a] = "router" => new[a] = "router"
<1> DEFINE old == incoming_callbacks[Commander]
           new == incoming_callbacks'[Commander]
           wanted == FilterAddresses(filter)
<1>1. Commander \in Nodes /\ DOMAIN incoming_callbacks = Nodes /\ DOMAIN old = Addresses
  BY LinNetworkAssumption DEF RouteTypes
<1>2. CASE FilterResult(Commander, filter) = -1
  BY <1>1, <1>2 DEF AddFilter, bridgeVars
<1>3. CASE FilterResult(Commander, filter) # -1
  <2>1. incoming_callbacks' = [incoming_callbacks EXCEPT ![Commander] =
          [a \in Addresses |-> IF a \in wanted THEN "router" ELSE old[a]]]
    BY <1>3 DEF AddFilter
  <2>2. DOMAIN incoming_callbacks' = Nodes
        /\ new = [a \in Addresses |-> IF a \in wanted THEN "router" ELSE old[a]]
    BY <1>1, <2>1
  <2>3. wanted # {} /\ wanted \subseteq Addresses
    BY <1>3 DEF FilterResult, FilterAddresses
  <2>4. FilterResult(Commander, filter) \in Addresses \cup {Wildcard}
    <3>1. CASE filter.mask = "wildcard"
      BY <1>3, <3>1 DEF FilterResult
    <3>2. CASE filter.mask # "wildcard"
      BY <1>3, <2>3, <3>2 DEF FilterResult, FilterAddresses
    <3> QED BY <3>1, <3>2
  <2>5. FilterResult(Commander, filter) \in Nat
    BY <2>4 DEF Addresses, Wildcard
  <2> QED BY <2>2, <2>3, <2>5
<1> QED BY <1>2, <1>3

(* One entry: its filter is set if and only if a filter id is returned.    *)
LEMMA RoutesEntry == RoutesInv /\ RouteEntry => RoutesInv'
<1> SUFFICES ASSUME RoutesInv, RouteEntry PROVE RoutesInv'
  OBVIOUS
<1> DEFINE t == registering.table
           i == registering.entry
           e == router_tables[t][i]
           old == incoming_callbacks[Commander]
           new == incoming_callbacks'[Commander]
<1>1. PICK err \in FilterResults(e) :
        /\ registering' = IF err = 0 THEN [registering EXCEPT !.entry = @ + 1]
                          ELSE registering
        /\ sysinit' = [returned |-> err # 0, err |-> err]
        /\ IF e.from = "can"
           THEN /\ can_filters' = can_filters \cup (IF err < 0 THEN {} ELSE {registering})
                /\ UNCHANGED bridgeVars
           ELSE AddFilter(Commander, e.filter, "router") /\ UNCHANGED can_filters
  BY DEF RouteEntry
<1>2. ~RouterDone /\ EntriesLeft /\ router_tables' = router_tables
  BY DEF RouteEntry
<1>3. RouteTypes /\ RouteProgress /\ RoutesInstalled
  BY DEF RoutesInv
<1>4. /\ t \in Nat \ {0} /\ i \in Nat \ {0}
      /\ registering = [table |-> t, entry |-> i]
      /\ t \in 1 .. Len(router_tables) /\ i \in 1 .. Len(router_tables[t])
  <2>1. /\ t \in Nat \ {0} /\ i \in Nat \ {0} /\ registering = [table |-> t, entry |-> i]
        /\ Len(router_tables) \in Nat
    BY <1>3 DEF RouteTypes
  <2>2. t \in 1 .. Len(router_tables)
    BY <1>2, <2>1 DEF EntriesLeft
  <2>3. router_tables[t] \in Seq(RouterEntries)
    BY <1>3, <2>2 DEF RouteTypes
  <2> QED BY <1>2, <2>1, <2>2, <2>3 DEF EntriesLeft
<1>5. sysinit.err = 0
  BY <1>2, <1>3 DEF RouteProgress
<1>6. /\ err \in Int
      /\ DOMAIN incoming_callbacks' = Nodes /\ DOMAIN new = Addresses
      /\ \A a \in Addresses : old[a] = "router" => new[a] = "router"
  <2>1. CASE e.from = "can"
    <3>1. err \in Int
      <4>1. err \in FilterIds \/ err = -28
        BY <2>1 DEF FilterResults
      <4>2. FilterIds \subseteq Nat
        BY CanRouterAssumption
      <4>3. CASE err \in FilterIds
        <5>1. err \in Nat
          BY <4>2, <4>3
        <5> QED BY <5>1
      <4>4. CASE err = -28
        BY <4>4
      <4> QED BY <4>1, <4>3, <4>4
    <3> QED BY <1>1, <1>3, <2>1, <3>1 DEF RouteTypes, bridgeVars
  <2>2. CASE e.from # "can"
    <3>1. err = FilterResult(Commander, e.filter)
      BY <2>2 DEF FilterResults
    <3> QED BY <1>1, <1>3, <2>2, <3>1, FilterAdded
  <2> QED BY <2>1, <2>2
<1>7. /\ registering' \in [table : Nat \ {0}, entry : Nat \ {0}]
      /\ registering'.table = t
      /\ registering'.entry = IF err = 0 THEN i + 1 ELSE i
      /\ registering' = [table |-> t, entry |-> registering'.entry]
  BY <1>1, <1>4
<1>8. registering \in Entries /\ e \in RouterEntries
  BY <1>3, <1>4, EntriesAre, EntryOf
<1>9. Entries' = Entries
  BY <1>2 DEF Entries
<1>10. can_filters \subseteq can_filters'
       /\ can_filters' \subseteq can_filters \cup {registering}
       /\ (err < 0 => can_filters' = can_filters)
  BY <1>1
<1>11. RouteTypes'
  BY <1>1, <1>2, <1>3, <1>6, <1>7, <1>8, <1>9, <1>10 DEF RouteTypes
<1>12. RouteProgress'
  BY <1>1, <1>2, <1>6 DEF RouteProgress, RouterDone
<1>13. ASSUME NEW r \in Entries
       PROVE  /\ Reached(r) => Reached(r)'
              /\ r = registering /\ err >= 0 => Reached(r)'
              /\ Reached(r)' => Reached(r) \/ (r = registering /\ err >= 0)
  <2>1. /\ r.table \in Nat /\ r.entry \in Nat
        /\ r = [table |-> r.table, entry |-> r.entry]
    BY <1>3, EntryOf
  <2>2. r = registering <=> r.table = t /\ r.entry = i
    BY <1>4, <2>1
  <2>3. Reached(r) <=> r.table < t \/ (r.table = t /\ r.entry < i)
    BY <1>5 DEF Reached, Passed
  <2>4. CASE err = 0
    <3>1. Reached(r)' <=> r.table < t \/ (r.table = t /\ r.entry < i + 1)
      BY <1>1, <1>7, <2>4 DEF Reached, Passed
    <3> QED BY <1>4, <2>1, <2>2, <2>3, <2>4, <3>1
  <2>5. CASE err # 0
    <3>1. Reached(r)' <=> Passed(r) \/ (r = registering /\ err > 0)
      BY <1>1, <1>7, <2>5 DEF Reached, Passed
    <3> QED BY <1>5, <1>6, <2>5, <3>1 DEF Reached
  <2> QED BY <2>4, <2>5
<1>14. ASSUME NEW r \in Entries, Installed(r) PROVE Installed(r)'
  <2>1. CASE router_tables[r.table][r.entry].from = "can"
    BY <1>2, <1>10, <1>14, <2>1 DEF Installed
  <2>2. CASE router_tables[r.table][r.entry].from # "can"
    BY <1>2, <1>6, <1>14, <2>2, InAddresses DEF Installed
  <2> QED BY <2>1, <2>2
<1>15. ASSUME NEW r \in Entries, r = registering, err >= 0 PROVE Installed(r)'
  <2>1. CASE e.from = "can"
    <3>1. r \in can_filters'
      BY <1>1, <1>6, <1>15, <2>1
    <3> QED BY <1>2, <1>15, <2>1, <3>1 DEF Installed
  <2>2. CASE e.from # "can"
    <3>1. err = FilterResult(Commander, e.filter)
      BY <2>2 DEF FilterResults
    <3>2. \A a \in FilterAddresses(e.filter) : new[a] = "router"
      BY <1>1, <1>3, <1>15, <2>2, <3>1, FilterAdded
    <3> QED BY <1>2, <1>15, <2>2, <3>2 DEF Installed
  <2> QED BY <2>1, <2>2
<1>16. \A r \in Entries : Reached(r)' => Installed(r)'
  BY <1>3, <1>13, <1>14, <1>15 DEF RoutesInstalled
<1>17. ~(RouterDone' /\ sysinit'.err = 0)
  BY <1>1 DEF RouterDone
<1>18. ASSUME NEW r \in can_filters' PROVE Reached(r)'
  <2>1. r \in Entries
    BY <1>3, <1>8, <1>10 DEF RouteTypes
  <2>2. CASE r \in can_filters
    BY <1>3, <1>13, <2>1, <2>2 DEF RoutesInstalled
  <2>3. CASE r \notin can_filters
    BY <1>6, <1>10, <1>13, <2>1, <2>3
  <2> QED BY <2>2, <2>3
<1>19. ASSUME NEW a \in Addresses, new[a] = "router"
       PROVE  \E r \in Entries : /\ Reached(r)'
                                 /\ router_tables[r.table][r.entry].from = "lin2can"
                                 /\ a \in FilterAddresses(router_tables[r.table][r.entry].filter)
  <2>1. CASE old[a] = "router"
    BY <1>3, <1>13, <2>1 DEF RoutesInstalled
  <2>2. CASE old[a] # "router"
    <3>1. e.from # "can"
      BY <1>1, <1>19, <2>2 DEF bridgeVars
    <3>2. e.from = "lin2can"
      BY <1>8, <3>1 DEF RouterEntries
    <3>3. err = FilterResult(Commander, e.filter)
      BY <3>1 DEF FilterResults
    <3>4. err >= 0 /\ a \in FilterAddresses(e.filter)
      BY <1>1, <1>3, <1>6, <1>19, <2>2, <3>1, <3>3, FilterAdded
    <3>5. ASSUME NEW r \in Entries, r = registering PROVE Reached(r)'
      BY <1>13, <3>4, <3>5
    <3> QED BY <1>8, <3>2, <3>4, <3>5
  <2> QED BY <2>1, <2>2
<1>20. RoutesInstalled'
  <2>1. router_tables' = router_tables
    BY <1>2
  <2> QED BY <1>9, <1>16, <1>17, <1>18, <1>19, <2>1 DEF RoutesInstalled
<1> QED BY <1>11, <1>12, <1>20 DEF RoutesInv

(* Behind the last entry of a table all of its entries have been passed.   *)
LEMMA RoutesTable == RoutesInv /\ NextTable => RoutesInv'
<1> SUFFICES ASSUME RoutesInv, NextTable PROVE RoutesInv'
  OBVIOUS
<1> DEFINE t == registering.table
           i == registering.entry
<1>1. /\ ~RouterDone /\ ~EntriesLeft
      /\ UNCHANGED <<router_tables, can_filters, incoming_callbacks>>
  BY DEF NextTable, bridgeVars
<1>2. RouteTypes /\ RouteProgress /\ RoutesInstalled
  BY DEF RoutesInv
<1>3. /\ t \in Nat \ {0} /\ i \in Nat \ {0} /\ Len(router_tables) \in Nat
      /\ sysinit.err = 0
  BY <1>1, <1>2 DEF RouteTypes, RouteProgress
<1>4. Entries' = Entries
  BY <1>1 DEF Entries
<1>5. ASSUME NEW r PROVE Installed(r)' <=> Installed(r)
  BY <1>1 DEF Installed
<1>6. ASSUME NEW r \in Entries
      PROVE  Reached(r) <=> r.table < t \/ (r.table = t /\ r.entry < i)
  BY <1>3 DEF Reached, Passed
<1>7. CASE t <= Len(router_tables)
  <2>1. registering' = [table |-> t + 1, entry |-> 1] /\ sysinit' = sysinit
    BY <1>7 DEF NextTable
  <2>2. ASSUME NEW r \in Entries PROVE Reached(r)' <=> Reached(r)
    <3>1. /\ r.table \in Nat /\ r.entry \in Nat \ {0}
          /\ r.entry \in 1 .. Len(router_tables[r.table])
          /\ r.table \in 1 .. Len(router_tables)
      BY <1>2, EntryOf
    <3>2. router_tables[r.table] \in Seq(RouterEntries)
      BY <1>2, <3>1 DEF RouteTypes
    <3>3. Len(router_tables[r.table]) \in Nat
      BY <3>2
    <3>4. r.table = t => r.entry < i
      BY <1>1, <1>3, <1>7, <3>1, <3>3 DEF EntriesLeft
    <3>5. Reached(r)' <=> r.table < t + 1 \/ (r.table = t + 1 /\ r.entry < 1)
      BY <1>3, <2>1 DEF Reached, Passed
    <3> QED BY <1>3, <1>6, <3>1, <3>4, <3>5
  <2>3. RouteTypes' /\ RouteProgress'
    BY <1>1, <1>2, <1>3, <1>4, <2>1 DEF RouteTypes, RouteProgress, RouterDone
  <2>4. can_filters \subseteq Entries /\ ~RouterDone'
    BY <1>1, <1>2, <2>1 DEF RouteTypes, RouterDone
  <2>5. RoutesInstalled'
    BY <1>1, <1>2, <1>4, <1>5, <2>2, <2>4 DEF RoutesInstalled
  <2> QED BY <2>3, <2>5 DEF RoutesInv
<1>8. CASE t > Len(router_tables)
  <2>1. sysinit' = [returned |-> TRUE, err |-> 0] /\ registering' = registering
    BY <1>3, <1>8 DEF NextTable
  <2>2. ASSUME NEW r PROVE Reached(r)' <=> Reached(r)
    BY <1>3, <2>1 DEF Reached, Passed
  <2>3. ASSUME NEW r \in Entries PROVE Reached(r)
    <3>1. r.table \in 1 .. Len(router_tables)
      BY <1>2, EntryOf
    <3> QED BY <1>3, <1>6, <1>8, <3>1
  <2>4. RouteTypes' /\ RouteProgress'
    BY <1>1, <1>2, <1>4, <1>8, <2>1 DEF RouteTypes, RouteProgress, RouterDone
  <2>5. RoutesInstalled'
    BY <1>1, <1>2, <1>4, <1>5, <2>2, <2>3 DEF RoutesInstalled
  <2> QED BY <2>4, <2>5 DEF RoutesInv
<1> QED BY <1>3, <1>7, <1>8

(* Nothing else touches the routes: the ISO-TP application sets filters on *)
(* the responder.                                                          *)
LEMMA WhoChangesRoutes ==
  NetNext => \/ RouteEntry \/ NextTable
             \/ UNCHANGED <<routerVars, incoming_callbacks>>
             \/ UNCHANGED routerVars /\ IsoTpFilters
<1> SUFFICES ASSUME NetNext PROVE \/ RouteEntry \/ NextTable
                                  \/ UNCHANGED <<routerVars, incoming_callbacks>>
                                  \/ UNCHANGED routerVars /\ IsoTpFilters
  OBVIOUS
<1>1. ASSUME NEW n, NEW e, CallOutgoing(n, e) \/ NoOutgoing
      PROVE  incoming_callbacks' = incoming_callbacks
  BY <1>1 DEF CallOutgoing, NoOutgoing, Pop, bridgeVars
<1>2. CASE SchedulerStep
  BY <1>1, <1>2 DEF SchedulerStep, ScheduleNow, netVars, bridgeVars
<1>3. CASE BusStep
  <2>1. CASE BusHeader
    BY <1>1, <2>1 DEF BusHeader
  <2> QED BY <1>3, <2>1 DEF BusStep, BusData, BusEnd, BusFault, bridgeVars
<1>4. CASE \E c \in Callers : TableCall(c) \/ CallerStep(c)
  BY <1>4 DEF TableCall, CallerStep, netVars, bridgeVars
<1>5. CASE ResponderApplication
  BY <1>5 DEF ResponderApplication, bridgeVars
<1>6. CASE IsoTpSends \/ GatewayRoutes
  BY <1>6 DEF IsoTpSends, GatewayRoutes, RouteToLin, Send
<1> QED BY <1>2, <1>3, <1>4, <1>5, <1>6 DEF NetNext, Sysinit, IsoTpFilters

LEMMA FiltersOfOther ==
  ASSUME IsoTpFilters
  PROVE  \/ UNCHANGED incoming_callbacks
         \/ \E row : incoming_callbacks' = [incoming_callbacks EXCEPT ![Responder] = row]
<1>1. PICK filter \in CanFilters :
        \/ AddFilter(Responder, filter, "isotp")
        \/ RemoveFilter(Responder, IF filter.mask = "wildcard" THEN Wildcard
                                   ELSE map_from_can_id(filter.id))
  BY DEF IsoTpFilters
<1> QED BY <1>1 DEF AddFilter, RemoveFilter, bridgeVars

LEMMA RoutesStep == RoutesInv /\ [NetNext]_allVars => RoutesInv'
<1> SUFFICES ASSUME RoutesInv, [NetNext]_allVars PROVE RoutesInv'
  OBVIOUS
<1>1. CASE RouteEntry \/ NextTable
  BY <1>1, RoutesEntry, RoutesTable
<1>2. ASSUME UNCHANGED routerVars, DOMAIN incoming_callbacks' = Nodes,
             incoming_callbacks'[Commander] = incoming_callbacks[Commander]
      PROVE  RoutesInv'
  <2>1. /\ UNCHANGED <<router_tables, registering, sysinit, can_filters>>
        /\ Entries' = Entries
    BY <1>2 DEF routerVars, Entries
  <2>2. ASSUME NEW r PROVE (Reached(r)' <=> Reached(r)) /\ (Installed(r)' <=> Installed(r))
    BY <1>2, <2>1 DEF Reached, Passed, Installed
  <2>3. RouteTypes' /\ RouteProgress'
    BY <1>2, <2>1 DEF RoutesInv, RouteTypes, RouteProgress, RouterDone
  <2>4. RoutesInstalled'
    BY <1>2, <2>1, <2>2 DEF RoutesInv, RoutesInstalled, RouterDone
  <2> QED BY <2>3, <2>4 DEF RoutesInv
<1>3. DOMAIN incoming_callbacks = Nodes
  BY DEF RoutesInv, RouteTypes
<1>4. CASE UNCHANGED <<routerVars, incoming_callbacks>>
  BY <1>2, <1>3, <1>4
<1>5. CASE UNCHANGED routerVars /\ IsoTpFilters
  <2>1. ASSUME NEW row, incoming_callbacks' = [incoming_callbacks EXCEPT ![Responder] = row]
        PROVE  RoutesInv'
    BY <1>2, <1>3, <1>5, <2>1, LinNetworkAssumption
  <2> QED BY <1>4, <1>5, <2>1, FiltersOfOther
<1> QED BY <1>1, <1>4, <1>5, WhoChangesRoutes DEF allVars, netVars, bridgeVars

(* For any routing tables and whichever ids or errors the CAN controller   *)
(* returns, a route is installed exactly if can_router_sysinit came to it  *)
(* and got a filter id; a result of zero means all are; and no filter of   *)
(* the ISO-TP application takes one away.                                  *)
THEOREM RoutesAreInstalled == NetSafety => []RoutesInstalled
BY RoutesInit, RoutesStep, PTL DEF NetSafety, RoutesInv
-----------------------------------------------------------------------------
(* What a CAN frame becomes on the LIN bus.                                *)

(* What lin2can_send puts into a queue.                                    *)
Encoded == {Encode(f) : f \in {g \in CanFrames : map_from_can_id(g.id) # Unmapped}}

Arriving(f) == [id |-> f.id, data |-> Padded(f.data)]

LEMMA MappedId ==
  ASSUME NEW id, map_from_can_id(id) # Unmapped
  PROVE  map_from_can_id(id) \in Addresses /\ id_mapping[map_from_can_id(id)] = id
<1> DEFINE found == {i \in Addresses : id_mapping[i] = id}
<1>1. found # {} /\ map_from_can_id(id) = Min(found)
  BY DEF map_from_can_id
<1>2. found \in SUBSET Nat
  BY DEF Addresses
<1>3. Min(found) \in found
  BY <1>1, <1>2, MinOfNaturals
<1> QED BY <1>1, <1>3

(* The index of the id and the first byte of an ISO-TP frame do not meet   *)
(* in the byte they share.                                                 *)
LEMMA DecodeEncode ==
  ASSUME NEW f \in CanFrames, map_from_can_id(f.id) # Unmapped
  PROVE  /\ Decode(Encode(f)) = Arriving(f)
         /\ Encode(f) # <<>>
<1> DEFINE m == map_from_can_id(f.id)
           p == Padded(f.data)
           d == f.data[1]
           x == Encode(f)
<1>1. m \in 0 .. 3 /\ id_mapping[m] = f.id
  BY MappedId DEF Addresses
<1>2. f.data \in Seq(0 .. 255) /\ Len(f.data) \in 1 .. 8 /\ d < 64
  BY IsoTpAssumption DEF FrameLength
<1>3. d \in 0 .. 63
  <2>1. ASSUME NEW s \in Seq(0 .. 255), Len(s) \in 1 .. 8 PROVE s[1] \in 0 .. 255
    <3>1. 1 \in 1 .. Len(s)
      BY <2>1
    <3> QED BY <3>1, ElementOfSeq
  <2>2. \A v \in 0 .. 255 : v < 64 => v \in 0 .. 63
    OBVIOUS
  <2>3. d \in 0 .. 255
    BY <1>2, <2>1
  <2> HIDE DEF d
  <2> QED BY <1>2, <2>2, <2>3
<1>4. p = [p EXCEPT ![1] = d] /\ p[1] = d /\ DOMAIN p = 1 .. 8
  BY <1>2 DEF Padded, FrameLength
<1>5. x = [p EXCEPT ![1] = (p[1] % 64) + 64 * Or(p[1] \div 64, m)]
  BY DEF Encode
<1> HIDE DEF m, p, d, x
<1>6. Or(0, m) = m
  BY <1>1 DEF Or
<1>7. d % 64 = d /\ d \div 64 = 0
  BY <1>3
<1>8. x = [p EXCEPT ![1] = d + 64 * m]
  BY <1>4, <1>5, <1>6, <1>7
<1>9. x[1] = d + 64 * m /\ DOMAIN x = 1 .. 8
  BY <1>4, <1>8
<1>10. (d + 64 * m) \div 64 = m /\ (d + 64 * m) % 64 = d
  BY <1>1, <1>3
<1>11. [x EXCEPT ![1] = d] = p
  BY <1>4, <1>8
<1>12. Decode(x) = [id |-> f.id, data |-> p]
  BY <1>1, <1>9, <1>10, <1>11 DEF Decode
<1>13. x # <<>>
  <2>1. DOMAIN x # {}
    <3>1. 1 \in 1 .. 8
      OBVIOUS
    <3> QED BY <1>9, <3>1
  <2>2. DOMAIN <<>> = {}
    OBVIOUS
  <2> QED BY <2>1, <2>2, Zenon
<1> QED BY <1>12, <1>13 DEF Arriving, p, x

LEMMA EncodedFacts ==
  ASSUME NEW x \in Encoded
  PROVE  x # <<>> /\ Decode(x) \in ArrivingFrames
<1>1. PICK f \in CanFrames : map_from_can_id(f.id) # Unmapped /\ x = Encode(f)
  BY DEF Encoded
<1> QED BY <1>1, DecodeEncode DEF ArrivingFrames, Arriving
-----------------------------------------------------------------------------
(* What the drivers find in the callback tables.                           *)

LEMMA Ids ==
  /\ Commander \in Nodes /\ Responder \in Nodes /\ Commander # Responder
  /\ \A n \in Nodes : n = Commander \/ n = Responder
  /\ incoming_id(Commander) = SlaveResponse /\ outgoing_id(Commander) = MasterRequest
  /\ incoming_id(Responder) = MasterRequest /\ outgoing_id(Responder) = SlaveResponse
  /\ MasterRequest # SlaveResponse /\ MasterRequest # 0 /\ SlaveResponse # 0
BY LinNetworkAssumption DEF incoming_id, outgoing_id, MasterRequest, SlaveResponse

(* A slot that the bridge does not use has neither its ids nor its         *)
(* callbacks.                                                              *)
LEMMA SlotIds ==
  ASSUME TablesInv, NEW n \in Nodes, NEW i \in Slots
  PROVE  \/ i = 0 /\ callbacks[n][i] = BridgeEntries(n)[1]
         \/ i = 1 /\ callbacks[n][i] = BridgeEntries(n)[2]
         \/ /\ callbacks[n][i].frame_id \notin {MasterRequest, SlaveResponse}
            /\ callbacks[n][i].cb # "bridge"
<1>1. BridgeSlots(n)
  BY DEF TablesInv
<1>2. i = 0 \/ i = 1 \/ i >= 2
  BY AbstractLinAssumption DEF Slots
<1>3. ASSUME NEW s \in AppSlots
      PROVE  s.frame_id \notin {MasterRequest, SlaveResponse} /\ s.cb # "bridge"
  BY LinNetworkAssumption DEF AppSlots
<1> QED BY <1>1, <1>2, <1>3 DEF BridgeSlots

LEMMA BridgeMatches ==
  ASSUME TablesInv, NEW n \in Nodes
  PROVE  /\ Matching(n, incoming_id(n)) = {0}
         /\ Matching(n, outgoing_id(n)) = {1}
<1>1. 0 \in Slots /\ 1 \in Slots /\ 0 < used_callbacks[n] /\ 1 < used_callbacks[n]
  <2>1. used_callbacks[n] \in 0 .. MaxFrames /\ used_callbacks[n] >= 2
    BY DEF TablesInv, AlInv, TableInv, TableTypes, BridgeSlots
  <2> QED BY <2>1, AbstractLinAssumption DEF Slots
<1>2. callbacks[n][0] = BridgeEntries(n)[1] /\ callbacks[n][1] = BridgeEntries(n)[2]
  BY DEF TablesInv, BridgeSlots
<1>3. /\ BridgeEntries(n)[1].frame_id = incoming_id(n)
      /\ BridgeEntries(n)[2].frame_id = outgoing_id(n)
      /\ incoming_id(n) \in {MasterRequest, SlaveResponse}
      /\ outgoing_id(n) \in {MasterRequest, SlaveResponse}
      /\ incoming_id(n) # outgoing_id(n)
  BY DEF BridgeEntries, incoming_id, outgoing_id, MasterRequest, SlaveResponse
<1>4. \A i \in Slots : /\ callbacks[n][i].frame_id = incoming_id(n) => i = 0
                       /\ callbacks[n][i].frame_id = outgoing_id(n) => i = 1
  BY <1>3, SlotIds
<1> QED BY <1>1, <1>2, <1>3, <1>4 DEF Matching

LEMMA MinOfOne ==
  ASSUME NEW k \in Nat
  PROVE  Min({k}) = k
BY DEF Min

LEMMA FirstMatches ==
  ASSUME TablesInv, NEW n \in Nodes
  PROVE  /\ HasMatch(n, incoming_id(n)) /\ HasMatch(n, outgoing_id(n))
         /\ FirstMatch(n, incoming_id(n)) = BridgeEntries(n)[1]
         /\ FirstMatch(n, outgoing_id(n)) = BridgeEntries(n)[2]
<1>1. callbacks[n][0] = BridgeEntries(n)[1] /\ callbacks[n][1] = BridgeEntries(n)[2]
  BY DEF TablesInv, BridgeSlots
<1>2. /\ Matching(n, incoming_id(n)) = {0}
      /\ Matching(n, outgoing_id(n)) = {1}
  BY BridgeMatches
<1> QED BY <1>1, <1>2, MinOfOne DEF FirstMatch, HasMatch

LEMMA OtherMatch ==
  ASSUME TablesInv, NEW n \in Nodes, NEW id, id \notin {MasterRequest, SlaveResponse},
         HasMatch(n, id)
  PROVE  FirstMatch(n, id).cb # "bridge"
<1> DEFINE found == Matching(n, id)
<1>1. found \in SUBSET Nat /\ found # {}
  BY AbstractLinAssumption DEF Matching, HasMatch, Slots
<1>2. Min(found) \in found
  BY <1>1, MinOfNaturals
<1>3. FirstMatch(n, id) = callbacks[n][Min(found)]
  BY <1>1 DEF FirstMatch
<1>4. Min(found) \in Slots /\ callbacks[n][Min(found)].frame_id = id
  BY <1>2 DEF Matching
<1> HIDE DEF found
<1>5. /\ BridgeEntries(n)[1].frame_id \in {MasterRequest, SlaveResponse}
      /\ BridgeEntries(n)[2].frame_id \in {MasterRequest, SlaveResponse}
  BY DEF BridgeEntries, incoming_id, outgoing_id
<1> QED BY <1>3, <1>4, <1>5, SlotIds

(* lin_rx_callback calls the bridge once for its own id and never for      *)
(* another.                                                                *)
LEMMA BridgedReceivers ==
  ASSUME TablesInv, NEW n \in Nodes, NEW id
  PROVE  {i \in Receivers(n, id) : callbacks[n][i].cb = "bridge"} =
           IF id = incoming_id(n) THEN {0} ELSE {}
<1> DEFINE B == {i \in Receivers(n, id) : callbacks[n][i].cb = "bridge"}
<1>1. /\ BridgeEntries(n)[1] =
           [frame_id |-> incoming_id(n), type |-> "incoming", cb |-> "bridge"]
      /\ BridgeEntries(n)[2].type = "outgoing"
  BY DEF BridgeEntries
<1>2. callbacks[n][0] = BridgeEntries(n)[1] /\ callbacks[n][1] = BridgeEntries(n)[2]
  BY DEF TablesInv, BridgeSlots
<1>3. \A i \in B : i = 0 /\ id = incoming_id(n)
  <2> SUFFICES ASSUME NEW i \in B PROVE i = 0 /\ id = incoming_id(n)
    OBVIOUS
  <2>1. i \in Slots /\ callbacks[n][i].frame_id = id /\ callbacks[n][i].type = "incoming"
        /\ callbacks[n][i].cb = "bridge"
    BY DEF Receivers, Matching
  <2> QED BY <1>1, <1>2, <2>1, SlotIds
<1>4. id = incoming_id(n) => 0 \in B
  <2>1. 0 \in Matching(n, incoming_id(n))
    BY BridgeMatches
  <2> QED BY <1>1, <1>2, <2>1 DEF Receivers
<1> QED BY <1>3, <1>4
-----------------------------------------------------------------------------
(* The transfer under way.                                                 *)

QueueInv == queue \in [Nodes -> Seq(Encoded)]

(* A frame of the bridge is on the bus only with the id of its direction,  *)
(* from the moment it leaves the queue until the receiver is called.       *)
BusInv ==
  /\ bus = [phase |-> bus.phase, id |-> bus.id, to |-> bus.to, frame |-> bus.frame,
            delivered |-> bus.delivered]
  /\ bus.phase \in {"idle", "header", "data", "end"}
  /\ bus.to \in Nodes
  /\ bus.phase = "idle" => bus = Idle
  /\ bus.id = MasterRequest => bus.to = Responder
  /\ bus.id = SlaveResponse => bus.to = Commander
  /\ bus.phase # "end" => bus.delivered = <<>>
  /\ bus.phase = "end" => bus.frame = <<>>
  /\ bus.phase = "header" /\ bus.to = Commander => bus.frame = <<>>
  /\ bus.phase = "header" /\ bus.id = MasterRequest => bus.frame \in Encoded
  /\ bus.phase = "data" /\ bus.id \in {MasterRequest, SlaveResponse} =>
       bus.frame \in Encoded

NetInv == TablesInv /\ QueueInv /\ BusInv

LEMMA TransferFields ==
  ASSUME NEW phase, NEW id, NEW to, NEW frame
  PROVE  LET t == Transfer(phase, id, to, frame)
         IN  /\ t.phase = phase /\ t.id = id /\ t.to = to /\ t.frame = frame
             /\ t.delivered = <<>>
             /\ t = [phase |-> t.phase, id |-> t.id, to |-> t.to, frame |-> t.frame,
                     delivered |-> t.delivered]
BY DEF Transfer

LEMMA IdleFields ==
  /\ Idle.phase = "idle" /\ Idle.id = 0 /\ Idle.to = Responder /\ Idle.frame = <<>>
  /\ Idle.delivered = <<>>
  /\ Idle = [phase |-> Idle.phase, id |-> Idle.id, to |-> Idle.to, frame |-> Idle.frame,
             delivered |-> Idle.delivered]
BY DEF Idle, Transfer

(* What Pop leaves.                                                        *)
LEMMA PopQueue ==
  ASSUME QueueInv, NEW n \in Nodes, Pop(n)
  PROVE  /\ QueueInv'
         /\ queue[n] \in Seq(Encoded) /\ queue[n] # <<>>
         /\ Head(queue[n]) \in Encoded
         /\ queue'[n] = Tail(queue[n])
         /\ \A m \in Nodes \ {n} : queue'[m] = queue[m]
<1>1. queue[n] # <<>> /\ queue' = [queue EXCEPT ![n] = Tail(queue[n])]
  BY DEF Pop
<1>2. queue[n] \in Seq(Encoded)
  BY DEF QueueInv
<1>3. Head(queue[n]) \in Encoded /\ Tail(queue[n]) \in Seq(Encoded)
  BY <1>1, <1>2, HeadTailProperties
<1> QED BY <1>1, <1>2, <1>3 DEF QueueInv

(* What an outgoing callback does: the bridge's takes the head of its      *)
(* queue, another does not touch the bridge.                               *)
LEMMA BridgeSupplies ==
  ASSUME QueueInv, NEW n \in Nodes, NEW e, e.cb = "bridge"
  PROVE  /\ queue[n] = <<>> => Supplied(n, e) = <<>>
         /\ queue[n] # <<>> => Supplied(n, e) = Head(queue[n]) /\ Supplied(n, e) # <<>>
         /\ CallOutgoing(n, e) => IF queue[n] # <<>> THEN Pop(n) ELSE UNCHANGED bridgeVars
<1>1. queue[n] # <<>> => Head(queue[n]) # <<>>
  <2>1. queue[n] \in Seq(Encoded)
    BY DEF QueueInv
  <2> QED BY <2>1, HeadTailProperties, EncodedFacts
<1> QED BY <1>1 DEF Supplied, CallOutgoing

LEMMA OtherSupplies ==
  ASSUME NEW n, NEW e, e.cb # "bridge"
  PROVE  CallOutgoing(n, e) => UNCHANGED bridgeVars
BY DEF CallOutgoing

(* al_schedule_now puts a header on the bus that was idle.                 *)
HeaderFor(id) ==
  \/ bus' = Idle /\ UNCHANGED bridgeVars
  \/ /\ id = MasterRequest /\ Pop(Commander)
     /\ bus' = Transfer("header", id, Responder, Head(queue[Commander]))
  \/ /\ id # MasterRequest /\ UNCHANGED bridgeVars
     /\ \/ bus' = Transfer("header", id, Commander, <<>>)
        \/ /\ id # SlaveResponse
           /\ bus' = Transfer("header", id, Responder, AppFrame)

LEMMA ScheduleNowHeader ==
  ASSUME NetInv, NEW id, ScheduleNow(id)
  PROVE  bus = Idle /\ HeaderFor(id)
<1> DEFINE e == FirstMatch(Commander, id)
<1> USE Ids
<1>1. bus = Idle
      /\ \/ NoOutgoing /\ UNCHANGED bus
         \/ /\ HasMatch(Commander, id)
            /\ e.type = "incoming"
            /\ bus' = Transfer("header", id, Commander, <<>>)
            /\ NoOutgoing
         \/ /\ HasMatch(Commander, id)
            /\ e.type = "outgoing"
            /\ bus' = IF Supplied(Commander, e) = <<>> THEN Idle
                      ELSE Transfer("header", id, Responder, Supplied(Commander, e))
            /\ CallOutgoing(Commander, e)
  BY DEF ScheduleNow
<1>2. CASE NoOutgoing /\ UNCHANGED bus
  BY <1>1, <1>2 DEF HeaderFor, NoOutgoing
<1>3. CASE id = MasterRequest /\ HasMatch(Commander, id)
  <2>1. e = BridgeEntries(Commander)[2]
    BY <1>3, FirstMatches DEF NetInv
  <2>2. e.type = "outgoing" /\ e.cb = "bridge"
    BY <2>1 DEF BridgeEntries
  <2> HIDE DEF e
  <2>3. /\ queue[Commander] = <<>> => Supplied(Commander, e) = <<>>
        /\ queue[Commander] # <<>> => /\ Supplied(Commander, e) = Head(queue[Commander])
                                      /\ Supplied(Commander, e) # <<>>
        /\ CallOutgoing(Commander, e) =>
             IF queue[Commander] # <<>> THEN Pop(Commander) ELSE UNCHANGED bridgeVars
    BY <2>2, BridgeSupplies DEF NetInv
  <2> QED BY <1>1, <1>2, <1>3, <2>2, <2>3 DEF HeaderFor
<1>4. CASE id = SlaveResponse /\ HasMatch(Commander, id)
  <2>1. e = BridgeEntries(Commander)[1]
    BY <1>4, FirstMatches DEF NetInv
  <2>2. e.type = "incoming"
    BY <2>1 DEF BridgeEntries
  <2> HIDE DEF e
  <2> QED BY <1>1, <1>2, <1>4, <2>2 DEF HeaderFor, NoOutgoing
<1>5. CASE id \notin {MasterRequest, SlaveResponse} /\ HasMatch(Commander, id)
  <2>1. e.cb # "bridge"
    BY <1>5, OtherMatch DEF NetInv
  <2> HIDE DEF e
  <2>2. CallOutgoing(Commander, e) => UNCHANGED bridgeVars
    BY <2>1, OtherSupplies
  <2>3. Supplied(Commander, e) = AppFrame
    BY <2>1 DEF Supplied
  <2> QED BY <1>1, <1>2, <1>5, <2>2, <2>3 DEF HeaderFor, NoOutgoing
<1> QED BY <1>1, <1>2, <1>3, <1>4, <1>5

(* lin_header_callback of the responder: it goes on with a frame of the    *)
(* commander, answers from the bridge or from an application, or does not  *)
(* answer; a frame of the bridge is never dropped here.                    *)
HeaderAnswered ==
  \/ /\ bus.to = Responder /\ bus' = [bus EXCEPT !.phase = "data"]
     /\ UNCHANGED bridgeVars
  \/ /\ bus.to = Commander /\ bus.id = SlaveResponse /\ Pop(Responder)
     /\ bus' = [bus EXCEPT !.phase = "data", !.frame = Head(queue[Responder])]
  \/ /\ bus.to = Commander /\ bus.id \notin {MasterRequest, SlaveResponse}
     /\ bus' = [bus EXCEPT !.phase = "data", !.frame = AppFrame]
     /\ UNCHANGED bridgeVars
  \/ /\ bus.id = MasterRequest => bus.frame = <<>>
     /\ bus.id = SlaveResponse => bus.frame = <<>>
     /\ bus' = Idle /\ UNCHANGED bridgeVars

LEMMA BusHeaderAnswered ==
  ASSUME NetInv, BusHeader
  PROVE  bus.phase = "header" /\ HeaderAnswered
<1> DEFINE e == FirstMatch(Responder, bus.id)
           match == HasMatch(Responder, bus.id)
           answers == match /\ e.type = "outgoing"
           receives == match /\ e.type = "incoming"
<1> USE Ids
<1>1. /\ bus.phase = "header"
      /\ \/ bus.to = Responder /\ receives /\ bus' = [bus EXCEPT !.phase = "data"]
         \/ /\ bus.to = Commander /\ answers /\ Supplied(Responder, e) # <<>>
            /\ bus' = [bus EXCEPT !.phase = "data", !.frame = Supplied(Responder, e)]
         \/ /\ IF bus.to = Responder THEN ~receives
               ELSE ~answers \/ Supplied(Responder, e) = <<>>
            /\ bus' = Idle
      /\ IF answers THEN CallOutgoing(Responder, e) ELSE UNCHANGED bridgeVars
  BY DEF BusHeader, NoOutgoing
<1>2. /\ bus.to \in Nodes
      /\ bus.id = MasterRequest => bus.to = Responder
      /\ bus.id = SlaveResponse => bus.to = Commander
      /\ bus.to = Commander => bus.frame = <<>>
  BY <1>1 DEF NetInv, BusInv
<1>3. CASE bus.id = MasterRequest
  <2>1. e = BridgeEntries(Responder)[1] /\ match
    BY <1>3, FirstMatches DEF NetInv
  <2>2. e.type = "incoming"
    BY <2>1 DEF BridgeEntries
  <2>3. receives /\ ~answers
    BY <2>1, <2>2
  <2> HIDE DEF e, match
  <2> QED BY <1>1, <1>2, <1>3, <2>3 DEF HeaderAnswered
<1>4. CASE bus.id = SlaveResponse
  <2>1. e = BridgeEntries(Responder)[2] /\ match
    BY <1>4, FirstMatches DEF NetInv
  <2>2. e.type = "outgoing" /\ e.cb = "bridge"
    BY <2>1 DEF BridgeEntries
  <2>3. answers
    BY <2>1, <2>2
  <2> HIDE DEF e, match
  <2>4. /\ queue[Responder] = <<>> => Supplied(Responder, e) = <<>>
        /\ queue[Responder] # <<>> => /\ Supplied(Responder, e) = Head(queue[Responder])
                                      /\ Supplied(Responder, e) # <<>>
        /\ CallOutgoing(Responder, e) =>
             IF queue[Responder] # <<>> THEN Pop(Responder) ELSE UNCHANGED bridgeVars
    BY <2>2, BridgeSupplies DEF NetInv
  <2>5. bus.to = Commander /\ bus.frame = <<>> /\ bus.id # MasterRequest
    BY <1>2, <1>4
  <2>6. CASE queue[Responder] = <<>>
    BY <1>1, <2>3, <2>4, <2>5, <2>6 DEF HeaderAnswered
  <2>7. CASE queue[Responder] # <<>>
    BY <1>1, <1>4, <2>3, <2>4, <2>5, <2>7 DEF HeaderAnswered
  <2> QED BY <2>6, <2>7
<1>5. CASE bus.id \notin {MasterRequest, SlaveResponse}
  <2>1. match => e.cb # "bridge"
    BY <1>5, OtherMatch DEF NetInv
  <2> HIDE DEF e, match
  <2>2. answers => Supplied(Responder, e) = AppFrame
    BY <2>1 DEF Supplied
  <2>3. UNCHANGED bridgeVars
    BY <1>1, <2>1, OtherSupplies
  <2> QED BY <1>1, <1>5, <2>2, <2>3 DEF HeaderAnswered
<1> QED BY <1>1, <1>3, <1>4, <1>5

(* lin_rx_callback of the receiver.                                        *)
LEMMA BusDataDelivers ==
  ASSUME NetInv, BusData
  PROVE  /\ bus.phase = "data" /\ UNCHANGED bridgeVars
         /\ bus'.phase = "end" /\ bus'.id = bus.id /\ bus'.to = bus.to /\ bus'.frame = <<>>
         /\ bus' = [phase |-> bus'.phase, id |-> bus'.id, to |-> bus'.to,
                    frame |-> bus'.frame, delivered |-> bus'.delivered]
         /\ \/ bus'.delivered = <<>>
            \/ bus.id = incoming_id(bus.to) /\ bus'.delivered = <<Decode(bus.frame)>>
<1> DEFINE n == bus.to
           bridged == {i \in Receivers(n, bus.id) : callbacks[n][i].cb = "bridge"}
           d == IF bridged # {} /\ ReceiverOf(n, bus.frame) # Nobody
                THEN [i \in 1 .. Cardinality(bridged) |-> Decode(bus.frame)]
                ELSE <<>>
<1>1. bus.phase = "data" /\ UNCHANGED bridgeVars
      /\ bus' = [Transfer("end", bus.id, n, <<>>) EXCEPT !.delivered = d]
  BY DEF BusData
<1>2. n \in Nodes
  BY DEF NetInv, BusInv
<1>3. bridged = IF bus.id = incoming_id(n) THEN {0} ELSE {}
  BY <1>2, BridgedReceivers DEF NetInv
<1> HIDE DEF bridged
<1>4. \/ d = <<>>
      \/ bus.id = incoming_id(n) /\ d = <<Decode(bus.frame)>>
  <2>1. CASE bridged = {}
    BY <2>1
  <2>2. CASE bus.id = incoming_id(n) /\ bridged = {0}
    <3>1. Cardinality(bridged) = 1
      BY <2>2, FS_Singleton
    <3>2. [i \in 1 .. 1 |-> Decode(bus.frame)] = <<Decode(bus.frame)>>
      OBVIOUS
    <3> QED BY <2>2, <3>1, <3>2
  <2> QED BY <1>3, <2>1, <2>2
<1> HIDE DEF d
<1>5. /\ bus'.phase = "end" /\ bus'.id = bus.id /\ bus'.to = n /\ bus'.frame = <<>>
      /\ bus'.delivered = d
      /\ bus' = [phase |-> bus'.phase, id |-> bus'.id, to |-> bus'.to,
                 frame |-> bus'.frame, delivered |-> bus'.delivered]
  BY <1>1 DEF Transfer
<1> QED BY <1>1, <1>4, <1>5
-----------------------------------------------------------------------------
(* The invariant of the network.                                           *)

LEMMA NetInvInit == NetInit => NetInv
<1>1. NetInit => QueueInv
  BY DEF NetInit, InitBridge, QueueInv
<1>2. NetInit => BusInv
  <2> SUFFICES ASSUME NetInit PROVE BusInv
    OBVIOUS
  <2>1. bus = Idle
    BY DEF NetInit
  <2> QED BY <2>1, IdleFields, Ids DEF BusInv
<1> QED BY <1>1, <1>2, TablesInit DEF NetInv

LEMMA BusHeld == BusInv /\ UNCHANGED bus => BusInv'
BY DEF BusInv, Idle, Transfer, Encoded, Encode, map_from_can_id, Padded

LEMMA BusIdle == bus' = Idle => BusInv'
<1> SUFFICES ASSUME bus' = Idle PROVE BusInv'
  OBVIOUS
<1> QED BY IdleFields, Ids DEF BusInv, Idle, Transfer

LEMMA QueueHeld == QueueInv /\ UNCHANGED bridgeVars => QueueInv'
BY DEF QueueInv, bridgeVars

LEMMA HeaderForInv ==
  ASSUME NetInv, NEW id, HeaderFor(id)
  PROVE  QueueInv' /\ BusInv'
<1> USE Ids
<1>1. CASE bus' = Idle /\ UNCHANGED bridgeVars
  BY <1>1, QueueHeld, BusIdle DEF NetInv
<1>2. CASE /\ id = MasterRequest /\ Pop(Commander)
           /\ bus' = Transfer("header", id, Responder, Head(queue[Commander]))
  <2>1. QueueInv' /\ Head(queue[Commander]) \in Encoded
    BY <1>2, PopQueue DEF NetInv
  <2>2. /\ bus'.phase = "header" /\ bus'.id = MasterRequest /\ bus'.to = Responder
        /\ bus'.frame \in Encoded /\ bus'.delivered = <<>>
        /\ bus' = [phase |-> bus'.phase, id |-> bus'.id, to |-> bus'.to,
                   frame |-> bus'.frame, delivered |-> bus'.delivered]
    BY <1>2, <2>1, TransferFields
  <2> QED BY <2>1, <2>2 DEF BusInv
<1>3. CASE /\ id # MasterRequest /\ UNCHANGED bridgeVars
           /\ \/ bus' = Transfer("header", id, Commander, <<>>)
              \/ /\ id # SlaveResponse
                 /\ bus' = Transfer("header", id, Responder, AppFrame)
  <2>1. QueueInv'
    BY <1>3, QueueHeld DEF NetInv
  <2>2. /\ bus'.phase = "header" /\ bus'.id = id /\ bus'.delivered = <<>>
        /\ \/ bus'.to = Commander /\ bus'.frame = <<>>
           \/ id # SlaveResponse /\ bus'.to = Responder
        /\ bus' = [phase |-> bus'.phase, id |-> bus'.id, to |-> bus'.to,
                   frame |-> bus'.frame, delivered |-> bus'.delivered]
    BY <1>3, TransferFields
  <2> QED BY <1>3, <2>1, <2>2 DEF BusInv
<1> QED BY <1>1, <1>2, <1>3 DEF HeaderFor

LEMMA HeaderAnsweredInv ==
  ASSUME NetInv, bus.phase = "header", HeaderAnswered
  PROVE  QueueInv' /\ BusInv'
<1> USE Ids
<1>1. BusInv
  BY DEF NetInv
<1>2. CASE /\ bus.to = Responder /\ bus' = [bus EXCEPT !.phase = "data"]
           /\ UNCHANGED bridgeVars
  <2>1. QueueInv'
    BY <1>2, QueueHeld DEF NetInv
  <2>2. /\ bus'.phase = "data" /\ bus'.id = bus.id /\ bus'.to = bus.to
        /\ bus'.frame = bus.frame /\ bus'.delivered = bus.delivered
        /\ bus' = [phase |-> bus'.phase, id |-> bus'.id, to |-> bus'.to,
                   frame |-> bus'.frame, delivered |-> bus'.delivered]
    BY <1>1, <1>2 DEF BusInv
  <2> QED BY <1>1, <1>2, <2>1, <2>2 DEF BusInv
<1>3. CASE /\ bus.to = Commander /\ bus.id = SlaveResponse /\ Pop(Responder)
           /\ bus' = [bus EXCEPT !.phase = "data", !.frame = Head(queue[Responder])]
  <2>1. QueueInv' /\ Head(queue[Responder]) \in Encoded
    BY <1>3, PopQueue DEF NetInv
  <2>2. /\ bus'.phase = "data" /\ bus'.id = bus.id /\ bus'.to = bus.to
        /\ bus'.frame = Head(queue[Responder]) /\ bus'.delivered = bus.delivered
        /\ bus' = [phase |-> bus'.phase, id |-> bus'.id, to |-> bus'.to,
                   frame |-> bus'.frame, delivered |-> bus'.delivered]
    BY <1>1, <1>3 DEF BusInv
  <2> QED BY <1>1, <1>3, <2>1, <2>2 DEF BusInv
<1>4. CASE /\ bus.to = Commander /\ bus.id \notin {MasterRequest, SlaveResponse}
           /\ bus' = [bus EXCEPT !.phase = "data", !.frame = AppFrame]
           /\ UNCHANGED bridgeVars
  <2>1. QueueInv'
    BY <1>4, QueueHeld DEF NetInv
  <2>2. /\ bus'.phase = "data" /\ bus'.id = bus.id /\ bus'.to = bus.to
        /\ bus'.delivered = bus.delivered
        /\ bus' = [phase |-> bus'.phase, id |-> bus'.id, to |-> bus'.to,
                   frame |-> bus'.frame, delivered |-> bus'.delivered]
    BY <1>1, <1>4 DEF BusInv
  <2> QED BY <1>1, <1>4, <2>1, <2>2 DEF BusInv
<1>5. CASE bus' = Idle /\ UNCHANGED bridgeVars
  BY <1>5, QueueHeld, BusIdle DEF NetInv
<1> QED BY <1>2, <1>3, <1>4, <1>5 DEF HeaderAnswered

LEMMA BusDataInv ==
  ASSUME NetInv, BusData
  PROVE  QueueInv' /\ BusInv'
<1>1. BusInv
  BY DEF NetInv
<1> QED BY <1>1, BusDataDelivers, QueueHeld, Ids DEF NetInv, BusInv

LEMMA SendQueue ==
  ASSUME QueueInv, NEW n \in Nodes, NEW f \in CanFrames, Send(n, f)
  PROVE  /\ QueueInv'
         /\ Encode(f) \in Encoded /\ Len(queue[n]) < QueueSize
         /\ queue'[n] = Append(queue[n], Encode(f))
         /\ \A m \in Nodes \ {n} : queue'[m] = queue[m]
<1>1. /\ map_from_can_id(f.id) # Unmapped /\ Len(queue[n]) < QueueSize
      /\ queue' = [queue EXCEPT ![n] = Append(queue[n], Encode(f))]
  BY DEF Send, CanQueue
<1>2. Encode(f) \in Encoded /\ queue[n] \in Seq(Encoded)
  BY <1>1 DEF Encoded, QueueInv
<1>3. Append(queue[n], Encode(f)) \in Seq(Encoded)
  BY <1>2, AppendProperties
<1> QED BY <1>1, <1>2, <1>3 DEF QueueInv

(* The kinds of steps the bridge sees.                                     *)
LEMMA NetStepKinds ==
  ASSUME NetInv, [NetNext]_allVars
  PROVE  \/ UNCHANGED <<queue, bus>>
         \/ bus = Idle /\ \E id : HeaderFor(id)
         \/ bus.phase = "header" /\ HeaderAnswered
         \/ BusData
         \/ BusEnd
         \/ BusFault
         \/ \E n \in Nodes, f \in CanFrames : Send(n, f) /\ UNCHANGED bus
<1>1. CASE UNCHANGED allVars
  BY <1>1 DEF allVars, netVars, bridgeVars
<1>2. CASE Sysinit
  BY <1>2 DEF Sysinit, RouteEntry, NextTable, AddFilter, bridgeVars
<1>3. CASE SchedulerStep
  BY <1>3, ScheduleNowHeader DEF SchedulerStep, netVars, bridgeVars
<1>4. CASE BusStep
  BY <1>4, BusHeaderAnswered DEF BusStep
<1>5. CASE \E c \in Callers : TableCall(c) \/ CallerStep(c)
  BY <1>5 DEF TableCall, CallerStep, netVars, bridgeVars
<1>6. CASE ResponderApplication
  BY <1>6 DEF ResponderApplication, bridgeVars
<1>7. CASE IsoTpSends \/ GatewayRoutes
  BY <1>7, Ids DEF IsoTpSends, GatewayRoutes, RouteToLin
<1>8. CASE IsoTpFilters
  BY <1>8 DEF IsoTpFilters, AddFilter, RemoveFilter, bridgeVars
<1> QED BY <1>1, <1>2, <1>3, <1>4, <1>5, <1>6, <1>7, <1>8 DEF NetNext

LEMMA NetInvStep == NetInv /\ [NetNext]_allVars => NetInv'
<1> SUFFICES ASSUME NetInv, [NetNext]_allVars PROVE QueueInv' /\ BusInv'
  BY TablesStep DEF NetInv
<1>1. CASE UNCHANGED <<queue, bus>>
  BY <1>1, BusHeld DEF NetInv, QueueInv
<1>2. CASE \E id : HeaderFor(id)
  BY <1>2, HeaderForInv
<1>3. CASE bus.phase = "header" /\ HeaderAnswered
  BY <1>3, HeaderAnsweredInv
<1>4. CASE BusData
  BY <1>4, BusDataInv
<1>5. CASE BusEnd \/ BusFault
  BY <1>5, QueueHeld, BusIdle DEF NetInv, BusEnd, BusFault
<1>6. CASE \E n \in Nodes, f \in CanFrames : Send(n, f) /\ UNCHANGED bus
  BY <1>6, SendQueue, BusHeld DEF NetInv
<1> QED BY <1>1, <1>2, <1>3, <1>4, <1>5, <1>6, NetStepKinds
-----------------------------------------------------------------------------
(* Each direction as a line of encoded frames: the one on the bus, then    *)
(* the queue.                                                              *)

From(n) == IF n = Commander THEN Responder ELSE Commander

OnBus(n) == IF bus.id = incoming_id(n) /\ bus.frame # <<>> THEN <<bus.frame>> ELSE <<>>

Line(n) == OnBus(n) \o queue[From(n)]

(* What may happen to a line: a frame joins it, is lost or delivered at    *)
(* its head, or the receiver is done.                                      *)
LineStep(n) ==
  \/ \E x \in Encoded : /\ Len(Line(n)) < QueueSize + 1
                        /\ Line(n)' = Append(Line(n), x)
                        /\ Delivered(n)' = Delivered(n)
  \/ Line(n) # <<>> /\ Line(n)' = Tail(Line(n)) /\ Delivered(n)' = Delivered(n)
  \/ /\ Line(n) # <<>> /\ Delivered(n) = <<>>
     /\ Line(n)' = Tail(Line(n)) /\ Delivered(n)' = <<Decode(Head(Line(n)))>>
  \/ Line(n)' = Line(n) /\ Delivered(n)' = <<>>
  \/ Line(n)' = Line(n) /\ Delivered(n)' = Delivered(n)

LEMMA ConcatOne ==
  ASSUME NEW S, NEW q \in Seq(S), NEW x \in S
  PROVE  /\ <<x>> \o q \in Seq(S) /\ <<x>> \o q # <<>> /\ Len(<<x>> \o q) = Len(q) + 1
         /\ Head(<<x>> \o q) = x /\ Tail(<<x>> \o q) = q
<1> DEFINE s == <<x>> \o q
<1>1. <<x>> \in Seq(S) /\ Len(<<x>>) = 1 /\ <<x>>[1] = x
  OBVIOUS
<1>2. s \in Seq(S) /\ Len(s) = 1 + Len(q)
      /\ \A i \in 1 .. 1 + Len(q) : s[i] = IF i <= 1 THEN <<x>>[i] ELSE q[i - 1]
  BY <1>1, ConcatProperties
<1> HIDE DEF s
<1>3. Len(q) \in Nat
  OBVIOUS
<1>4. s # <<>> /\ s[1] = x
  BY <1>1, <1>2, <1>3
<1>5. Tail(s) \in Seq(S) /\ Len(Tail(s)) = Len(q)
      /\ \A i \in 1 .. Len(q) : Tail(s)[i] = q[i]
  <2>1. Tail(s) \in Seq(S) /\ Len(Tail(s)) = Len(s) - 1
        /\ \A i \in 1 .. Len(Tail(s)) : Tail(s)[i] = s[i + 1]
    BY <1>2, <1>4, HeadTailProperties
  <2> QED BY <1>2, <1>3, <2>1
<1>6. Tail(s) = q
  BY <1>5, SeqEqual
<1>7. Head(s) = x
  BY <1>2, <1>4
<1> QED BY <1>2, <1>3, <1>4, <1>6, <1>7 DEF s

LEMMA HeadThenTail ==
  ASSUME NEW S, NEW q \in Seq(S), q # <<>>
  PROVE  <<Head(q)>> \o Tail(q) = q
<1> DEFINE s == <<Head(q)>> \o Tail(q)
<1>1. Head(q) \in S /\ Tail(q) \in Seq(S) /\ Len(Tail(q)) = Len(q) - 1
      /\ \A i \in 1 .. Len(Tail(q)) : Tail(q)[i] = q[i + 1]
  BY HeadTailProperties
<1>2. <<Head(q)>> \in Seq(S) /\ Len(<<Head(q)>>) = 1 /\ <<Head(q)>>[1] = Head(q)
      /\ Head(q) = q[1]
  BY <1>1
<1>3. s \in Seq(S) /\ Len(s) = 1 + Len(Tail(q))
      /\ \A i \in 1 .. 1 + Len(Tail(q)) :
           s[i] = IF i <= 1 THEN <<Head(q)>>[i] ELSE Tail(q)[i - 1]
  BY <1>1, <1>2, ConcatProperties
<1> HIDE DEF s
<1>4. Len(q) \in Nat /\ Len(q) >= 1 /\ Len(s) = Len(q)
  BY <1>1, <1>3
<1>5. \A i \in 1 .. Len(s) : s[i] = q[i]
  <2> SUFFICES ASSUME NEW i \in 1 .. Len(s) PROVE s[i] = q[i]
    OBVIOUS
  <2>1. CASE i = 1
    BY <1>1, <1>2, <1>3, <1>4, <2>1
  <2>2. CASE i > 1
    <3>1. i - 1 \in 1 .. Len(Tail(q)) /\ (i - 1) + 1 = i
      BY <1>1, <1>4, <2>2
    <3> QED BY <1>1, <1>3, <1>4, <2>2, <3>1
  <2> QED BY <1>4, <2>1, <2>2
<1> QED BY <1>3, <1>4, <1>5, SeqEqual DEF s

LEMMA ConcatAppend ==
  ASSUME NEW S, NEW b \in Seq(S), NEW q \in Seq(S), NEW x \in S
  PROVE  b \o Append(q, x) = Append(b \o q, x)
<1>1. Append(q, x) = q \o <<x>> /\ <<x>> \in Seq(S)
  BY AppendIsConcat
<1>2. b \o q \in Seq(S)
  BY ConcatProperties
<1>3. Append(b \o q, x) = (b \o q) \o <<x>>
  BY <1>2, AppendIsConcat
<1>4. b \o (q \o <<x>>) = (b \o q) \o <<x>>
  BY <1>1, ConcatAssociative
<1> QED BY <1>1, <1>3, <1>4

LEMMA LineType ==
  ASSUME NetInv, NEW n \in Nodes
  PROVE  /\ OnBus(n) \in Seq(Encoded) /\ Len(OnBus(n)) <= 1
         /\ queue[From(n)] \in Seq(Encoded)
         /\ Line(n) \in Seq(Encoded)
         /\ Len(Line(n)) = Len(OnBus(n)) + Len(queue[From(n)])
<1>1. bus.id = incoming_id(n) /\ bus.frame # <<>> => bus.frame \in Encoded
  BY Ids, IdleFields DEF NetInv, BusInv
<1>2. OnBus(n) \in Seq(Encoded) /\ Len(OnBus(n)) <= 1
  BY <1>1 DEF OnBus
<1>3. queue[From(n)] \in Seq(Encoded)
  BY Ids DEF NetInv, QueueInv, From
<1> QED BY <1>2, <1>3, ConcatProperties DEF Line

(* A line is the queue alone when the bus carries no frame of it.          *)
LEMMA LineOffBus ==
  ASSUME NetInv, NEW n \in Nodes
  PROVE  OnBus(n) = <<>> => Line(n) = queue[From(n)]
BY LineType, ConcatEmptySeq DEF Line

LEMMA LineOffBusNext ==
  ASSUME NetInv', NEW n \in Nodes
  PROVE  OnBus(n)' = <<>> => Line(n)' = queue'[From(n)]
<1>1. queue'[From(n)] \in Seq(Encoded)
  BY Ids DEF NetInv, QueueInv, From
<1> QED BY <1>1, ConcatEmptySeq DEF Line, From

(* Nothing happens to a line.                                              *)
LEMMA LineKept ==
  ASSUME NEW n \in Nodes, OnBus(n)' = OnBus(n), queue'[From(n)] = queue[From(n)],
         Delivered(n)' = Delivered(n)
  PROVE  LineStep(n)
BY DEF Line, LineStep, From

(* The frame at the head of the queue moves to the bus: still in line.     *)
LEMMA LinePopped ==
  ASSUME NetInv, NetInv', NEW n \in Nodes, Pop(From(n)), OnBus(n) = <<>>,
         OnBus(n)' = <<Head(queue[From(n)])>>, Delivered(n)' = Delivered(n)
  PROVE  LineStep(n)
<1> DEFINE q == queue[From(n)]
<1>1. From(n) \in Nodes /\ q # <<>> /\ queue' = [queue EXCEPT ![From(n)] = Tail(q)]
  BY Ids DEF Pop, From
<1>2. q \in Seq(Encoded) /\ queue'[From(n)] = Tail(q)
  BY <1>1 DEF NetInv, QueueInv
<1>3. Line(n)' = <<Head(q)>> \o Tail(q)
  BY <1>2 DEF Line, From
<1>4. Line(n) = q
  BY LineOffBus
<1>5. <<Head(q)>> \o Tail(q) = q
  BY <1>1, <1>2, HeadThenTail
<1> QED BY <1>3, <1>4, <1>5 DEF LineStep

(* The frame on the bus is gone.                                           *)
LEMMA LineTaken ==
  ASSUME NetInv, NetInv', NEW n \in Nodes, bus.id = incoming_id(n), bus.frame # <<>>,
         queue'[From(n)] = queue[From(n)], OnBus(n)' = <<>>
  PROVE  /\ Line(n) # <<>> /\ Line(n)' = Tail(Line(n)) /\ Head(Line(n)) = bus.frame
<1> DEFINE q == queue[From(n)]
<1>1. OnBus(n) = <<bus.frame>> /\ Line(n) = <<bus.frame>> \o q
  BY DEF OnBus, Line
<1>2. bus.frame \in Encoded
  BY Ids, IdleFields DEF NetInv, BusInv
<1>3. q \in Seq(Encoded)
  BY LineType
<1>4. Line(n)' = q
  BY LineOffBusNext
<1> QED BY <1>1, <1>2, <1>3, <1>4, ConcatOne

LEMMA LineStepHeader ==
  ASSUME NetInv, NetInv', NEW n \in Nodes, bus = Idle, NEW id, HeaderFor(id)
  PROVE  LineStep(n)
<1> USE Ids, IdleFields
<1>1. OnBus(n) = <<>> /\ Delivered(n) = <<>>
  BY DEF OnBus, Delivered
<1>2. CASE bus' = Idle /\ UNCHANGED bridgeVars
  <2>1. OnBus(n)' = <<>> /\ Delivered(n)' = <<>>
    BY <1>2 DEF OnBus, Delivered
  <2> QED BY <1>1, <1>2, <2>1, LineKept DEF bridgeVars
<1>3. CASE /\ id = MasterRequest /\ Pop(Commander)
           /\ bus' = Transfer("header", id, Responder, Head(queue[Commander]))
  <2>1. /\ bus'.id = MasterRequest /\ bus'.frame = Head(queue[Commander])
        /\ bus'.delivered = <<>>
    BY <1>3, TransferFields
  <2>2. Delivered(n)' = <<>>
    BY <2>1 DEF Delivered
  <2>3. /\ queue'[Responder] = queue[Responder]
        /\ Head(queue[Commander]) \in Encoded
    BY <1>3, PopQueue DEF NetInv
  <2>4. CASE n = Responder
    <3>1. From(n) = Commander
      BY <2>4 DEF From
    <3>2. OnBus(n)' = <<Head(queue[Commander])>>
      BY <2>1, <2>3, <2>4, EncodedFacts DEF OnBus
    <3> QED BY <1>1, <1>3, <2>2, <3>1, <3>2, LinePopped
  <2>5. CASE n = Commander
    <3>1. From(n) = Responder
      BY <2>5 DEF From
    <3>2. OnBus(n)' = <<>>
      BY <2>1, <2>5 DEF OnBus
    <3> QED BY <1>1, <2>2, <2>3, <3>1, <3>2, LineKept
  <2> QED BY <2>4, <2>5
<1>4. CASE /\ id # MasterRequest /\ UNCHANGED bridgeVars
           /\ \/ bus' = Transfer("header", id, Commander, <<>>)
              \/ /\ id # SlaveResponse
                 /\ bus' = Transfer("header", id, Responder, AppFrame)
  <2>1. /\ bus'.id = id /\ bus'.delivered = <<>>
        /\ bus'.frame = <<>> \/ id # SlaveResponse
    BY <1>4, TransferFields
  <2>2. OnBus(n)' = <<>> /\ Delivered(n)' = <<>>
    BY <1>4, <2>1 DEF OnBus, Delivered
  <2> QED BY <1>1, <1>4, <2>2, LineKept DEF bridgeVars
<1> QED BY <1>2, <1>3, <1>4 DEF HeaderFor

LEMMA LineStepAnswer ==
  ASSUME NetInv, NetInv', NEW n \in Nodes, bus.phase = "header", HeaderAnswered
  PROVE  LineStep(n)
<1> USE Ids
<1>1. BusInv /\ bus.delivered = <<>> /\ Delivered(n) = <<>>
  BY DEF NetInv, BusInv, Delivered
<1>2. CASE /\ bus.to = Responder /\ bus' = [bus EXCEPT !.phase = "data"]
           /\ UNCHANGED bridgeVars
  <2>1. bus'.id = bus.id /\ bus'.frame = bus.frame /\ bus'.delivered = <<>>
    BY <1>1, <1>2 DEF BusInv
  <2>2. OnBus(n)' = OnBus(n) /\ Delivered(n)' = <<>>
    BY <2>1 DEF OnBus, Delivered, incoming_id
  <2> QED BY <1>1, <1>2, <2>2, LineKept DEF bridgeVars
<1>3. CASE /\ bus.to = Commander /\ bus.id = SlaveResponse /\ Pop(Responder)
           /\ bus' = [bus EXCEPT !.phase = "data", !.frame = Head(queue[Responder])]
  <2>1. /\ bus'.id = SlaveResponse /\ bus'.frame = Head(queue[Responder])
        /\ bus'.delivered = <<>> /\ bus.frame = <<>>
    BY <1>1, <1>3 DEF BusInv
  <2>2. OnBus(n) = <<>> /\ Delivered(n)' = <<>>
    BY <2>1 DEF OnBus, Delivered
  <2>3. /\ queue'[Commander] = queue[Commander]
        /\ Head(queue[Responder]) \in Encoded
    BY <1>3, PopQueue DEF NetInv
  <2>4. CASE n = Commander
    <3>1. From(n) = Responder
      BY <2>4 DEF From
    <3>2. OnBus(n)' = <<Head(queue[Responder])>>
      BY <2>1, <2>3, <2>4, EncodedFacts DEF OnBus
    <3> QED BY <1>1, <1>3, <2>2, <3>1, <3>2, LinePopped
  <2>5. CASE n = Responder
    <3>1. From(n) = Commander
      BY <2>5 DEF From
    <3>2. OnBus(n)' = <<>>
      BY <2>1, <2>5 DEF OnBus
    <3> QED BY <1>1, <2>2, <2>3, <3>1, <3>2, LineKept
  <2> QED BY <2>4, <2>5
<1>4. CASE /\ bus.to = Commander /\ bus.id \notin {MasterRequest, SlaveResponse}
           /\ bus' = [bus EXCEPT !.phase = "data", !.frame = AppFrame]
           /\ UNCHANGED bridgeVars
  <2>1. bus'.id = bus.id /\ bus'.delivered = <<>>
    BY <1>1, <1>4 DEF BusInv
  <2>2. OnBus(n) = <<>> /\ OnBus(n)' = <<>> /\ Delivered(n)' = <<>>
    BY <1>4, <2>1 DEF OnBus, Delivered
  <2> QED BY <1>1, <1>4, <2>2, LineKept DEF bridgeVars
<1>5. CASE /\ bus.id = MasterRequest => bus.frame = <<>>
           /\ bus.id = SlaveResponse => bus.frame = <<>>
           /\ bus' = Idle /\ UNCHANGED bridgeVars
  <2>1. OnBus(n) = <<>> /\ OnBus(n)' = <<>> /\ Delivered(n)' = <<>>
    BY <1>5, IdleFields DEF OnBus, Delivered
  <2> QED BY <1>1, <1>5, <2>1, LineKept DEF bridgeVars
<1> QED BY <1>2, <1>3, <1>4, <1>5 DEF HeaderAnswered

LEMMA LineStepData ==
  ASSUME NetInv, NetInv', NEW n \in Nodes, BusData
  PROVE  LineStep(n)
<1> USE Ids
<1>1. /\ bus.phase = "data" /\ UNCHANGED bridgeVars
      /\ bus'.id = bus.id /\ bus'.to = bus.to /\ bus'.frame = <<>>
      /\ \/ bus'.delivered = <<>>
         \/ bus.id = incoming_id(bus.to) /\ bus'.delivered = <<Decode(bus.frame)>>
  BY BusDataDelivers
<1>2. OnBus(n)' = <<>> /\ Delivered(n) = <<>> /\ queue' = queue
  BY <1>1 DEF OnBus, Delivered, NetInv, BusInv, bridgeVars
<1>3. CASE bus.id = incoming_id(n)
  <2>1. bus.to = n /\ bus.frame \in Encoded
    BY <1>1, <1>3 DEF NetInv, BusInv
  <2>2. bus.frame # <<>>
    BY <2>1, EncodedFacts
  <2>3. Line(n) # <<>> /\ Line(n)' = Tail(Line(n)) /\ Head(Line(n)) = bus.frame
    BY <1>2, <1>3, <2>2, LineTaken
  <2>4. Delivered(n)' = <<>> \/ Delivered(n)' = <<Decode(bus.frame)>>
    BY <1>1, <2>1 DEF Delivered
  <2> QED BY <1>2, <2>3, <2>4 DEF LineStep
<1>4. CASE bus.id # incoming_id(n)
  <2>1. OnBus(n) = <<>> /\ Delivered(n)' = <<>>
    BY <1>1, <1>4 DEF OnBus, Delivered
  <2> QED BY <1>2, <2>1, LineKept
<1> QED BY <1>3, <1>4

LEMMA LineSteps ==
  ASSUME NetInv, NetInv', NEW n \in Nodes, [NetNext]_allVars
  PROVE  LineStep(n)
<1> USE Ids
<1>1. CASE UNCHANGED <<queue, bus>>
  BY <1>1, LineKept DEF OnBus, Delivered, incoming_id
<1>2. CASE bus = Idle /\ \E id : HeaderFor(id)
  BY <1>2, LineStepHeader
<1>3. CASE bus.phase = "header" /\ HeaderAnswered
  BY <1>3, LineStepAnswer
<1>4. CASE BusData
  BY <1>4, LineStepData
<1>5. CASE BusEnd
  <2>1. bus.phase = "end" /\ bus' = Idle /\ queue' = queue
    BY <1>5 DEF BusEnd, bridgeVars
  <2>2. OnBus(n) = <<>> /\ OnBus(n)' = <<>> /\ Delivered(n)' = <<>>
    BY <2>1, IdleFields DEF OnBus, Delivered, NetInv, BusInv
  <2>3. Line(n)' = Line(n)
    BY <2>1, <2>2 DEF Line, From
  <2> QED BY <2>2, <2>3 DEF LineStep
<1>6. CASE BusFault
  <2>1. bus.phase \in {"header", "data"} /\ bus' = Idle /\ queue' = queue
    BY <1>6 DEF BusFault, bridgeVars
  <2>2. OnBus(n)' = <<>> /\ Delivered(n)' = <<>> /\ Delivered(n) = <<>>
    BY <2>1, IdleFields DEF OnBus, Delivered, NetInv, BusInv
  <2>3. CASE bus.id = incoming_id(n) /\ bus.frame # <<>>
    BY <2>1, <2>2, <2>3, LineTaken DEF LineStep
  <2>4. CASE ~(bus.id = incoming_id(n) /\ bus.frame # <<>>)
    BY <2>1, <2>2, <2>4, LineKept DEF OnBus
  <2> QED BY <2>3, <2>4
<1>7. ASSUME NEW m \in Nodes, NEW f \in CanFrames, Send(m, f), UNCHANGED bus
      PROVE  LineStep(n)
  <2>1. /\ Encode(f) \in Encoded /\ Len(queue[m]) < QueueSize
        /\ queue'[m] = Append(queue[m], Encode(f))
        /\ \A k \in Nodes \ {m} : queue'[k] = queue[k]
    BY <1>7, SendQueue DEF NetInv
  <2>2. OnBus(n)' = OnBus(n) /\ Delivered(n)' = Delivered(n)
    BY <1>7 DEF OnBus, Delivered, incoming_id
  <2>3. From(n) \in Nodes
    BY DEF From
  <2>4. CASE From(n) # m
    BY <2>1, <2>2, <2>3, <2>4, LineKept
  <2>5. CASE From(n) = m
    <3>1. /\ OnBus(n) \in Seq(Encoded) /\ Len(OnBus(n)) <= 1 /\ queue[m] \in Seq(Encoded)
          /\ Len(Line(n)) = Len(OnBus(n)) + Len(queue[m])
      BY <2>5, LineType
    <3>2. Line(n)' = OnBus(n) \o Append(queue[m], Encode(f)) /\ Line(n) = OnBus(n) \o queue[m]
      BY <2>1, <2>2, <2>5 DEF Line, From
    <3>3. Line(n)' = Append(Line(n), Encode(f))
      <4>1. OnBus(n) \o Append(queue[m], Encode(f)) =
              Append(OnBus(n) \o queue[m], Encode(f))
        <5>1. \A b, q \in Seq(Encoded), x \in Encoded :
                b \o Append(q, x) = Append(b \o q, x)
          BY ConcatAppend
        <5> QED BY <2>1, <3>1, <5>1
      <4> QED BY <3>2, <4>1
    <3>4. Len(Line(n)) < QueueSize + 1
      <4>1. Len(OnBus(n)) \in Nat /\ Len(queue[m]) \in Nat /\ QueueSize \in Nat
        BY <3>1, Lin2CanAssumption
      <4> QED BY <2>1, <3>1, <4>1
    <3> QED BY <2>1, <2>2, <3>3, <3>4 DEF LineStep
  <2> QED BY <2>4, <2>5
<1> QED BY <1>1, <1>2, <1>3, <1>4, <1>5, <1>6, <1>7, NetStepKinds
-----------------------------------------------------------------------------
(* The lines, decoded, are the channels of FrameChannel.                   *)

DecodeAll(s) == [i \in DOMAIN s |-> Decode(s[i])]

LEMMA OtherNode == \A n \in Nodes : (CHOOSE m \in Nodes : m # n) = From(n)
BY LinNetworkAssumption DEF From

LEMMA UnderWayIsLine ==
  ASSUME NEW n \in Nodes
  PROVE  UnderWay(n) = DecodeAll(Line(n)) /\ UnderWay(n)' = DecodeAll(Line(n)')
<1> DEFINE from == CHOOSE m \in Nodes : m # n
<1>1. UnderWay(n) = DecodeAll(OnBus(n) \o queue[from])
  BY DEF UnderWay, DecodeAll, OnBus
<1>2. UnderWay(n)' = DecodeAll(OnBus(n)' \o queue'[from])
  BY DEF UnderWay, DecodeAll, OnBus
<1>3. from = From(n)
  BY OtherNode
<1> HIDE DEF from
<1>4. Line(n) = OnBus(n) \o queue[from] /\ Line(n)' = OnBus(n)' \o queue'[from]
  BY <1>3 DEF Line, From
<1> QED BY <1>1, <1>2, <1>4

LEMMA DecodeAllFacts ==
  ASSUME NEW s \in Seq(Encoded)
  PROVE  /\ DecodeAll(s) \in Seq(ArrivingFrames) /\ Len(DecodeAll(s)) = Len(s)
         /\ \A i \in 1 .. Len(s) : DecodeAll(s)[i] = Decode(s[i])
<1>1. DOMAIN s = 1 .. Len(s) /\ Len(s) \in Nat /\ \A i \in 1 .. Len(s) : s[i] \in Encoded
  OBVIOUS
<1>2. DecodeAll(s) = [i \in 1 .. Len(s) |-> Decode(s[i])]
  BY <1>1 DEF DecodeAll
<1>3. \A i \in 1 .. Len(s) : Decode(s[i]) \in ArrivingFrames
  BY <1>1, EncodedFacts
<1>4. DecodeAll(s) \in [1 .. Len(s) -> ArrivingFrames]
  BY <1>2, <1>3
<1>5. DecodeAll(s) \in Seq(ArrivingFrames) /\ Len(DecodeAll(s)) = Len(s)
  BY <1>1, <1>4
<1> QED BY <1>2, <1>5

LEMMA DecodeAppend ==
  ASSUME NEW s \in Seq(Encoded), NEW x \in Encoded
  PROVE  DecodeAll(Append(s, x)) = Append(DecodeAll(s), Decode(x))
<1> DEFINE a == DecodeAll(Append(s, x))
           b == Append(DecodeAll(s), Decode(x))
<1>1. /\ Append(s, x) \in Seq(Encoded) /\ Len(Append(s, x)) = Len(s) + 1
      /\ \A i \in 1 .. Len(s) : Append(s, x)[i] = s[i]
      /\ Append(s, x)[Len(s) + 1] = x
  BY AppendProperties
<1>2. /\ a \in Seq(ArrivingFrames) /\ Len(a) = Len(s) + 1
      /\ \A i \in 1 .. Len(s) + 1 : a[i] = Decode(Append(s, x)[i])
  BY <1>1, DecodeAllFacts
<1>3. /\ DecodeAll(s) \in Seq(ArrivingFrames) /\ Len(DecodeAll(s)) = Len(s)
      /\ \A i \in 1 .. Len(s) : DecodeAll(s)[i] = Decode(s[i])
      /\ Decode(x) \in ArrivingFrames
  BY DecodeAllFacts, EncodedFacts
<1>4. /\ b \in Seq(ArrivingFrames) /\ Len(b) = Len(s) + 1
      /\ \A i \in 1 .. Len(s) : b[i] = DecodeAll(s)[i]
      /\ b[Len(s) + 1] = Decode(x)
  BY <1>3, AppendProperties
<1> HIDE DEF a, b
<1>5. \A i \in 1 .. Len(a) : a[i] = b[i]
  <2> SUFFICES ASSUME NEW i \in 1 .. Len(s) + 1 PROVE a[i] = b[i]
    BY <1>2
  <2>1. CASE i = Len(s) + 1
    BY <1>1, <1>2, <1>4, <2>1
  <2>2. CASE i \in 1 .. Len(s)
    BY <1>1, <1>2, <1>3, <1>4, <2>2
  <2>3. Len(s) \in Nat
    OBVIOUS
  <2> QED BY <2>1, <2>2, <2>3
<1>6. Len(a) = Len(b)
  BY <1>2, <1>4
<1> QED BY <1>2, <1>4, <1>5, <1>6, SeqEqual DEF a, b

LEMMA DecodeTail ==
  ASSUME NEW s \in Seq(Encoded), s # <<>>
  PROVE  /\ DecodeAll(s) # <<>>
         /\ DecodeAll(Tail(s)) = Tail(DecodeAll(s))
         /\ Head(DecodeAll(s)) = Decode(Head(s))
<1> DEFINE d == DecodeAll(s)
           a == DecodeAll(Tail(s))
           b == Tail(d)
<1>1. /\ Tail(s) \in Seq(Encoded) /\ Len(Tail(s)) = Len(s) - 1
      /\ \A i \in 1 .. Len(Tail(s)) : Tail(s)[i] = s[i + 1]
      /\ Len(s) \in Nat /\ Len(s) >= 1
  BY HeadTailProperties
<1>2. /\ d \in Seq(ArrivingFrames) /\ Len(d) = Len(s)
      /\ \A i \in 1 .. Len(s) : d[i] = Decode(s[i])
  BY DecodeAllFacts
<1>3. /\ a \in Seq(ArrivingFrames) /\ Len(a) = Len(s) - 1
      /\ \A i \in 1 .. Len(s) - 1 : a[i] = Decode(Tail(s)[i])
  BY <1>1, DecodeAllFacts
<1> HIDE DEF d, a
<1>4. d # <<>>
  BY <1>1, <1>2
<1>5. /\ b \in Seq(ArrivingFrames) /\ Len(b) = Len(s) - 1
      /\ \A i \in 1 .. Len(s) - 1 : b[i] = d[i + 1]
  BY <1>2, <1>4, HeadTailProperties
<1> HIDE DEF b
<1>6. \A i \in 1 .. Len(a) : a[i] = b[i]
  <2> SUFFICES ASSUME NEW i \in 1 .. Len(s) - 1 PROVE a[i] = b[i]
    BY <1>3
  <2>1. i + 1 \in 1 .. Len(s)
    BY <1>1
  <2> QED BY <1>1, <1>2, <1>3, <1>5, <2>1
<1>7. Len(a) = Len(b)
  BY <1>3, <1>5
<1>8. a = b
  BY <1>3, <1>5, <1>6, <1>7, SeqEqual
<1>9. Head(d) = d[1] /\ Head(s) = s[1] /\ d[1] = Decode(s[1])
  BY <1>1, <1>2, <1>4
<1> QED BY <1>4, <1>8, <1>9 DEF d, a, b

(* Losing the frame at the head, as FrameChannel writes it.                *)
LEMMA LoseFirst ==
  ASSUME NEW S, NEW c \in Seq(S), c # <<>>
  PROVE  /\ 1 \in DOMAIN c
         /\ Tail(c) = [j \in 1 .. Len(c) - 1 |-> IF j < 1 THEN c[j] ELSE c[j + 1]]
<1> DEFINE t == [j \in 1 .. Len(c) - 1 |-> IF j < 1 THEN c[j] ELSE c[j + 1]]
<1>1. Len(c) \in Nat /\ Len(c) >= 1 /\ \A i \in 1 .. Len(c) : c[i] \in S
  OBVIOUS
<1>2. /\ Tail(c) \in Seq(S) /\ Len(Tail(c)) = Len(c) - 1
      /\ \A i \in 1 .. Len(Tail(c)) : Tail(c)[i] = c[i + 1]
  BY HeadTailProperties
<1>3. \A j \in 1 .. Len(c) - 1 : t[j] = c[j + 1] /\ c[j + 1] \in S
  BY <1>1
<1>4. t \in [1 .. Len(c) - 1 -> S]
  BY <1>3
<1> HIDE DEF t
<1>5. t \in Seq(S) /\ Len(t) = Len(c) - 1
  BY <1>1, <1>4
<1>6. Tail(c) = t
  BY <1>2, <1>3, <1>5, SeqEqual
<1> QED BY <1>1, <1>6 DEF t

(* The step of a line as a step of the channel.                            *)
ChannelStep(n) ==
  LET chan == UnderWay(n)
      heard == Delivered(n)
      chanNext == UnderWay(n)'
      heardNext == Delivered(n)'
  IN  \/ \E f \in ArrivingFrames : /\ Len(chan) < QueueSize + 1
                                   /\ chanNext = Append(chan, f)
                                   /\ heardNext = heard
      \/ /\ chan # <<>> /\ heard = <<>>
         /\ chanNext = Tail(chan)
         /\ heardNext = <<Head(chan)>>
      \/ heardNext = <<>> /\ chanNext = chan
      \/ /\ \E i \in DOMAIN chan :
              chanNext = [j \in 1 .. Len(chan) - 1 |->
                            IF j < i THEN chan[j] ELSE chan[j + 1]]
         /\ heardNext = heard
      \/ chanNext = chan /\ heardNext = heard

LEMMA LineStepIsChannelStep ==
  ASSUME NetInv, NEW n \in Nodes, LineStep(n)
  PROVE  ChannelStep(n)
<1> DEFINE l == Line(n)
           c == DecodeAll(l)
<1>1. l \in Seq(Encoded)
  BY LineType
<1>2. UnderWay(n) = c /\ UnderWay(n)' = DecodeAll(Line(n)')
  BY UnderWayIsLine
<1>3. c \in Seq(ArrivingFrames) /\ Len(c) = Len(l)
  BY <1>1, DecodeAllFacts
<1>4. ASSUME NEW x \in Encoded, Len(l) < QueueSize + 1, Line(n)' = Append(l, x),
             Delivered(n)' = Delivered(n)
      PROVE  ChannelStep(n)
  <2>1. UnderWay(n)' = Append(c, Decode(x))
    BY <1>1, <1>2, <1>4, DecodeAppend
  <2>2. Decode(x) \in ArrivingFrames
    BY EncodedFacts
  <2>3. Len(c) < QueueSize + 1
    BY <1>3, <1>4
  <2> HIDE DEF c
  <2> QED BY <1>2, <1>4, <2>1, <2>2, <2>3 DEF ChannelStep
<1>5. ASSUME l # <<>>, Line(n)' = Tail(l)
      PROVE  c # <<>> /\ UnderWay(n)' = Tail(c) /\ Head(c) = Decode(Head(l))
  BY <1>1, <1>2, <1>5, DecodeTail
<1>6. ASSUME l # <<>>, Line(n)' = Tail(l), Delivered(n)' = Delivered(n)
      PROVE  ChannelStep(n)
  <2>1. c # <<>> /\ UnderWay(n)' = Tail(c)
    BY <1>5, <1>6
  <2> HIDE DEF c
  <2>2. 1 \in DOMAIN c
        /\ Tail(c) = [j \in 1 .. Len(c) - 1 |-> IF j < 1 THEN c[j] ELSE c[j + 1]]
    BY <1>3, <2>1, LoseFirst
  <2> QED BY <1>2, <1>6, <2>1, <2>2 DEF ChannelStep
<1>7. ASSUME l # <<>>, Delivered(n) = <<>>, Line(n)' = Tail(l),
             Delivered(n)' = <<Decode(Head(l))>>
      PROVE  ChannelStep(n)
  <2>1. c # <<>> /\ UnderWay(n)' = Tail(c) /\ Head(c) = Decode(Head(l))
    BY <1>5, <1>7
  <2> HIDE DEF c
  <2> QED BY <1>2, <1>7, <2>1 DEF ChannelStep
<1>8. ASSUME Line(n)' = l, Delivered(n)' = <<>> \/ Delivered(n)' = Delivered(n)
      PROVE  ChannelStep(n)
  BY <1>2, <1>8 DEF ChannelStep
<1> QED BY <1>4, <1>6, <1>7, <1>8 DEF LineStep

LEMMA ChannelInit ==
  ASSUME NetInit, NEW n \in Nodes
  PROVE  UnderWay(n) = <<>> /\ Delivered(n) = <<>>
<1>1. bus = Idle /\ queue = [m \in Nodes |-> <<>>]
  BY DEF NetInit, InitBridge
<1>2. OnBus(n) = <<>> /\ queue[From(n)] = <<>> /\ Delivered(n) = <<>>
  BY <1>1, Ids, IdleFields DEF OnBus, From, Delivered
<1>3. Line(n) = <<>>
  BY <1>2 DEF Line
<1>4. UnderWay(n) = DecodeAll(<<>>)
  BY <1>3, UnderWayIsLine
<1> QED BY <1>2, <1>4 DEF DecodeAll

(* lin2can "translates CAN frames from isotp to lin and vice versa": in    *)
(* both directions the queue, the bus and the callback tables together     *)
(* implement a FIFO channel that may lose a frame but never repeats,       *)
(* reorders or changes one, for queues and tables of any size and whatever *)
(* the applications register beside the bridge.                            *)
THEOREM BridgeImplementsChannel == NetSafety => BridgeIsChannel
<1>1. NetInit => ToCommander!InitChannel /\ ToResponder!InitChannel
  BY ChannelInit, Ids DEF ToCommander!InitChannel, ToResponder!InitChannel
<1>2. NetInv /\ NetInv' /\ [NetNext]_allVars =>
        ChannelStep(Commander) /\ ChannelStep(Responder)
  BY LineSteps, LineStepIsChannelStep, Ids
<1>3. ChannelStep(Commander) =>
        [ToCommander!Accept \/ ToCommander!Deliver \/ ToCommander!Done \/ ToCommander!Lose]_
          <<UnderWay(Commander), Delivered(Commander)>>
  BY DEF ChannelStep, ToCommander!Accept, ToCommander!Deliver, ToCommander!Done,
     ToCommander!Lose
<1>4. ChannelStep(Responder) =>
        [ToResponder!Accept \/ ToResponder!Deliver \/ ToResponder!Done \/ ToResponder!Lose]_
          <<UnderWay(Responder), Delivered(Responder)>>
  BY DEF ChannelStep, ToResponder!Accept, ToResponder!Deliver, ToResponder!Done,
     ToResponder!Lose
<1> QED BY <1>1, <1>2, <1>3, <1>4, NetInvInit, NetInvStep, PTL
        DEF NetSafety, BridgeIsChannel, ToCommander!Channel, ToResponder!Channel
=============================================================================
