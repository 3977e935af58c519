------------------------- MODULE UdsDispatchProofs -------------------------
(***************************************************************************)
(* Proofs about the dispatch of an event, and about the two components     *)
(* that are made of it.  First the recursive function Turns is shown to    *)
(* satisfy its equation, by the least turn for which it would not.         *)
(*                                                                         *)
(* UdsEventFlow: for lists of registrations of every length, an invariant  *)
(* of the loop is shown for every turn.                                    *)
(*                                                                         *)
(* UdsSession: for every order of the handlers the dispatch of a session   *)
(* event is unfolded into its three turns; each turn is the visit of one   *)
(* of the three handlers, and what the event leaves behind follows from    *)
(* where the handler of link_control.c stands among them.                  *)
(*                                                                         *)
(* UdsServices: which requests the default handlers for the memory accept, *)
(* and what these read and write, for every width of an address.           *)
(***************************************************************************)
EXTENDS UdsEventFlow, UdsServices, UdsSession, FiniteSetTheorems,
        SequenceTheorems, WellFoundedInduction, TLAPS

(* What the loops of uds_handle_event start from.                          *)
Begin(state) ==
  [done |-> FALSE, code |-> "OK", found |-> FALSE, calls |-> <<>>,
   state |-> state]

(* The turn of the n-th of all registrations, the first m of them static.  *)
NthTurn(all, m, handler, n, acc) ==
  Visit(acc, handler[all[n]][acc.state], all[n], n <= m)

LEMMA LeastNatural ==
  ASSUME NEW S \in SUBSET Nat, S # {}
  PROVE  \E x \in S : \A y \in S : x <= y
<1>1. \A x, y \in Nat : <<y, x>> \in OpToRel(<, Nat) <=> y < x
  BY DEF OpToRel
<1>2. PICK R : IsWellFoundedOn(R, Nat) /\ \A x, y \in Nat : <<y, x>> \in R <=> y < x
  BY <1>1, NatLessThanWellFounded, Zenon
<1>3. PICK x \in S : \A y \in S : ~(<<y, x>> \in R)
  BY <1>2, WFMin
<1>4. ASSUME NEW y \in S PROVE x <= y
  <2>1. ~(y < x)
    BY <1>2, <1>3
  <2> QED BY <2>1
<1> QED BY <1>3, <1>4

-----------------------------------------------------------------------------
(* The turns exist.                                                        *)
IsTurns(t, N, state, all, m, handler) ==
  t = [n \in 0 .. N |-> IF n = 0 THEN Begin(state)
                        ELSE NthTurn(all, m, handler, n, t[n - 1])]

LEMMA TurnsExist ==
  ASSUME NEW state, NEW N \in Nat, NEW all, NEW s, NEW handler
  PROVE  \E t : IsTurns(t, N, state, all, s, handler)
<1> DEFINE Is(t, n) == IsTurns(t, n, state, all, s, handler)
           Do(n, acc) == NthTurn(all, s, handler, n, acc)
           Bad == {n \in Nat : ~\E t : Is(t, n)}
<1>0. \A t, k : Is(t, k) <=>
        t = [n \in 0 .. k |-> IF n = 0 THEN Begin(state) ELSE Do(n, t[n - 1])]
  BY Zenon DEF IsTurns
<1> HIDE DEF Is, Do
<1>1. SUFFICES ASSUME Bad # {} PROVE FALSE
  BY DEF Is
<1>2. PICK m \in Bad : \A y \in Bad : m <= y
  BY <1>1, LeastNatural
<1>3. m \in Nat /\ ~\E t : Is(t, m)
  BY <1>2
<1>4. m # 0
  <2> DEFINE g == [n \in 0 .. 0 |-> Begin(state)]
  <2>1. g = [n \in 0 .. 0 |-> IF n = 0 THEN Begin(state) ELSE Do(n, g[n - 1])]
    OBVIOUS
  <2>2. Is(g, 0)
    BY <1>0, <2>1
  <2> QED BY <1>3, <2>2
<1>5. m - 1 \in Nat /\ m - 1 \notin Bad
  BY <1>2, <1>3, <1>4
<1>6. PICK f : Is(f, m - 1)
  BY <1>5
<1> DEFINE g == [n \in 0 .. m |-> IF n = m THEN Do(m, f[m - 1]) ELSE f[n]]
<1>7. ASSUME NEW n \in 0 .. m
      PROVE  g[n] = IF n = 0 THEN Begin(state) ELSE Do(n, g[n - 1])
  <2>1. CASE n = m
    BY <1>3, <1>4, <2>1
  <2>2. CASE n # m
    <3>1. n \in 0 .. (m - 1)
      BY <1>3, <2>2
    <3>2. f[n] = IF n = 0 THEN Begin(state) ELSE Do(n, f[n - 1])
      BY <1>0, <1>6, <3>1, Zenon
    <3>3. n # 0 => n - 1 \in 0 .. m /\ n - 1 # m
      BY <1>3, <3>1
    <3> QED BY <2>2, <3>2, <3>3
  <2> QED BY <2>1, <2>2
<1>8. Is(g, m)
  <2>1. g = [n \in 0 .. m |-> g[n]]
    OBVIOUS
  <2> HIDE DEF g
  <2> QED BY <1>0, <1>7, <2>1
<1> QED BY <1>3, <1>8

Unfolded(T, state, all, m, handler) ==
  /\ T[0] = Begin(state)
  /\ \A n \in 1 .. Len(all) : T[n] = NthTurn(all, m, handler, n, T[n - 1])

LEMMA TurnsUnfold ==
  ASSUME NEW st, NEW dy, NEW handler, NEW state, Len(st \o dy) \in Nat
  PROVE  Unfolded(Turns(st, dy, handler, state), state, st \o dy, Len(st), handler)
<1> DEFINE T == Turns(st, dy, handler, state)
           all == st \o dy
<1>1. T = CHOOSE t : IsTurns(t, Len(all), state, all, Len(st), handler)
  BY Zenon DEF Turns, IsTurns, NthTurn, Begin
<1> HIDE DEF T
<1>2. IsTurns(T, Len(all), state, all, Len(st), handler)
  BY <1>1, TurnsExist, Zenon
<1>3. 0 \in 0 .. Len(all) /\ \A n \in 1 .. Len(all) : n \in 0 .. Len(all) /\ n # 0
  OBVIOUS
<1>4. Unfolded(T, state, all, Len(st), handler)
  BY <1>2, <1>3, Zenon DEF IsTurns, Unfolded
<1> QED BY <1>4 DEF T

-----------------------------------------------------------------------------
(* A list has an entry for each of some numbers up to n, in their order;   *)
(* what says which.                                                        *)
UpTo(numbers, n) == {j \in 1 .. n : j \in numbers}

Listed(list, numbers, what, n) ==
  /\ Len(list) = Cardinality(UpTo(numbers, n))
  /\ \A i \in 1 .. n :
       i \in numbers => list[Cardinality(UpTo(numbers, i))] = what[i]

LEMMA UpToNext ==
  ASSUME NEW numbers, NEW n \in Nat
  PROVE  /\ IsFiniteSet(UpTo(numbers, n)) /\ Cardinality(UpTo(numbers, n)) \in Nat
         /\ n + 1 \in numbers =>
              Cardinality(UpTo(numbers, n + 1)) = Cardinality(UpTo(numbers, n)) + 1
         /\ n + 1 \notin numbers => UpTo(numbers, n + 1) = UpTo(numbers, n)
<1>1. IsFiniteSet(1 .. n)
  BY FS_Interval
<1>2. UpTo(numbers, n) \subseteq 1 .. n
  BY DEF UpTo
<1>3. IsFiniteSet(UpTo(numbers, n)) /\ Cardinality(UpTo(numbers, n)) \in Nat
  BY <1>1, <1>2, FS_Subset, FS_CardinalityType
<1>4. n + 1 \notin UpTo(numbers, n)
  BY <1>2
<1>5. n + 1 \in numbers => UpTo(numbers, n + 1) = UpTo(numbers, n) \cup {n + 1}
  BY DEF UpTo
<1>6. Cardinality(UpTo(numbers, n) \cup {n + 1}) = Cardinality(UpTo(numbers, n)) + 1
  BY <1>3, <1>4, FS_AddElement
<1>7. n + 1 \notin numbers => UpTo(numbers, n + 1) = UpTo(numbers, n)
  BY DEF UpTo
<1> QED BY <1>3, <1>5, <1>6, <1>7

(* The entries so far stay; a new one comes last.                          *)
LEMMA ListedNext ==
  ASSUME NEW S, NEW list \in Seq(S), NEW numbers, NEW what, NEW n \in Nat,
         what[n + 1] \in S, Listed(list, numbers, what, n)
  PROVE  /\ n + 1 \in numbers => Listed(Append(list, what[n + 1]), numbers, what, n + 1)
         /\ n + 1 \notin numbers => Listed(list, numbers, what, n + 1)
<1>1. \A i \in 1 .. (n + 1) : i \in 1 .. n \/ i = n + 1
  OBVIOUS
<1>2. /\ Len(list) \in Nat
      /\ Len(list) = Cardinality(UpTo(numbers, n))
      /\ \A i \in 1 .. n :
           i \in numbers => list[Cardinality(UpTo(numbers, i))] = what[i]
  BY DEF Listed
<1>3. CASE n + 1 \notin numbers
  BY <1>1, <1>2, <1>3, UpToNext DEF Listed
<1>4. CASE n + 1 \in numbers
  <2> DEFINE next == Append(list, what[n + 1])
  <2>2. /\ next \in Seq(S) /\ Len(next) = Len(list) + 1
        /\ \A k \in 1 .. Len(list) : next[k] = list[k]
        /\ next[Len(list) + 1] = what[n + 1]
    BY AppendProperties
  <2> HIDE DEF next
  <2>3. Cardinality(UpTo(numbers, n + 1)) = Len(list) + 1
    BY <1>2, <1>4, UpToNext
  <2>4. ASSUME NEW i \in 1 .. n, i \in numbers
        PROVE  next[Cardinality(UpTo(numbers, i))] = what[i]
    <3>1. i \in Nat /\ i <= n
      OBVIOUS
    <3>2. /\ IsFiniteSet(UpTo(numbers, i)) /\ IsFiniteSet(UpTo(numbers, n))
          /\ Cardinality(UpTo(numbers, i)) \in Nat
      BY <3>1, UpToNext
    <3>3. UpTo(numbers, i) \subseteq UpTo(numbers, n)
      BY <3>1 DEF UpTo
    <3>4. Cardinality(UpTo(numbers, i)) <= Cardinality(UpTo(numbers, n))
      BY <3>2, <3>3, FS_Subset
    <3>5. i \in UpTo(numbers, i)
      BY <2>4, <3>1 DEF UpTo
    <3>6. Cardinality(UpTo(numbers, i)) # 0
      BY <3>2, <3>5, FS_EmptySet
    <3>7. Cardinality(UpTo(numbers, i)) \in 1 .. Len(list)
      BY <1>2, <3>2, <3>4, <3>6
    <3> QED BY <1>2, <2>2, <2>4, <3>7
  <2>5. Listed(next, numbers, what, n + 1)
    BY <1>1, <2>2, <2>3, <2>4 DEF Listed
  <2> QED BY <1>4, <2>5 DEF next
<1> QED BY <1>3, <1>4

LEMMA NothingListed ==
  ASSUME NEW numbers, NEW what
  PROVE  Listed(<<>>, numbers, what, 0)
<1>1. UpTo(numbers, 0) = {} /\ 1 .. 0 = {}
  BY DEF UpTo
<1>2. Cardinality(UpTo(numbers, 0)) = 0 /\ Len(<<>>) = 0
  BY <1>1, FS_EmptySet
<1> QED BY <1>1, <1>2, Zenon DEF Listed

-----------------------------------------------------------------------------
(* UdsEventFlow: the dispatch against the documented flow.                 *)

(* The turn of the n-th registration.                                      *)
TurnOf(n, acc) ==
  NthTurn(All, Len(static), Handler, n, acc)

(* Lists of registrations, as uds.c has them.                              *)
Lists == static \in Seq(Registrations) /\ dynamic \in Seq(Registrations)

LEMMA AllIsAList ==
  ASSUME Lists
  PROVE  /\ All \in Seq(Registrations)
         /\ Len(All) \in Nat
         /\ Len(static) \in Nat
         /\ \A i \in 1 .. Len(All) : All[i] \in Registrations
<1>1. All \in Seq(Registrations)
  BY ConcatProperties DEF Lists, All
<1>2. Len(All) \in Nat /\ Len(static) \in Nat
  BY <1>1, LenProperties DEF Lists
<1>3. \A i \in 1 .. Len(All) : All[i] \in Registrations
  BY <1>1, ElementOfSeq
<1> QED BY <1>1, <1>2, <1>3

-----------------------------------------------------------------------------
(* The visit of one registration, in the terms of the documented flow.     *)

(* The action of the registration at i is approved; Executed(i) if it is   *)
(* also reached.                                                           *)
Approved(i) ==
  LET d == All[i].does
  IN  d.type /\ d.check = "OK" /\ d.apply /\ d.action # "none"

(* Neither its check nor, if it is called, its action fails.               *)
Fine(i) ==
  /\ Approved(i) => All[i].does.action = "OK"
  /\ All[i].does.type => All[i].does.check \in {"OK", "none"}

LEMMA BehaviourType ==
  ASSUME NEW r \in Registrations
  PROVE  /\ r.does.type \in BOOLEAN /\ r.does.apply \in BOOLEAN
         /\ r.does.action \in {"OK", "NRC_action", "none"}
         /\ r.does.check \in {"OK", "NRC_check", "none"}
         /\ r.does.consume \in {"yes", "no", "unset"}
<1>1. r.does \in Behaviours
  BY DEF Registrations
<1> QED BY <1>1 DEF Behaviours

(* What the three returns of uds_check_and_act_on_event come to.           *)
LEMMA VisitMeans ==
  ASSUME Lists, NEW i \in 1 .. Len(All), NEW inst \in Instances,
         NEW h, h = Handler[All[i]][inst]
  PROVE  /\ Acts(h) <=> Approved(i)
         /\ h.next = inst
         /\ h.action = All[i].does.action
         /\ VisitCode(h) = "OK" <=> Fine(i)
         /\ (Consumes(h, i <= Len(static)) \/ VisitCode(h) # "OK") <=> EndsAt(i)
         /\ EndsAt(i) /\ Fine(i) => Approved(i)
<1>1. All[i] \in Registrations
  BY AllIsAList
<1>2. PICK d : d = All[i].does
  OBVIOUS
<1>3. /\ d.type \in BOOLEAN /\ d.apply \in BOOLEAN
      /\ d.action \in {"OK", "NRC_action", "none"}
      /\ d.check \in {"OK", "NRC_check", "none"}
      /\ d.consume \in {"yes", "no", "unset"}
  BY <1>1, <1>2, BehaviourType
<1>4. h = [type |-> d.type, check |-> d.check, apply |-> d.apply,
           action |-> d.action, consume |-> d.consume, next |-> inst]
  BY <1>1, <1>2 DEF Handler
<1>5. /\ h.type = d.type /\ h.check = d.check /\ h.apply = d.apply
      /\ h.action = d.action /\ h.consume = d.consume /\ h.next = inst
  BY <1>4
<1>6. /\ Approved(i) <=> d.type /\ d.check = "OK" /\ d.apply /\ d.action # "none"
      /\ Fine(i) <=> /\ Approved(i) => d.action = "OK"
                     /\ d.type => d.check \in {"OK", "none"}
  BY <1>2 DEF Approved, Fine
<1>7. EndsAt(i) <=>
        \/ d.type /\ d.check \notin {"OK", "none"}
        \/ Approved(i) /\ d.action # "OK"
        \/ Approved(i) /\ d.consume = "yes"
        \/ Approved(i) /\ d.consume = "unset" /\ i <= Len(static)
  BY <1>2, <1>6 DEF EndsAt
<1>8. Acts(h) <=> Approved(i)
  BY <1>3, <1>5, <1>6 DEF Acts
<1>9. VisitCode(h) = "OK" <=> Fine(i)
  BY <1>3, <1>5, <1>6, <1>8 DEF VisitCode
<1>10. Consumes(h, i <= Len(static)) <=>
         Approved(i) /\ (d.consume = "yes" \/ (d.consume = "unset" /\ i <= Len(static)))
  BY <1>3, <1>5, <1>8 DEF Consumes
<1> QED BY <1>2, <1>3, <1>5, <1>6, <1>7, <1>8, <1>9, <1>10

LEMMA TurnOver ==
  ASSUME NEW n, NEW acc, acc.done = TRUE
  PROVE  TurnOf(n, acc) = acc
  BY Zenon DEF TurnOf, NthTurn, Visit

(* A turn that is taken, field by field.                                   *)
Taken(acc, next, i, inst) ==
  /\ next.done \in BOOLEAN /\ next.found \in BOOLEAN
  /\ next.done <=> EndsAt(i)
  /\ next.code = "OK" <=> Fine(i)
  /\ next.found <=> acc.found \/ (Approved(i) /\ All[i].does.action = "OK")
  /\ Approved(i) => next.calls = Append(acc.calls, All[i])
  /\ ~Approved(i) => next.calls = acc.calls
  /\ next.state = inst

LEMMA TurnTaken ==
  ASSUME Lists, NEW i \in 1 .. Len(All), NEW inst \in Instances,
         NEW acc, acc.done = FALSE, acc.found \in BOOLEAN, acc.state = inst,
         NEW next, next = TurnOf(i, acc)
  PROVE  Taken(acc, next, i, inst)
<1>1. PICK h : h = Handler[All[i]][inst]
  OBVIOUS
<1>2. /\ Acts(h) <=> Approved(i)
      /\ h.next = inst
      /\ h.action = All[i].does.action
      /\ VisitCode(h) = "OK" <=> Fine(i)
      /\ (Consumes(h, i <= Len(static)) \/ VisitCode(h) # "OK") <=> EndsAt(i)
  BY <1>1, VisitMeans
<1> DEFINE d == Consumes(h, i <= Len(static)) \/ VisitCode(h) # "OK"
           c == VisitCode(h)
           x == acc.found \/ (Acts(h) /\ h.action = "OK")
           k == IF Acts(h) THEN Append(acc.calls, All[i]) ELSE acc.calls
           s == IF Acts(h) THEN h.next ELSE acc.state
<1>4. next = [done |-> d, code |-> c, found |-> x, calls |-> k, state |-> s]
  BY <1>1, Zenon DEF TurnOf, NthTurn, Visit
<1>5. d \in BOOLEAN /\ x \in BOOLEAN
  BY Zenon
<1> HIDE DEF d, c, x, k, s
<1>6. /\ next.done = d /\ next.code = c /\ next.found = x
      /\ next.calls = k /\ next.state = s
  BY <1>4, <1>5
<1>7. d <=> EndsAt(i)
  BY <1>2, Zenon DEF d
<1>8. c = "OK" <=> Fine(i)
  BY <1>2, Zenon DEF c
<1>9. x <=> acc.found \/ (Approved(i) /\ All[i].does.action = "OK")
  BY <1>2, Zenon DEF x
<1>10. (Approved(i) => k = Append(acc.calls, All[i])) /\ (~Approved(i) => k = acc.calls)
  BY <1>2, Zenon DEF k
<1>11. s = inst
  BY <1>2 DEF s
<1> QED BY <1>5, <1>6, <1>7, <1>8, <1>9, <1>10, <1>11, Zenon DEF Taken

-----------------------------------------------------------------------------
(* The invariant of the loop, after n turns.                               *)
Open(n) == \A j \in 1 .. n : ~EndsAt(j)

Succeeded(i) == Executed(i) /\ All[i].does.action = "OK"

CallsTo(calls, n) ==
  /\ calls \in Seq(Registrations)
  /\ Len(calls) = Cardinality(ExecutedTo(n))
  /\ \A i \in 1 .. n :
       Executed(i) => calls[Cardinality(ExecutedTo(i))] = All[i]

LoopInv(acc, n, inst) ==
  /\ acc.done \in BOOLEAN /\ acc.found \in BOOLEAN
  /\ acc.state = inst
  /\ acc.done <=> ~Open(n)
  /\ acc.found <=> \E i \in 1 .. n : Succeeded(i)
  /\ ~acc.done => \A i \in 1 .. n : Fine(i)
  /\ acc.done /\ acc.code = "OK" =>
       /\ \A i \in 1 .. Len(All) : Reached(i) => Fine(i)
       /\ \E i \in 1 .. Len(All) : Executed(i)
  /\ acc.done /\ acc.code # "OK" => \E i \in 1 .. n : Reached(i) /\ ~Fine(i)
  /\ CallsTo(acc.calls, n)

LEMMA ReachedIsOpen ==
  ASSUME NEW i
  PROVE  /\ Reached(i) <=> Open(i - 1)
         /\ Executed(i) <=> Reached(i) /\ Approved(i)
  BY Zenon DEF Reached, Open, Executed, Approved

(* One turn more.                                                          *)
LEMMA OpenNext ==
  ASSUME NEW n \in Nat
  PROVE  Open(n + 1) <=> Open(n) /\ ~EndsAt(n + 1)
<1>1. \A j \in 1 .. (n + 1) : j \in 1 .. n \/ j = n + 1
  OBVIOUS
<1>2. n + 1 \in 1 .. (n + 1) /\ \A j \in 1 .. n : j \in 1 .. (n + 1)
  OBVIOUS
<1> QED BY <1>1, <1>2 DEF Open

(* In the terms of Listed.                                                 *)
Executions == {i \in Nat : Executed(i)}

LEMMA CallsAreListed ==
  ASSUME NEW n \in Nat
  PROVE  \A calls : CallsTo(calls, n) <=>
           calls \in Seq(Registrations) /\ Listed(calls, Executions, All, n)
<1>1. ASSUME NEW i \in Nat PROVE UpTo(Executions, i) = ExecutedTo(i)
  BY DEF UpTo, ExecutedTo, Executions
<1>2. ASSUME NEW i \in 1 .. n PROVE i \in Executions <=> Executed(i)
  BY DEF Executions
<1>4. \A i \in 1 .. n : UpTo(Executions, i) = ExecutedTo(i)
  BY <1>1
<1>5. UpTo(Executions, n) = ExecutedTo(n)
  BY <1>1
<1>6. ASSUME NEW calls
      PROVE  CallsTo(calls, n) <=>
               calls \in Seq(Registrations) /\ Listed(calls, Executions, All, n)
  BY <1>2, <1>4, <1>5, Zenon DEF CallsTo, Listed
<1> QED BY <1>6

(* The calls made so far stay; a new one comes last.                       *)
LEMMA CallsNext ==
  ASSUME Lists, NEW n \in Nat, n + 1 \in 1 .. Len(All), NEW calls, CallsTo(calls, n)
  PROVE  /\ Executed(n + 1) => CallsTo(Append(calls, All[n + 1]), n + 1)
         /\ ~Executed(n + 1) => CallsTo(calls, n + 1)
<1>1. calls \in Seq(Registrations) /\ Listed(calls, Executions, All, n)
  BY CallsAreListed
<1>2. All[n + 1] \in Registrations
  BY AllIsAList
<1>3. /\ n + 1 \in Executions => Listed(Append(calls, All[n + 1]), Executions, All, n + 1)
      /\ n + 1 \notin Executions => Listed(calls, Executions, All, n + 1)
  BY <1>1, <1>2, ListedNext
<1>4. n + 1 \in Executions <=> Executed(n + 1)
  BY DEF Executions
<1>5. Append(calls, All[n + 1]) \in Seq(Registrations)
  BY <1>1, <1>2, AppendProperties
<1>6. n + 1 \in Nat
  OBVIOUS
<1> QED BY <1>1, <1>3, <1>4, <1>5, <1>6, CallsAreListed

LEMMA LoopStep ==
  ASSUME Lists, NEW inst \in Instances, NEW n \in Nat, n + 1 \in 1 .. Len(All),
         NEW acc, LoopInv(acc, n, inst)
  PROVE  LoopInv(TurnOf(n + 1, acc), n + 1, inst)
<1>1. /\ Reached(n + 1) <=> Open(n)
      /\ Executed(n + 1) <=> Open(n) /\ Approved(n + 1)
  <2>1. (n + 1) - 1 = n
    OBVIOUS
  <2> QED BY <2>1, ReachedIsOpen
<1>2. Open(n + 1) <=> Open(n) /\ ~EndsAt(n + 1)
  BY OpenNext
<1>3. /\ \A j \in 1 .. (n + 1) : j \in 1 .. n \/ j = n + 1
      /\ n + 1 \in 1 .. (n + 1)
      /\ \A j \in 1 .. n : j \in 1 .. (n + 1)
  OBVIOUS
<1>4. CASE acc.done = TRUE
  <2>1. TurnOf(n + 1, acc) = acc
    BY <1>4, TurnOver
  <2>2. ~Open(n) /\ ~Open(n + 1) /\ ~Executed(n + 1) /\ ~Succeeded(n + 1)
    BY <1>1, <1>2, <1>4 DEF LoopInv, Succeeded
  <2>3. CallsTo(acc.calls, n + 1)
    BY <2>2, CallsNext DEF LoopInv
  <2>4. acc.found <=> \E i \in 1 .. (n + 1) : Succeeded(i)
    BY <1>3, <2>2 DEF LoopInv
  <2>5. acc.done /\ acc.code # "OK" => \E i \in 1 .. (n + 1) : Reached(i) /\ ~Fine(i)
    BY <1>3 DEF LoopInv
  <2>6. LoopInv(acc, n + 1, inst)
    BY <1>4, <2>2, <2>3, <2>4, <2>5 DEF LoopInv
  <2> QED BY <2>1, <2>6
<1>5. CASE acc.done = FALSE
  <2>1. PICK next : next = TurnOf(n + 1, acc)
    OBVIOUS
  <2>2. Taken(acc, next, n + 1, inst)
    <3>1. acc.found \in BOOLEAN /\ acc.state = inst
      BY DEF LoopInv
    <3> QED BY <1>5, <2>1, <3>1, TurnTaken
  <2>3. Open(n) /\ \A i \in 1 .. n : Fine(i)
    BY <1>5 DEF LoopInv
  <2>4. CallsTo(next.calls, n + 1)
    BY <1>1, <2>2, <2>3, CallsNext DEF LoopInv, Taken
  <2>5. next.found <=> \E i \in 1 .. (n + 1) : Succeeded(i)
    <3>1. acc.found <=> \E i \in 1 .. n : Succeeded(i)
      BY DEF LoopInv
    <3>2. Succeeded(n + 1) <=> Approved(n + 1) /\ All[n + 1].does.action = "OK"
      BY <1>1, <2>3 DEF Succeeded
    <3> QED BY <1>3, <2>2, <3>1, <3>2 DEF Taken
  <2>6. next.done <=> ~Open(n + 1)
    BY <1>2, <2>2, <2>3 DEF Taken
  <2>7. ~next.done => \A i \in 1 .. (n + 1) : Fine(i)
    <3>1. ~EndsAt(n + 1) => Fine(n + 1)
      <4>1. PICK h : h = Handler[All[n + 1]][inst]
        OBVIOUS
      <4>2. /\ VisitCode(h) = "OK" <=> Fine(n + 1)
            /\ (Consumes(h, n + 1 <= Len(static)) \/ VisitCode(h) # "OK")
                 <=> EndsAt(n + 1)
        BY <4>1, VisitMeans
      <4> QED BY <4>2, Zenon
    <3> QED BY <1>3, <2>2, <2>3, <3>1 DEF Taken
  <2>8. ASSUME next.done, next.code = "OK"
        PROVE  /\ \A i \in 1 .. Len(All) : Reached(i) => Fine(i)
               /\ \E i \in 1 .. Len(All) : Executed(i)
    <3>1. EndsAt(n + 1) /\ Fine(n + 1)
      BY <2>2, <2>8 DEF Taken
    <3>2. Approved(n + 1)
      <4>1. PICK h : h = Handler[All[n + 1]][inst]
        OBVIOUS
      <4> QED BY <3>1, <4>1, VisitMeans
    <3>3. ASSUME NEW i \in 1 .. Len(All), Reached(i)
          PROVE  Fine(i)
      <4>1. Open(i - 1)
        BY <3>3, ReachedIsOpen
      <4>2. ~(n + 1 \in 1 .. (i - 1))
        BY <3>1, <4>1 DEF Open
      <4>3. i \in 1 .. (n + 1)
        BY <4>2, AllIsAList
      <4> QED BY <1>3, <2>3, <3>1, <4>3
    <3> QED BY <1>1, <2>3, <3>2, <3>3
  <2>9. next.done /\ next.code # "OK" => \E i \in 1 .. (n + 1) : Reached(i) /\ ~Fine(i)
    BY <1>1, <1>3, <2>2, <2>3 DEF Taken
  <2>10. LoopInv(next, n + 1, inst)
    BY <2>2, <2>4, <2>5, <2>6, <2>7, <2>8, <2>9 DEF LoopInv, Taken
  <2> QED BY <2>1, <2>10
<1> QED BY <1>4, <1>5 DEF LoopInv

LEMMA LoopInvariant ==
  ASSUME Lists, NEW inst \in Instances,
         NEW T, T = Turns(static, dynamic, Handler, inst)
  PROVE  LoopInv(T[Len(All)], Len(All), inst)
<1>2. Len(All) \in Nat
  BY AllIsAList
<1>1. /\ T[0] = Begin(inst)
      /\ \A n \in 1 .. Len(All) : T[n] = TurnOf(n, T[n - 1])
  <2>1. Unfolded(T, inst, All, Len(static), Handler)
    BY <1>2, TurnsUnfold, Zenon DEF All
  <2> QED BY <2>1, Zenon DEF TurnOf, Unfolded
<1>3. LoopInv(T[0], 0, inst)
  <2>1. ExecutedTo(0) = {}
    BY DEF ExecutedTo
  <2>2. Cardinality(ExecutedTo(0)) = 0
    BY <2>1, FS_EmptySet
  <2>3. PICK acc : acc = Begin(inst)
    OBVIOUS
  <2>4. /\ acc.done = FALSE /\ acc.found = FALSE /\ acc.state = inst
        /\ acc.calls = <<>> /\ acc.code = "OK"
    BY <2>3 DEF Begin
  <2>5. CallsTo(<<>>, 0)
    <3>1. <<>> \in Seq(Registrations) /\ Len(<<>>) = 0
      OBVIOUS
    <3>2. 1 .. 0 = {}
      OBVIOUS
    <3> QED BY <2>2, <3>1, <3>2, Zenon DEF CallsTo
  <2>6. LoopInv(acc, 0, inst)
    <3>1. 1 .. 0 = {}
      OBVIOUS
    <3> QED BY <2>4, <2>5, <3>1 DEF LoopInv, Open
  <2> QED BY <1>1, <2>3, <2>6
<1> DEFINE Bad == {n \in 0 .. Len(All) : ~LoopInv(T[n], n, inst)}
<1>4. Bad = {}
  <2>1. SUFFICES ASSUME Bad # {} PROVE FALSE
    OBVIOUS
  <2>2. PICK m \in Bad : \A y \in Bad : m <= y
    <3>1. Bad \in SUBSET Nat
      BY <1>2
    <3> QED BY <2>1, <3>1, LeastNatural
  <2>3. m \in 0 .. Len(All) /\ ~LoopInv(T[m], m, inst)
    BY <2>2
  <2>4. m # 0
    BY <1>3, <2>3
  <2>5. PICK k \in Nat : m = k + 1
    <3>1. m - 1 \in Nat /\ m = (m - 1) + 1
      BY <1>2, <2>3, <2>4
    <3> QED BY <3>1
  <2>6. k \in 0 .. Len(All) /\ k + 1 \in 1 .. Len(All) /\ (k + 1) - 1 = k
    BY <1>2, <2>3, <2>5
  <2>7. LoopInv(T[k], k, inst)
    <3>1. ~(m <= k)
      BY <2>5
    <3> QED BY <2>2, <2>6, <3>1
  <2>8. T[k + 1] = TurnOf(k + 1, T[k])
    BY <1>1, <2>6
  <2>9. LoopInv(TurnOf(k + 1, T[k]), k + 1, inst)
    <3>1. PICK acc : acc = T[k]
      OBVIOUS
    <3> QED BY <2>6, <2>7, <3>1, LoopStep
  <2> QED BY <2>3, <2>5, <2>8, <2>9
<1>5. Len(All) \in 0 .. Len(All)
  BY <1>2
<1> QED BY <1>4, <1>5

(* For lists of any length, of registrations that do anything an event     *)
(* handler can do: uds_handle_event calls the approved actions up to the   *)
(* first registration that ends the iteration, each once and in order, and *)
(* answers positively exactly if none of the checks and actions on the way *)
(* failed and one was called, or else the event's default is positive.     *)
THEOREM DispatchIsExact ==
  ASSUME static \in Seq(Registrations), dynamic \in Seq(Registrations)
  PROVE  DispatchExact
<1>1. Lists
  BY DEF Lists
<1>2. SUFFICES
        ASSUME NEW inst \in Instances, NEW default_nrc \in Defaults
        PROVE  /\ Len(Event(inst, default_nrc).calls)
                    = Cardinality(ExecutedTo(Len(All)))
               /\ \A i \in 1 .. Len(All) :
                    Executed(i) =>
                      Event(inst, default_nrc).calls[Cardinality(ExecutedTo(i))]
                        = All[i]
               /\ Event(inst, default_nrc).code = "OK" <=>
                    NothingFailed /\ (Processed \/ default_nrc = "OK")
  BY Zenon DEF DispatchExact, CallsInOrder, PositiveOnlyIfProcessed
<1>3. PICK end : end = Turns(static, dynamic, Handler, inst)[Len(All)]
  OBVIOUS
<1>4. LoopInv(end, Len(All), inst)
  <2>1. PICK T : T = Turns(static, dynamic, Handler, inst)
    OBVIOUS
  <2> QED BY <1>1, <1>3, <2>1, LoopInvariant
<1>5. Event(inst, default_nrc) =
        [code  |-> IF end.done THEN end.code
                   ELSE IF end.found THEN "OK" ELSE default_nrc,
         calls |-> end.calls,
         state |-> end.state]
  BY <1>3, Zenon DEF Event, HandleEvent, All
<1>6. /\ Event(inst, default_nrc).calls = end.calls
      /\ Event(inst, default_nrc).code =
           IF end.done THEN end.code
           ELSE IF end.found THEN "OK" ELSE default_nrc
  BY <1>5
<1>7. CallsTo(end.calls, Len(All))
  BY <1>4 DEF LoopInv
<1>8. NothingFailed <=> \A i \in 1 .. Len(All) : Reached(i) => Fine(i)
  BY ReachedIsOpen DEF Fine, NothingFailed
<1>9. Event(inst, default_nrc).code = "OK" <=>
        NothingFailed /\ (Processed \/ default_nrc = "OK")
  <2>1. CASE end.done = TRUE
    BY <1>4, <1>6, <1>8, <2>1 DEF LoopInv, Processed
  <2>2. CASE end.done = FALSE
    <3>1. \A i \in 1 .. Len(All) : Fine(i)
      BY <1>4, <2>2 DEF LoopInv
    <3>2. \A i \in 1 .. Len(All) : Executed(i) => Succeeded(i)
      BY <3>1, ReachedIsOpen DEF Fine, Succeeded
    <3>3. end.found <=> Processed
      BY <1>4, <3>2 DEF LoopInv, Succeeded, Processed
    <3>4. Event(inst, default_nrc).code = "OK"
            <=> end.found \/ default_nrc = "OK"
      BY <1>6, <2>2
    <3> QED BY <1>8, <3>1, <3>3, <3>4
  <2> QED BY <1>4, <2>1, <2>2 DEF LoopInv
<1> QED BY <1>6, <1>7, <1>9 DEF CallsTo

-----------------------------------------------------------------------------
(* UdsEventFlow: the macros and the event table against the documented     *)
(* actors, for registrations with any functions (of Names) and any ids.    *)
Ids == Nat \ {NoId}

Actors(Names) == [check : Names, action : Names]

MadeByMacros(Names) ==
  {READ_DTC_INFO(c, a, id) : c \in Names, a \in Names, id \in Ids}
  \cup {ROUTINE_CONTROL(id, c, a) : c \in Names, a \in Names, id \in Ids}
  \cup {DATA_BY_IDENTIFIER(id, x, y, z) :
          x \in Actors(Names), y \in Actors(Names), z \in Actors(Names), id \in Ids}
  \cup {MEMORY(c, a, d, b) : c \in Names, a \in Names, d \in Names, b \in Names}
  \cup {ECU_RESET(c, a, d, b) : c \in Names, a \in Names, d \in Names, b \in Names}
  \cup {DIAG_SESSION_CTRL(c, a, d, b) :
          c \in Names, a \in Names, d \in Names, b \in Names}
  \cup {SECURITY_ACCESS(c, a, d, b) :
          c \in Names, a \in Names, d \in Names, b \in Names}
  \cup {AUTHENTICATION(c, a, d, b) :
          c \in Names, a \in Names, d \in Names, b \in Names}
  \cup {CLEAR_DIAG_INFO(c, a) : c \in Names, a \in Names}
  \cup {COMMUNICATION_CONTROL(c, a) : c \in Names, a \in Names}
  \cup {CONTROL_DTC_SETTING(c, a) : c \in Names, a \in Names}
  \cup {DYNAMICALLY_DEFINE_DATA_IDS(c, a) : c \in Names, a \in Names}
  \cup {LINK_CONTROL(c, a) : c \in Names, a \in Names}
  \cup {UPLOAD_DOWNLOAD}

ById == {"READ_DTC_INFO", "ROUTINE_CONTROL", "DATA_IDENTIFIER"}

(* The fields of struct uds_registration_t that a type has.                *)
FieldsOf(type) ==
  CASE type = "DATA_IDENTIFIER"   -> {"read", "write", "io_control"}
    [] type = "MEMORY"            -> {"read", "write"}
    [] type = "ECU_RESET"         -> {"ecu_reset", "execute_scheduled_reset"}
    [] type = "DIAG_SESSION_CTRL" -> {"diag_sess_ctrl", "session_timeout"}
    [] type = "SECURITY_ACCESS"   -> {"request_seed", "validate_key"}
    [] type = "AUTHENTICATION"    -> {"auth", "timeout"}
    [] type = "UPLOAD_DOWNLOAD"   -> {"none"}
    [] OTHER                      -> {"actor"}

WellMade(reg) ==
  /\ reg.id \in Nat
  /\ reg.type \in ById <=> reg.id # NoId
  /\ \A field \in FieldsOf(reg.type) :
       reg.actors[field].check # "NULL" /\ reg.actors[field].action # "NULL"

LEMMA MacrosAreWellMade ==
  ASSUME NEW Names, "NULL" \notin Names, NEW reg \in MadeByMacros(Names)
  PROVE  WellMade(reg)
<1> USE DEF Registration, Actor, NoId, Ids
<1>1. CASE reg \in {READ_DTC_INFO(c, a, id) : c \in Names, a \in Names, id \in Ids}
  <2>1. PICK c \in Names, a \in Names, id \in Ids : reg = READ_DTC_INFO(c, a, id)
    BY <1>1
  <2> QED BY <2>1 DEF READ_DTC_INFO, WellMade, FieldsOf, ById
<1>2. CASE reg \in {ROUTINE_CONTROL(id, c, a) : c \in Names, a \in Names, id \in Ids}
  <2>1. PICK c \in Names, a \in Names, id \in Ids : reg = ROUTINE_CONTROL(id, c, a)
    BY <1>2
  <2> QED BY <2>1 DEF ROUTINE_CONTROL, WellMade, FieldsOf, ById
<1>3. CASE reg \in {DATA_BY_IDENTIFIER(id, x, y, z) :
                     x \in Actors(Names), y \in Actors(Names), z \in Actors(Names), id \in Ids}
  <2>1. PICK x \in Actors(Names), y \in Actors(Names), z \in Actors(Names), id \in Ids :
          reg = DATA_BY_IDENTIFIER(id, x, y, z)
    BY <1>3
  <2> QED BY <2>1 DEF DATA_BY_IDENTIFIER, WellMade, FieldsOf, ById, Actors
<1>4. CASE reg \in {MEMORY(c, a, d, b) :
                     c \in Names, a \in Names, d \in Names, b \in Names}
  <2>1. PICK c \in Names, a \in Names, d \in Names, b \in Names :
          reg = MEMORY(c, a, d, b)
    BY <1>4
  <2> QED BY <2>1 DEF MEMORY, WellMade, FieldsOf, ById
<1>5. CASE reg \in {ECU_RESET(c, a, d, b) :
                     c \in Names, a \in Names, d \in Names, b \in Names}
  <2>1. PICK c \in Names, a \in Names, d \in Names, b \in Names :
          reg = ECU_RESET(c, a, d, b)
    BY <1>5
  <2> QED BY <2>1 DEF ECU_RESET, WellMade, FieldsOf, ById
<1>6. CASE reg \in {DIAG_SESSION_CTRL(c, a, d, b) :
                     c \in Names, a \in Names, d \in Names, b \in Names}
  <2>1. PICK c \in Names, a \in Names, d \in Names, b \in Names :
          reg = DIAG_SESSION_CTRL(c, a, d, b)
    BY <1>6
  <2> QED BY <2>1 DEF DIAG_SESSION_CTRL, WellMade, FieldsOf, ById
<1>7. CASE reg \in {SECURITY_ACCESS(c, a, d, b) :
                     c \in Names, a \in Names, d \in Names, b \in Names}
  <2>1. PICK c \in Names, a \in Names, d \in Names, b \in Names :
          reg = SECURITY_ACCESS(c, a, d, b)
    BY <1>7
  <2> QED BY <2>1 DEF SECURITY_ACCESS, WellMade, FieldsOf, ById
<1>8. CASE reg \in {AUTHENTICATION(c, a, d, b) :
                     c \in Names, a \in Names, d \in Names, b \in Names}
  <2>1. PICK c \in Names, a \in Names, d \in Names, b \in Names :
          reg = AUTHENTICATION(c, a, d, b)
    BY <1>8
  <2> QED BY <2>1 DEF AUTHENTICATION, WellMade, FieldsOf, ById
<1>9. CASE reg \in {CLEAR_DIAG_INFO(c, a) : c \in Names, a \in Names}
  <2>1. PICK c \in Names, a \in Names : reg = CLEAR_DIAG_INFO(c, a)
    BY <1>9
  <2> QED BY <2>1 DEF CLEAR_DIAG_INFO, WellMade, FieldsOf, ById
<1>10. CASE reg \in {COMMUNICATION_CONTROL(c, a) : c \in Names, a \in Names}
  <2>1. PICK c \in Names, a \in Names : reg = COMMUNICATION_CONTROL(c, a)
    BY <1>10
  <2> QED BY <2>1 DEF COMMUNICATION_CONTROL, WellMade, FieldsOf, ById
<1>11. CASE reg \in {CONTROL_DTC_SETTING(c, a) : c \in Names, a \in Names}
  <2>1. PICK c \in Names, a \in Names : reg = CONTROL_DTC_SETTING(c, a)
    BY <1>11
  <2> QED BY <2>1 DEF CONTROL_DTC_SETTING, WellMade, FieldsOf, ById
<1>12. CASE reg \in {DYNAMICALLY_DEFINE_DATA_IDS(c, a) : c \in Names, a \in Names}
  <2>1. PICK c \in Names, a \in Names : reg = DYNAMICALLY_DEFINE_DATA_IDS(c, a)
    BY <1>12
  <2> QED BY <2>1 DEF DYNAMICALLY_DEFINE_DATA_IDS, WellMade, FieldsOf, ById
<1>13. CASE reg \in {LINK_CONTROL(c, a) : c \in Names, a \in Names}
  <2>1. PICK c \in Names, a \in Names : reg = LINK_CONTROL(c, a)
    BY <1>13
  <2> QED BY <2>1 DEF LINK_CONTROL, WellMade, FieldsOf, ById
<1>14. CASE reg = UPLOAD_DOWNLOAD
  BY <1>14 DEF UPLOAD_DOWNLOAD, WellMade, FieldsOf, ById
<1> QED
  BY <1>1, <1>2, <1>3, <1>4, <1>5, <1>6, <1>7, <1>8, <1>9, <1>10, <1>11, <1>12,
     <1>13, <1>14 DEF MadeByMacros

-----------------------------------------------------------------------------
(* The event table has an entry for every documented event, with the       *)
(* documented type and actor, and asks for an id exactly if the type has.  *)
Fits(entry, type, field) ==
  /\ entry.type = type /\ entry.field = field
  /\ field \in FieldsOf(type)
  /\ entry.reach \in {"id", "idcall"} <=> type \in ById

LEMMA EntriesFit ==
  ASSUME NEW entry \in uds_event_handler_data
  PROVE  /\ <<entry.type, entry.field, entry.event>> \in Documented
         /\ Fits(entry, entry.type, entry.field)
<1> USE DEF Entry, Documented, Fits, FieldsOf, ById
<1>1. CASE entry \in authentication \cup clear_diag_info \cup comm_ctrl
  BY <1>1 DEF authentication, clear_diag_info, comm_ctrl
<1>2. CASE entry \in control_dtc_setting \cup data_by_identifier \cup diag_session_ctrl
  BY <1>2 DEF control_dtc_setting, data_by_identifier, diag_session_ctrl
<1>3. CASE entry \in dynamically_define_data_ids \cup ecu_reset \cup link_control
  BY <1>3 DEF dynamically_define_data_ids, ecu_reset, link_control
<1>4. CASE entry \in memory_by_address \cup read_dtc_info \cup routine_control
  BY <1>4 DEF memory_by_address, read_dtc_info, routine_control
<1>5. CASE entry \in security_access \cup upload_download
  BY <1>5 DEF security_access, upload_download
<1> QED BY <1>1, <1>2, <1>3, <1>4, <1>5 DEF uds_event_handler_data

LEMMA DocumentedHaveEntries ==
  ASSUME NEW doc \in Documented
  PROVE  \E entry \in uds_event_handler_data : entry.event = doc[3]
<1> DEFINE In(event, section) == \E entry \in section : entry.event = event
<1>1. In("Auth", authentication) /\ In("AuthTimeout", authentication)
  BY DEF Entry, authentication
<1>2. In("ClearDiagnosticInfo", clear_diag_info) /\ In("CommCtrl", comm_ctrl)
  BY DEF Entry, clear_diag_info, comm_ctrl
<1>3. In("ControlDTCSetting", control_dtc_setting)
  BY DEF Entry, control_dtc_setting
<1>4. /\ In("ReadDataByIdent", data_by_identifier)
      /\ In("WriteDataByIdent", data_by_identifier)
      /\ In("IOControl", data_by_identifier)
  BY DEF Entry, data_by_identifier
<1>5. In("DiagSessCtrl", diag_session_ctrl) /\ In("SessionTimeout", diag_session_ctrl)
  BY DEF Entry, diag_session_ctrl
<1>6. In("DynamicDefineDataId", dynamically_define_data_ids)
  BY DEF Entry, dynamically_define_data_ids
<1>7. In("EcuReset", ecu_reset) /\ In("DoScheduledReset", ecu_reset)
  BY DEF Entry, ecu_reset
<1>8. In("LinkControl", link_control)
  BY DEF Entry, link_control
<1>9. In("ReadMemByAddr", memory_by_address) /\ In("WriteMemByAddr", memory_by_address)
  BY DEF Entry, memory_by_address
<1>10. In("ReadDTCInformation", read_dtc_info) /\ In("RoutineCtrl", routine_control)
  BY DEF Entry, read_dtc_info, routine_control
<1>11. /\ In("SecAccessRequestSeed", security_access)
       /\ In("SecAccessValidateKey", security_access)
  BY DEF Entry, security_access
<1>12. \A event \in {"RequestDownload", "RequestUpload", "TransferData",
                     "RequestTransferExit", "RequestFileTransfer"} :
         In(event, upload_download)
  <2>1. ASSUME NEW event \in {"RequestDownload", "RequestUpload", "TransferData",
                     "RequestTransferExit", "RequestFileTransfer"}
        PROVE  In(event, upload_download)
    <3> DEFINE entry == Entry(event, "UPLOAD_DOWNLOAD", "none", "always",
                              "SubFunctionNotSupported")
    <3>1. entry \in upload_download
      BY DEF upload_download
    <3>2. entry.event = event
      BY DEF Entry
    <3> HIDE DEF entry
    <3> QED BY <3>1, <3>2
  <2> QED BY <2>1
<1> DEFINE Has(event) == In(event, uds_event_handler_data)
<1>13. ASSUME NEW event,
              \E section \in {authentication, clear_diag_info, comm_ctrl,
                 control_dtc_setting, data_by_identifier, diag_session_ctrl,
                 dynamically_define_data_ids, ecu_reset, link_control,
                 memory_by_address, read_dtc_info, routine_control,
                 security_access, upload_download} : In(event, section)
       PROVE  Has(event)
  BY <1>13 DEF uds_event_handler_data
<1> HIDE DEF In, Has
<1>14. /\ Has("Auth") /\ Has("AuthTimeout") /\ Has("ClearDiagnosticInfo")
       /\ Has("CommCtrl") /\ Has("ControlDTCSetting") /\ Has("ReadDataByIdent")
       /\ Has("WriteDataByIdent") /\ Has("IOControl") /\ Has("DiagSessCtrl")
       /\ Has("SessionTimeout") /\ Has("DynamicDefineDataId") /\ Has("EcuReset")
       /\ Has("DoScheduledReset") /\ Has("LinkControl") /\ Has("ReadMemByAddr")
       /\ Has("WriteMemByAddr") /\ Has("ReadDTCInformation") /\ Has("RoutineCtrl")
       /\ Has("SecAccessRequestSeed") /\ Has("SecAccessValidateKey")
  BY <1>1, <1>2, <1>3, <1>4, <1>5, <1>6, <1>7, <1>8, <1>9, <1>10, <1>11, <1>13
<1>15. \A event \in {"RequestDownload", "RequestUpload", "TransferData",
                     "RequestTransferExit", "RequestFileTransfer"} : Has(event)
  BY <1>12, <1>13
<1>16. Has(doc[3])
  BY <1>14, <1>15 DEF Documented
<1> QED BY <1>16 DEF Has, In

LEMMA OneDocPerEvent ==
  ASSUME NEW doc \in Documented, NEW other \in Documented, doc[3] = other[3]
  PROVE  doc = other
  BY DEF Documented

(* What the entry makes of a registration whose functions agree: its actor *)
(* is called exactly if the event is meant for it, and the loop goes on.   *)
IsMeant(reg, type, id) == reg.type = type /\ reg.id \in {NoId, id}

Agreed(entry, reg, id, s) ==
  Reach(entry, reg, id, [code |-> "OK", apply |-> TRUE],
        [code |-> "OK", consume |-> "no", state |-> s], s)

GoesOn(h, reg, type, id, s) ==
  /\ Acts(h) <=> IsMeant(reg, type, id)
  /\ VisitCode(h) = "OK" /\ ~Consumes(h, TRUE)
  /\ h.next = s

LEMMA AgreedMeans ==
  ASSUME NEW entry, NEW type, NEW field, Fits(entry, type, field), NEW id \in Nat,
         NEW reg, WellMade(reg), NEW s
  PROVE  GoesOn(Agreed(entry, reg, id, s), reg, type, id, s)
<1>0. PICK h : h = Agreed(entry, reg, id, s)
  OBVIOUS
<1>1. PICK actor : actor = reg.actors[field]
  OBVIOUS
<1>2. entry.type = type /\ entry.field = field
  BY DEF Fits
<1> DEFINE byId == entry.reach \in {"id", "idcall"}
           passed == [code |-> "OK", apply |-> FALSE]
           checked == [code |-> "OK", apply |-> TRUE]
           result ==
             IF reg.type # type \/ (byId /\ reg.id # id) THEN passed
             ELSE IF actor.check # "NULL" THEN checked
             ELSE IF entry.reach = "idcall" THEN [passed EXCEPT !.code = "NullCall"]
             ELSE IF byId THEN passed
             ELSE [passed EXCEPT !.code = "none"]
           fits == reg.type = type
           acts == fits /\ result.code = "OK" /\ result.apply /\ actor.action # "NULL"
<1>3. h = [type    |-> fits, check |-> result.code, apply |-> result.apply,
           action  |-> IF acts THEN "OK" ELSE "none",
           consume |-> IF acts THEN "no" ELSE "unset",
           next    |-> s]
  BY <1>0, <1>1, <1>2 DEF Agreed, Reach
<1>4. fits => actor.check # "NULL" /\ actor.action # "NULL"
  BY <1>1 DEF Fits, WellMade
<1>5. result = IF IsMeant(reg, type, id) THEN checked ELSE passed
  BY <1>4 DEF Fits, WellMade, IsMeant, NoId
<1> HIDE DEF result, byId
<1>6. result.code = "OK" /\ (result.apply <=> IsMeant(reg, type, id))
      /\ result.apply \in BOOLEAN
  BY <1>5
<1>7. acts <=> IsMeant(reg, type, id)
  BY <1>4, <1>6 DEF IsMeant
<1>8. fits \in BOOLEAN /\ acts \in BOOLEAN /\ (acts => fits)
  BY <1>6
<1> HIDE DEF fits, acts
<1>9. /\ h.type = fits /\ h.check = "OK" /\ h.apply = result.apply
      /\ h.action = IF acts THEN "OK" ELSE "none"
      /\ h.consume = IF acts THEN "no" ELSE "unset"
      /\ h.next = s
  BY <1>3, <1>6, <1>8
<1>10. Acts(h) <=> acts
  BY <1>6, <1>7, <1>8, <1>9 DEF Acts
<1>11. VisitCode(h) = "OK"
  BY <1>9, <1>10 DEF VisitCode
<1>12. ~Consumes(h, TRUE)
  BY <1>9, <1>10 DEF Consumes
<1> QED BY <1>0, <1>7, <1>9, <1>10, <1>11, <1>12 DEF GoesOn

AgreedHandler(entry, id) ==
  [reg \in Range(registered) |-> [s \in {"any"} |-> Agreed(entry, reg, id, s)]]

Meanings(type, id) == {k \in Nat : IsMeant(registered[k], type, id)}

CalledInv(acc, n, type, id) ==
  /\ acc.done = FALSE /\ acc.state = "any"
  /\ acc.calls \in Seq(Range(registered))
  /\ Listed(acc.calls, Meanings(type, id), registered, n)

(* One turn: the loop goes on, and a registration the event is meant for   *)
(* is called.                                                              *)
LEMMA CalledStep ==
  ASSUME NEW S, registered \in Seq(S), \A reg \in S : WellMade(reg),
         NEW entry, NEW type, NEW field, Fits(entry, type, field), NEW id \in Nat,
         NEW n \in Nat, n + 1 \in 1 .. Len(registered),
         NEW acc, CalledInv(acc, n, type, id), NEW next,
         next = NthTurn(registered, Len(registered), AgreedHandler(entry, id), n + 1, acc)
  PROVE  CalledInv(next, n + 1, type, id)
<1>1. PICK reg : reg = registered[n + 1]
  OBVIOUS
<1>2. reg \in Range(registered) /\ WellMade(reg)
  <2>1. reg \in S /\ n + 1 \in DOMAIN registered
    BY <1>1, ElementOfSeq
  <2> QED BY <1>1, <2>1 DEF Range
<1>3. PICK h : h = Agreed(entry, reg, id, "any")
  OBVIOUS
<1>4. AgreedHandler(entry, id)[reg][acc.state] = h
  BY <1>2, <1>3 DEF AgreedHandler, CalledInv
<1>5. /\ Acts(h) <=> IsMeant(reg, type, id)
      /\ VisitCode(h) = "OK" /\ ~Consumes(h, TRUE)
      /\ h.next = "any"
  <2>1. GoesOn(h, reg, type, id, "any")
    BY <1>2, <1>3, AgreedMeans
  <2> QED BY <2>1 DEF GoesOn
<1>6. (n + 1 <= Len(registered)) = TRUE
  OBVIOUS
<1>7. next = Visit(acc, h, reg, TRUE)
  BY <1>1, <1>4, <1>6 DEF NthTurn
<1> DEFINE calls == IF Acts(h) THEN Append(acc.calls, reg) ELSE acc.calls
           found == acc.found \/ (Acts(h) /\ h.action = "OK")
           state == IF Acts(h) THEN h.next ELSE acc.state
           done == Consumes(h, TRUE) \/ VisitCode(h) # "OK"
<1>8. next = [done |-> done, code |-> VisitCode(h), found |-> found,
              calls |-> calls, state |-> state]
  BY <1>7, Zenon DEF Visit, CalledInv
<1>9. done = FALSE /\ state = "any"
  BY <1>5 DEF CalledInv
<1>10. n + 1 \in Meanings(type, id) <=> Acts(h)
  BY <1>1, <1>5 DEF Meanings
<1>11. calls \in Seq(Range(registered)) /\ Listed(calls, Meanings(type, id), registered, n + 1)
  <2>1. /\ acc.calls \in Seq(Range(registered))
        /\ Listed(acc.calls, Meanings(type, id), registered, n)
    BY DEF CalledInv
  <2>2. /\ n + 1 \in Meanings(type, id) =>
             Listed(Append(acc.calls, registered[n + 1]), Meanings(type, id), registered, n + 1)
        /\ n + 1 \notin Meanings(type, id) =>
             Listed(acc.calls, Meanings(type, id), registered, n + 1)
    BY <1>1, <1>2, <2>1, ListedNext
  <2>3. Append(acc.calls, reg) \in Seq(Range(registered))
    BY <1>2, <2>1, AppendProperties
  <2> QED BY <1>1, <1>10, <2>1, <2>2, <2>3, Zenon
<1> HIDE DEF calls, found, state, done
<1>12. next.done = done /\ next.state = state /\ next.calls = calls
  BY <1>8
<1> QED BY <1>9, <1>11, <1>12 DEF CalledInv

LEMMA CalledLoop ==
  ASSUME NEW S, registered \in Seq(S), \A reg \in S : WellMade(reg),
         NEW entry, NEW type, NEW field, Fits(entry, type, field), NEW id \in Nat,
         NEW T, T = Turns(registered, <<>>, AgreedHandler(entry, id), "any")
  PROVE  CalledInv(T[Len(registered)], Len(registered), type, id)
<1>1. Len(registered) \in Nat /\ registered \o <<>> = registered
  BY LenProperties, ConcatEmptySeq
<1>2. /\ T[0] = Begin("any")
      /\ \A n \in 1 .. Len(registered) :
           T[n] = NthTurn(registered, Len(registered), AgreedHandler(entry, id), n, T[n - 1])
  <2>1. Len(registered \o <<>>) \in Nat
    BY <1>1
  <2>2. Unfolded(T, "any", registered \o <<>>, Len(registered), AgreedHandler(entry, id))
    BY <2>1, TurnsUnfold, Zenon
  <2>3. Unfolded(T, "any", registered, Len(registered), AgreedHandler(entry, id))
    BY <1>1, <2>2, Zenon
  <2> QED BY <2>3, Zenon DEF Unfolded
<1>3. CalledInv(T[0], 0, type, id)
  <2>1. PICK acc : acc = Begin("any")
    OBVIOUS
  <2>2. acc.done = FALSE /\ acc.state = "any" /\ acc.calls = <<>>
    BY <2>1 DEF Begin
  <2>3. <<>> \in Seq(Range(registered))
    OBVIOUS
  <2>4. CalledInv(acc, 0, type, id)
    BY <2>2, <2>3, NothingListed, Zenon DEF CalledInv
  <2> QED BY <1>2, <2>1, <2>4
<1> DEFINE Bad == {n \in 0 .. Len(registered) : ~CalledInv(T[n], n, type, id)}
<1>4. Bad = {}
  <2>1. SUFFICES ASSUME Bad # {} PROVE FALSE
    OBVIOUS
  <2>2. PICK m \in Bad : \A y \in Bad : m <= y
    <3>1. Bad \in SUBSET Nat
      BY <1>1
    <3> QED BY <2>1, <3>1, LeastNatural
  <2>3. m \in 0 .. Len(registered) /\ ~CalledInv(T[m], m, type, id) /\ m # 0
    BY <1>3, <2>2
  <2>4. PICK k \in Nat : m = k + 1
    <3>1. m - 1 \in Nat /\ m = (m - 1) + 1
      BY <1>1, <2>3
    <3> QED BY <3>1
  <2>5. k \in 0 .. Len(registered) /\ k + 1 \in 1 .. Len(registered) /\ (k + 1) - 1 = k
    BY <1>1, <2>3, <2>4
  <2>6. CalledInv(T[k], k, type, id)
    <3>1. ~(m <= k)
      BY <2>4
    <3> QED BY <2>2, <2>5, <3>1
  <2>7. PICK acc, next : acc = T[k] /\ next = T[k + 1]
    OBVIOUS
  <2>8. next = NthTurn(registered, Len(registered), AgreedHandler(entry, id), k + 1, acc)
    BY <1>2, <2>5, <2>7
  <2>9. CalledInv(next, k + 1, type, id)
    BY <2>5, <2>6, <2>7, <2>8, CalledStep
  <2> QED BY <2>3, <2>4, <2>7, <2>9
<1>5. Len(registered) \in 0 .. Len(registered)
  BY <1>1
<1> QED BY <1>4, <1>5

LEMMA ReachesAny ==
  ASSUME NEW S, registered \in Seq(S), \A reg \in S : WellMade(reg),
         NEW doc \in Documented, NEW id \in Nat
  PROVE  Reaches(doc[1], doc[2], doc[3], id)
<1> DEFINE entry == CHOOSE e \in uds_event_handler_data : e.event = doc[3]
<1>1. entry \in uds_event_handler_data /\ entry.event = doc[3]
  BY DocumentedHaveEntries
<1> HIDE DEF entry
<1>2. Fits(entry, doc[1], doc[2])
  <2>1. /\ <<entry.type, entry.field, entry.event>> \in Documented
        /\ Fits(entry, entry.type, entry.field)
    BY <1>1, EntriesFit
  <2>2. doc = <<entry.type, entry.field, entry.event>>
    BY <1>1, <2>1, OneDocPerEvent
  <2> QED BY <2>1, <2>2
<1> DEFINE T == Turns(registered, <<>>, AgreedHandler(entry, id), "any")
           end == T[Len(registered)]
<1>3. CalledInv(end, Len(registered), doc[1], id)
  BY <1>2, CalledLoop
<1>4. registered \o <<>> = registered /\ Len(registered) \in Nat
  BY ConcatEmptySeq, LenProperties
<1> DEFINE handled ==
             HandleEvent(registered, <<>>, AgreedHandler(entry, id), entry.default_nrc, "any")
           called == Called(doc[3], id)
<1>5. handled.calls = end.calls
  BY <1>4, Zenon DEF HandleEvent
<1>a. called = [k \in 1 .. Len(handled.calls) |->
                  handled.calls[k].actors[entry.field].action]
  BY Zenon DEF Called, AgreedHandler, Agreed, entry
<1> HIDE DEF T, called, handled
<1>6. called = [k \in 1 .. Len(end.calls) |-> end.calls[k].actors[entry.field].action]
  BY <1>5, <1>a
<1>7. PICK calls : calls = end.calls
  OBVIOUS
<1>8. /\ calls \in Seq(Range(registered)) /\ Len(calls) \in Nat
      /\ Listed(calls, Meanings(doc[1], id), registered, Len(registered))
  BY <1>3, <1>7, LenProperties DEF CalledInv
<1>9. ASSUME NEW n \in Nat
      PROVE  UpTo(Meanings(doc[1], id), n) = MeantTo(n, doc[1], id)
  BY DEF UpTo, Meanings, MeantTo, IsMeant
<1>10. Len(called) = Cardinality(MeantTo(Len(registered), doc[1], id))
  BY <1>4, <1>6, <1>7, <1>8, <1>9 DEF Listed
<1>11. ASSUME NEW k \in MeantTo(Len(registered), doc[1], id)
       PROVE  called[Cardinality(MeantTo(k, doc[1], id))] =
                registered[k].actors[doc[2]].action
  <2>1. k \in 1 .. Len(registered) /\ k \in Meanings(doc[1], id) /\ k \in Nat
    BY <1>4 DEF MeantTo, Meanings, IsMeant
  <2> DEFINE place == Cardinality(MeantTo(k, doc[1], id))
  <2>2. calls[place] = registered[k]
    BY <1>8, <1>9, <2>1 DEF Listed
  <2>3. place \in 1 .. Len(calls)
    <3>1. /\ IsFiniteSet(UpTo(Meanings(doc[1], id), Len(registered)))
          /\ Cardinality(UpTo(Meanings(doc[1], id), k)) \in Nat
          /\ IsFiniteSet(UpTo(Meanings(doc[1], id), k))
      BY <1>4, <2>1, UpToNext
    <3>2. UpTo(Meanings(doc[1], id), k) \subseteq UpTo(Meanings(doc[1], id), Len(registered))
      BY <1>4, <2>1 DEF UpTo
    <3>3. k \in UpTo(Meanings(doc[1], id), k)
      BY <2>1 DEF UpTo
    <3>4. /\ Cardinality(UpTo(Meanings(doc[1], id), k)) <= Len(calls)
          /\ Cardinality(UpTo(Meanings(doc[1], id), k)) # 0
      BY <1>8, <3>1, <3>2, <3>3, FS_Subset, FS_EmptySet DEF Listed
    <3> QED BY <1>8, <1>9, <2>1, <3>1, <3>4
  <2>4. called[place] = calls[place].actors[entry.field].action
    BY <1>6, <1>7, <2>3
  <2>5. entry.field = doc[2]
    BY <1>2 DEF Fits
  <2> QED BY <2>2, <2>4, <2>5
<1> QED BY <1>10, <1>11, Zenon DEF Reaches, called

LEMMA AllSubfunctions ==
  {reg.id : reg \in Range(READ_DTC_INFO_ALL("check", "actor"))} = Subfunctions
<1> DEFINE ids == <<1, 2, 3, 4, 5, 6, 7, 8, 9, 10, 11, 12, 13, 14,
                    20, 21, 22, 23, 24, 25, 26, 66, 85, 86>>
           all == READ_DTC_INFO_ALL("check", "actor")
<1>1. Len(ids) = 24
  OBVIOUS
<1>2. all = [k \in 1 .. 24 |-> READ_DTC_INFO("check", "actor", ids[k])]
  <2>1. all = [k \in 1 .. Len(ids) |-> READ_DTC_INFO("check", "actor", ids[k])]
    BY Zenon DEF READ_DTC_INFO_ALL, READ_DTC_INFO_APPLY
  <2> QED BY <1>1, <2>1, Zenon
<1>3. {ids[k] : k \in 1 .. 24} = Subfunctions
  <2>1. ASSUME NEW k \in 1 .. 24 PROVE ids[k] \in Subfunctions
    BY DEF Subfunctions
  <2>2. ASSUME NEW i \in Subfunctions PROVE \E k \in 1 .. 24 : ids[k] = i
    <3>1. CASE i \in 1 .. 14
      <4>1. i \in 1 .. 24 /\ ids[i] = i
        BY <3>1
      <4> QED BY <4>1
    <3>2. CASE i \in 20 .. 26
      <4>1. i - 5 \in 1 .. 24 /\ ids[i - 5] = i
        BY <3>2
      <4> QED BY <4>1
    <3>3. CASE i \in {66, 85, 86}
      <4>1. 22 \in 1 .. 24 /\ 23 \in 1 .. 24 /\ 24 \in 1 .. 24
            /\ ids[22] = 66 /\ ids[23] = 85 /\ ids[24] = 86
        OBVIOUS
      <4> QED BY <3>3, <4>1
    <3> QED BY <3>1, <3>2, <3>3 DEF Subfunctions
  <2> QED BY <2>1, <2>2
<1> HIDE DEF ids, all
<1>4. DOMAIN all = 1 .. 24 /\ \A k \in 1 .. 24 : all[k].id = ids[k]
  BY <1>2 DEF READ_DTC_INFO, Registration
<1>5. {reg.id : reg \in Range(all)} = {ids[k] : k \in 1 .. 24}
  BY <1>4 DEF Range
<1> QED BY <1>3, <1>5 DEF all

(* For any list of registrations that the macros make, with any functions  *)
(* and any ids: an event, with any id, calls exactly the actors that are   *)
(* documented for it, each registration's once and in order, if every      *)
(* check agrees and none consumes it.                                      *)
THEOREM EventsReachTheirActors ==
  ASSUME NEW Names, "NULL" \notin Names, registered \in Seq(MadeByMacros(Names))
  PROVE  /\ EventReachesItsActor
         /\ \A doc \in Documented, id \in Nat : Reaches(doc[1], doc[2], doc[3], id)
<1>1. \A reg \in MadeByMacros(Names) : WellMade(reg)
  BY MacrosAreWellMade
<1>2. \A doc \in Documented, id \in Nat : Reaches(doc[1], doc[2], doc[3], id)
  BY <1>1, ReachesAny
<1>3. \A id \in {NoId, 1, 2, 86} : id \in Nat
  BY DEF NoId
<1> QED BY <1>2, <1>3, AllSubfunctions DEF EventReachesItsActor

(* The lists grow by the macros of the Catalogue and by registrations that *)
(* behave like one of the Representatives.                                 *)
FlowSpec ==
  /\ static = <<>> /\ dynamic = <<>> /\ registered = <<>>
  /\ [][Register \/ UseMacro]_lists

CatalogueNames ==
  {"check", "actor", "read", "write", "io_control", "ecu_reset",
   "execute_scheduled_reset", "diag_sess_ctrl", "session_timeout", "request_seed",
   "validate_key", "auth", "timeout", "uds_check_default_memory_by_addr_read",
   "uds_action_default_memory_by_addr_read",
   "uds_check_default_memory_by_addr_write",
   "uds_action_default_memory_by_addr_write", "uds_check_ecu_hard_reset",
   "uds_action_ecu_hard_reset", "uds_check_execute_scheduled_reset",
   "uds_action_execute_scheduled_reset",
   "uds_check_default_dynamically_define_data_ids",
   "uds_action_default_dynamically_define_data_ids",
   "uds_check_default_link_control", "uds_action_default_link_control",
   "uds_check_default_link_control_change_diag_session",
   "uds_action_default_link_control_change_diag_session"}

FlowInv == Lists /\ registered \in Seq(MadeByMacros(CatalogueNames))

LEMMA MacrosMake ==
  ASSUME NEW Names, NEW a \in Names, NEW b \in Names, NEW c \in Names, NEW d \in Names,
         NEW id \in Ids
  PROVE  LET Made == MadeByMacros(Names)
         IN  /\ READ_DTC_INFO(c, a, id) \in Made
             /\ ROUTINE_CONTROL(id, c, a) \in Made
             /\ MEMORY(c, a, d, b) \in Made
             /\ ECU_RESET(c, a, d, b) \in Made
             /\ DIAG_SESSION_CTRL(c, a, d, b) \in Made
             /\ SECURITY_ACCESS(c, a, d, b) \in Made
             /\ AUTHENTICATION(c, a, d, b) \in Made
             /\ CLEAR_DIAG_INFO(c, a) \in Made
             /\ COMMUNICATION_CONTROL(c, a) \in Made
             /\ CONTROL_DTC_SETTING(c, a) \in Made
             /\ DYNAMICALLY_DEFINE_DATA_IDS(c, a) \in Made
             /\ LINK_CONTROL(c, a) \in Made
             /\ UPLOAD_DOWNLOAD \in Made
<1>1. READ_DTC_INFO(c, a, id) \in MadeByMacros(Names)
  BY DEF MadeByMacros
<1>2. ROUTINE_CONTROL(id, c, a) \in MadeByMacros(Names)
  BY DEF MadeByMacros
<1>3. MEMORY(c, a, d, b) \in MadeByMacros(Names)
  BY DEF MadeByMacros
<1>4. ECU_RESET(c, a, d, b) \in MadeByMacros(Names)
  BY DEF MadeByMacros
<1>5. DIAG_SESSION_CTRL(c, a, d, b) \in MadeByMacros(Names)
  BY DEF MadeByMacros
<1>6. SECURITY_ACCESS(c, a, d, b) \in MadeByMacros(Names)
  BY DEF MadeByMacros
<1>7. AUTHENTICATION(c, a, d, b) \in MadeByMacros(Names)
  BY DEF MadeByMacros
<1>8. CLEAR_DIAG_INFO(c, a) \in MadeByMacros(Names)
  BY DEF MadeByMacros
<1>9. COMMUNICATION_CONTROL(c, a) \in MadeByMacros(Names)
  BY DEF MadeByMacros
<1>10. CONTROL_DTC_SETTING(c, a) \in MadeByMacros(Names)
  BY DEF MadeByMacros
<1>11. DYNAMICALLY_DEFINE_DATA_IDS(c, a) \in MadeByMacros(Names)
  BY DEF MadeByMacros
<1>12. LINK_CONTROL(c, a) \in MadeByMacros(Names)
  BY DEF MadeByMacros
<1>13. UPLOAD_DOWNLOAD \in MadeByMacros(Names)
  BY DEF MadeByMacros
<1> QED
  BY <1>1, <1>2, <1>3, <1>4, <1>5, <1>6, <1>7, <1>8, <1>9, <1>10, <1>11, <1>12, <1>13

LEMMA DataIdentifierMade ==
  ASSUME NEW Names, NEW id \in Ids, NEW x \in Actors(Names), NEW y \in Actors(Names),
         NEW z \in Actors(Names)
  PROVE  DATA_BY_IDENTIFIER(id, x, y, z) \in MadeByMacros(Names)
  BY DEF MadeByMacros

LEMMA CatalogueIsMade ==
  ASSUME NEW regs \in Catalogue
  PROVE  regs \in Seq(MadeByMacros(CatalogueNames))
<1> DEFINE Made == MadeByMacros(CatalogueNames)
<1>0. \A n \in Nat : \A f \in [1 .. n -> Made] : f \in Seq(Made)
  BY SeqDef
<1>1. /\ \A a, b, c, d \in CatalogueNames :
           /\ MEMORY(c, a, d, b) \in Made /\ ECU_RESET(c, a, d, b) \in Made
           /\ DIAG_SESSION_CTRL(c, a, d, b) \in Made
           /\ SECURITY_ACCESS(c, a, d, b) \in Made
           /\ AUTHENTICATION(c, a, d, b) \in Made
      /\ \A a, c \in CatalogueNames :
           /\ CLEAR_DIAG_INFO(c, a) \in Made /\ COMMUNICATION_CONTROL(c, a) \in Made
           /\ CONTROL_DTC_SETTING(c, a) \in Made /\ LINK_CONTROL(c, a) \in Made
           /\ DYNAMICALLY_DEFINE_DATA_IDS(c, a) \in Made
      /\ \A a, c \in CatalogueNames, id \in Ids :
           READ_DTC_INFO(c, a, id) \in Made /\ ROUTINE_CONTROL(id, c, a) \in Made
      /\ "check" \in CatalogueNames => UPLOAD_DOWNLOAD \in Made
  <2>1. 1 \in Ids
    BY DEF Ids, NoId
  <2>2. ASSUME NEW a \in CatalogueNames, NEW b \in CatalogueNames,
               NEW c \in CatalogueNames, NEW d \in CatalogueNames
        PROVE  /\ MEMORY(c, a, d, b) \in Made /\ ECU_RESET(c, a, d, b) \in Made
               /\ DIAG_SESSION_CTRL(c, a, d, b) \in Made
               /\ SECURITY_ACCESS(c, a, d, b) \in Made
               /\ AUTHENTICATION(c, a, d, b) \in Made
    BY <2>1, MacrosMake
  <2>3. ASSUME NEW a \in CatalogueNames, NEW c \in CatalogueNames
        PROVE  /\ CLEAR_DIAG_INFO(c, a) \in Made /\ COMMUNICATION_CONTROL(c, a) \in Made
               /\ CONTROL_DTC_SETTING(c, a) \in Made /\ LINK_CONTROL(c, a) \in Made
               /\ DYNAMICALLY_DEFINE_DATA_IDS(c, a) \in Made
    BY <2>1, MacrosMake
  <2>4. ASSUME NEW a \in CatalogueNames, NEW c \in CatalogueNames, NEW id \in Ids
        PROVE  READ_DTC_INFO(c, a, id) \in Made /\ ROUTINE_CONTROL(id, c, a) \in Made
    BY MacrosMake
  <2>5. "check" \in CatalogueNames => UPLOAD_DOWNLOAD \in Made
    BY <2>1, MacrosMake
  <2> HIDE DEF Made
  <2> QED BY <2>2, <2>3, <2>4, <2>5, Zenon
<1>2. \A id \in Ids, x, y, z \in Actors(CatalogueNames) :
        DATA_BY_IDENTIFIER(id, x, y, z) \in Made
  BY DataIdentifierMade
<1> HIDE DEF Made
<1>3. /\ 1 \in Ids /\ 2 \in Ids
      /\ "check" \in CatalogueNames /\ "actor" \in CatalogueNames
      /\ "read" \in CatalogueNames /\ "write" \in CatalogueNames
      /\ "io_control" \in CatalogueNames
  BY DEF Ids, NoId, CatalogueNames
<1>4. READ_DTC_INFO_MANY("check", "actor", <<1, 2>>) \in Seq(Made)
  <2>1. READ_DTC_INFO_MANY("check", "actor", <<1, 2>>) =
          [k \in 1 .. 2 |-> READ_DTC_INFO("check", "actor", <<1, 2>>[k])]
    BY DEF READ_DTC_INFO_MANY, READ_DTC_INFO_APPLY
  <2>2. \A k \in 1 .. 2 : <<1, 2>>[k] \in Ids
    BY DEF Ids, NoId
  <2>3. READ_DTC_INFO_MANY("check", "actor", <<1, 2>>) \in [1 .. 2 -> Made]
    BY <1>1, <1>3, <2>1, <2>2
  <2> QED BY <1>0, <2>3
<1>5. READ_DTC_INFO_ALL("check", "actor") \in Seq(Made)
  <2> DEFINE ids == <<1, 2, 3, 4, 5, 6, 7, 8, 9, 10, 11, 12, 13, 14,
                      20, 21, 22, 23, 24, 25, 26, 66, 85, 86>>
  <2>1. READ_DTC_INFO_ALL("check", "actor") =
          [k \in 1 .. Len(ids) |-> READ_DTC_INFO("check", "actor", ids[k])]
    BY Zenon DEF READ_DTC_INFO_ALL, READ_DTC_INFO_APPLY
  <2>2. Len(ids) = 24 /\ \A k \in 1 .. 24 : ids[k] \in Ids
    BY DEF Ids, NoId
  <2> HIDE DEF ids
  <2>3. READ_DTC_INFO_ALL("check", "actor") \in [1 .. 24 -> Made]
    BY <1>1, <1>3, <2>1, <2>2
  <2> QED BY <1>0, <2>3
<1>6. LINK_CONTROL_DEFAULT \in Seq(Made)
  <2> DEFINE l == LINK_CONTROL("uds_check_default_link_control",
                               "uds_action_default_link_control")
             s == DIAG_SESSION_CTRL("uds_check_default_link_control_change_diag_session",
                    "uds_action_default_link_control_change_diag_session",
                    "uds_check_default_link_control_change_diag_session",
                    "uds_action_default_link_control_change_diag_session")
  <2>1. l \in Made /\ s \in Made
    BY <1>1 DEF CatalogueNames
  <2> HIDE DEF l, s
  <2>2. <<l, s>> \in Seq(Made)
    BY <2>1
  <2> QED BY <2>2 DEF LINK_CONTROL_DEFAULT, l, s
<1>7. ASSUME NEW r \in Made PROVE <<r>> \in Seq(Made)
  OBVIOUS
<1>8. /\ READ_DTC_INFO("check", "actor", 2) \in Made
      /\ ROUTINE_CONTROL(1, "check", "actor") \in Made
      /\ ROUTINE_CONTROL(2, "check", "actor") \in Made
      /\ CLEAR_DIAG_INFO("check", "actor") \in Made
      /\ COMMUNICATION_CONTROL("check", "actor") \in Made
      /\ CONTROL_DTC_SETTING("check", "actor") \in Made
      /\ DYNAMICALLY_DEFINE_DATA_IDS("check", "actor") \in Made
      /\ UPLOAD_DOWNLOAD \in Made
  BY <1>1, <1>3
<1>9. /\ MEMORY("check", "read", "check", "write") \in Made
      /\ ECU_RESET("check", "ecu_reset", "check", "execute_scheduled_reset") \in Made
      /\ DIAG_SESSION_CTRL("check", "diag_sess_ctrl", "check", "session_timeout") \in Made
      /\ SECURITY_ACCESS("check", "request_seed", "check", "validate_key") \in Made
      /\ AUTHENTICATION("check", "auth", "check", "timeout") \in Made
  <2>1. /\ "ecu_reset" \in CatalogueNames /\ "execute_scheduled_reset" \in CatalogueNames
        /\ "diag_sess_ctrl" \in CatalogueNames /\ "session_timeout" \in CatalogueNames
        /\ "request_seed" \in CatalogueNames /\ "validate_key" \in CatalogueNames
        /\ "auth" \in CatalogueNames /\ "timeout" \in CatalogueNames
    BY DEF CatalogueNames
  <2> QED BY <1>1, <1>3, <2>1
<1>10. MEMORY_DEFAULT \in Made
  <2>1. /\ "uds_check_default_memory_by_addr_read" \in CatalogueNames
        /\ "uds_action_default_memory_by_addr_read" \in CatalogueNames
        /\ "uds_check_default_memory_by_addr_write" \in CatalogueNames
        /\ "uds_action_default_memory_by_addr_write" \in CatalogueNames
    BY DEF CatalogueNames
  <2> QED BY <1>1, <2>1 DEF MEMORY_DEFAULT
<1>11. ECU_DEFAULT_HARD_RESET \in Made
  <2>1. /\ "uds_check_ecu_hard_reset" \in CatalogueNames
        /\ "uds_action_ecu_hard_reset" \in CatalogueNames
        /\ "uds_check_execute_scheduled_reset" \in CatalogueNames
        /\ "uds_action_execute_scheduled_reset" \in CatalogueNames
    BY DEF CatalogueNames
  <2> QED BY <1>1, <2>1 DEF ECU_DEFAULT_HARD_RESET
<1>12. DYNAMICALLY_DEFINE_DATA_IDS_DEFAULT \in Made
  <2>1. /\ "uds_check_default_dynamically_define_data_ids" \in CatalogueNames
        /\ "uds_action_default_dynamically_define_data_ids" \in CatalogueNames
    BY DEF CatalogueNames
  <2> QED BY <1>1, <2>1 DEF DYNAMICALLY_DEFINE_DATA_IDS_DEFAULT
<1>13. \A id \in {1, 2} :
         DATA_BY_IDENTIFIER(id, Actor("check", "read"), Actor("check", "write"),
                            Actor("check", "io_control")) \in Made
  <2>1. /\ Actor("check", "read") \in Actors(CatalogueNames)
        /\ Actor("check", "write") \in Actors(CatalogueNames)
        /\ Actor("check", "io_control") \in Actors(CatalogueNames)
    BY <1>3 DEF Actor, Actors
  <2> QED BY <1>2, <1>3, <2>1
<1>14. regs \in Seq(Made)
  BY <1>4, <1>5, <1>6, <1>7, <1>8, <1>9, <1>10, <1>11, <1>12, <1>13 DEF Catalogue
<1> QED BY <1>14 DEF Made

(* Starting from empty lists, whatever is registered and whichever macros  *)
(* of the Catalogue are used, in any order and any number of times: the    *)
(* dispatch is the documented event flow, and every event reaches exactly  *)
(* the actors that are documented for it.                                  *)
THEOREM FlowCorrect == FlowSpec => [](DispatchExact /\ EventReachesItsActor)
<1>1. static = <<>> /\ dynamic = <<>> /\ registered = <<>> => FlowInv
  <2>1. \A S : <<>> \in Seq(S)
    BY EmptySeq
  <2> QED BY <2>1 DEF FlowInv, Lists
<1>2. FlowInv /\ [Register \/ UseMacro]_lists => FlowInv'
  <2> SUFFICES ASSUME FlowInv, [Register \/ UseMacro]_lists PROVE FlowInv'
    OBVIOUS
  <2>1. CASE Register
    <3>1. PICK r \in [instance : Instances, does : Representatives] :
            /\ \/ static' = Append(static, r) /\ dynamic' = dynamic
               \/ dynamic' = Append(dynamic, r) /\ static' = static
            /\ registered' = registered
      BY <2>1 DEF Register
    <3>2. ASSUME NEW b \in Representatives PROVE b \in Behaviours
      <4> DEFINE Calls == [type : {TRUE}, check : {"OK"}, apply : {TRUE},
                          action : {"OK", "NRC_action"},
                          consume : {"yes", "no", "unset"}]
      <4>1. \A t, p \in BOOLEAN, c \in {"none", "OK", "NRC_check"},
               a \in {"none", "OK", "NRC_action"}, x \in {"unset", "no", "yes"} :
              Behaviour(t, c, p, a, x) \in Behaviours
        BY DEF Behaviour, Behaviours
      <4>2. ASSUME b \in Calls PROVE b \in Behaviours
        BY <4>2 DEF Behaviours
      <4> HIDE DEF Calls
      <4>3. ASSUME b \notin Calls PROVE b \in Behaviours
        BY <4>1, <4>3 DEF Representatives, Calls
      <4> QED BY <4>2, <4>3
    <3>3. r \in Registrations
      BY <3>2 DEF Registrations
    <3>4. /\ Append(static, r) \in Seq(Registrations)
          /\ Append(dynamic, r) \in Seq(Registrations)
      BY <3>3, AppendProperties DEF FlowInv, Lists
    <3> QED BY <3>1, <3>4 DEF FlowInv, Lists
  <2>2. CASE UseMacro
    <3>1. PICK regs \in Catalogue :
            registered' = registered \o regs /\ static' = static /\ dynamic' = dynamic
      BY <2>2 DEF UseMacro
    <3>2. regs \in Seq(MadeByMacros(CatalogueNames))
      BY CatalogueIsMade
    <3> QED BY <3>1, <3>2, ConcatProperties DEF FlowInv, Lists
  <2>3. CASE UNCHANGED lists
    BY <2>3 DEF lists, FlowInv, Lists
  <2> QED BY <2>1, <2>2, <2>3
<1>3. FlowInv => DispatchExact /\ EventReachesItsActor
  <2>1. "NULL" \notin CatalogueNames
    BY DEF CatalogueNames
  <2> QED BY <2>1, DispatchIsExact, EventsReachTheirActors DEF FlowInv, Lists
<1> QED BY <1>1, <1>2, <1>3, PTL DEF FlowSpec

-----------------------------------------------------------------------------
(* UdsServices: memory by address.                                         *)

(* Both memories end inside the address space (ram_end and flash_end of    *)
(* is_memory_address_valid do not wrap).  The first conjunct is about a    *)
(* power of two, which the provers know nothing of.                        *)
MemoriesFit ==
  /\ UINTPTR_MAX \in Nat
  /\ \A region \in {Ram, Flash} :
       /\ region.base \in Nat /\ region.size \in Nat
       /\ region.base + region.size <= UINTPTR_MAX

Covers(region, addr, size) ==
  \A a \in addr .. (addr + size - 1) :
    a \in region.base .. (region.base + region.size - 1)

LEMMA WindowWithin ==
  ASSUME MemoriesFit, NEW region \in {Ram, Flash},
         NEW addr \in Addresses, NEW size \in Addresses, size # 0,
         addr <= UINTPTR_MAX - size
  PROVE  Within(region, addr, size) <=> Covers(region, addr, size)
<1> DEFINE b == region.base
           e == region.base + region.size
<1>1. /\ UINTPTR_MAX \in Nat /\ addr \in Nat /\ size \in Nat /\ size > 0
      /\ b \in Nat /\ region.size \in Nat /\ e \in Nat /\ e <= UINTPTR_MAX
  BY DEF MemoriesFit, Addresses
<1>2. addr + size <= UINTPTR_MAX
  BY <1>1
<1>3. (addr + size) % (UINTPTR_MAX + 1) = addr + size
  BY <1>1, <1>2
<1>4. Within(region, addr, size) <=> addr >= b /\ addr + size <= e
  BY <1>3 DEF Within
<1>5. ASSUME Covers(region, addr, size) PROVE addr >= b /\ addr + size <= e
  <2>1. addr \in addr .. (addr + size - 1) /\ addr + size - 1 \in addr .. (addr + size - 1)
    BY <1>1
  <2>2. addr \in b .. (e - 1) /\ addr + size - 1 \in b .. (e - 1)
    BY <1>1, <1>5, <2>1 DEF Covers
  <2> QED BY <1>1, <2>2
<1>6. ASSUME addr >= b, addr + size <= e PROVE Covers(region, addr, size)
  BY <1>1, <1>6 DEF Covers
<1> QED BY <1>4, <1>5, <1>6

(* is_memory_address_valid and the tests around it let through exactly the *)
(* requests for at least one byte, not at address 0, all of whose bytes    *)
(* are in the RAM or, to be read, all of them in the flash; on native_sim  *)
(* those that end before the last address.  No sum wraps and no end is off *)
(* by one, however wide an address is.                                     *)
THEOREM MemoryCheckExact ==
  ASSUME MemoriesFit, NEW addr \in Addresses, NEW size \in Addresses,
         NEW readonly \in BOOLEAN, NEW arg, arg.addr = addr, arg.size = size,
         NEW s, s.native_sim \in BOOLEAN
  PROVE  DefaultMemoryCheck(arg, s, readonly) =
           IF /\ addr # 0 /\ size # 0
              /\ \/ s.native_sim /\ addr + size <= UINTPTR_MAX
                 \/ Covers(Ram, addr, size)
                 \/ readonly /\ Covers(Flash, addr, size)
           THEN Checked("OK", TRUE) ELSE Checked("RequestOutOfRange", FALSE)
<1>1. /\ UINTPTR_MAX \in Nat /\ addr \in Nat /\ size \in Nat
  BY DEF MemoriesFit, Addresses
<1>2. ASSUME NEW region \in {Ram, Flash}, size # 0, Covers(region, addr, size)
      PROVE  addr <= UINTPTR_MAX - size
  <2>1. addr + size - 1 \in addr .. (addr + size - 1)
    BY <1>1, <1>2
  <2>2. addr + size - 1 <= region.base + region.size - 1
    BY <1>2, <2>1 DEF Covers
  <2> QED BY <1>1, <2>2 DEF MemoriesFit
<1>3. size # 0 =>
        (is_memory_address_valid(s, addr, size, readonly)
           <=> \/ s.native_sim /\ addr + size <= UINTPTR_MAX
               \/ Covers(Ram, addr, size)
               \/ readonly /\ Covers(Flash, addr, size))
  <2>1. addr <= UINTPTR_MAX - size <=> addr + size <= UINTPTR_MAX
    BY <1>1
  <2>2. is_memory_address_valid(s, addr, size, readonly) <=>
          /\ addr <= UINTPTR_MAX - size
          /\ \/ s.native_sim
             \/ Within(Ram, addr, size)
             \/ readonly /\ Within(Flash, addr, size)
    BY DEF is_memory_address_valid
  <2> QED BY <1>2, <2>1, <2>2, WindowWithin
<1> QED BY <1>3 DEF DefaultMemoryCheck

(* An accepted request reads or writes the bytes of its range, in order,   *)
(* and no others.                                                          *)
THEOREM MemoryAccessExact ==
  ASSUME MemoriesFit, NEW addr \in Addresses, NEW size \in Addresses,
         NEW readonly \in BOOLEAN, NEW arg, arg.addr = addr, arg.size = size,
         NEW s, DefaultMemoryCheck(arg, s, readonly).apply,
         "memory" \in DOMAIN s, s.memory \in [Addresses -> Nat]
  PROVE  /\ BytesAt(s, addr, size) = [i \in 1 .. size |-> s.memory[addr + i - 1]]
         /\ uds_action_default_memory_by_addr_write(arg, s).state.memory =
              [a \in Addresses |->
                 IF a \in addr .. (addr + size - 1) THEN arg.data ELSE s.memory[a]]
<1>1. /\ UINTPTR_MAX \in Nat /\ addr \in Nat /\ size \in Nat
  BY DEF MemoriesFit, Addresses
<1>2. addr <= UINTPTR_MAX - size
  BY DEF DefaultMemoryCheck, is_memory_address_valid, Checked
<1>3. \A i \in 0 .. (size - 1) : (addr + i) % (UINTPTR_MAX + 1) = addr + i
  BY <1>1, <1>2
<1>4. ASSUME NEW i \in 1 .. size
      PROVE  (addr + i - 1) % (UINTPTR_MAX + 1) = addr + i - 1
  BY <1>1, <1>2
<1>5. BytesAt(s, addr, size) = [i \in 1 .. size |-> s.memory[addr + i - 1]]
  BY <1>4 DEF BytesAt
<1> DEFINE Touched == {(addr + i) % (UINTPTR_MAX + 1) : i \in 0 .. (size - 1)}
<1>6. \A a : a \in Touched <=> a \in addr .. (addr + size - 1)
  <2>1. \A a \in addr .. (addr + size - 1) :
          a - addr \in 0 .. (size - 1) /\ a = addr + (a - addr)
    BY <1>1
  <2>2. \A i \in 0 .. (size - 1) : addr + i \in addr .. (addr + size - 1)
    BY <1>1
  <2> QED BY <1>3, <2>1, <2>2
<1> HIDE DEF Touched
<1>7. uds_action_default_memory_by_addr_write(arg, s).state.memory =
        [a \in Addresses |-> IF a \in Touched THEN arg.data ELSE s.memory[a]]
  BY DEF uds_action_default_memory_by_addr_write, Did, Touched
<1> QED BY <1>5, <1>6, <1>7
-----------------------------------------------------------------------------
(* UdsSession: session events and the CAN link.                            *)

(* One turn, of a static registration.                                     *)
Turn(acc, handler, r) == Visit(acc, handler[r][acc.state], r, TRUE)

(* Three static registrations and no dynamic ones are three turns.         *)
LEMMA ThreeTurns ==
  ASSUME NEW three \in Seq(Handlers), Len(three) = 3,
         NEW handler, NEW state, NEW end,
         end = Turn(Turn(Turn(Begin(state), handler, three[1]),
                         handler, three[2]), handler, three[3])
  PROVE  HandleEvent(three, <<>>, handler, "OK", state) =
           [code  |-> IF end.done THEN end.code ELSE "OK",
            calls |-> end.calls,
            state |-> end.state]
<1> DEFINE all == three \o <<>>
           T == Turns(three, <<>>, handler, state)
           v1 == Turn(Begin(state), handler, three[1])
           v2 == Turn(v1, handler, three[2])
           v3 == Turn(v2, handler, three[3])
<1>1. all = three /\ Len(all) = 3 /\ Len(three) \in Nat
  BY ConcatEmptySeq
<1>2. /\ T[0] = Begin(state)
      /\ \A n \in 1 .. Len(all) :
           T[n] = NthTurn(all, Len(three), handler, n, T[n - 1])
  <2>1. Len(all) \in Nat
    BY <1>1
  <2>2. Unfolded(T, state, all, Len(three), handler)
    BY <2>1, TurnsUnfold, Zenon
  <2> QED BY <2>2, Zenon DEF Unfolded
<1> HIDE DEF T, all
<1>3. ASSUME NEW n \in 1 .. 3
      PROVE  T[n] = Turn(T[n - 1], handler, three[n])
  <2>1. (n <= Len(three)) = TRUE
    OBVIOUS
  <2>2. T[n] = NthTurn(three, Len(three), handler, n, T[n - 1])
    BY <1>1, <1>2
  <2> QED BY <2>1, <2>2, Zenon DEF Turn, NthTurn
<1>7. T[3] = v3
  <2>2. T[1] = v1
    BY <1>2, <1>3, 1 \in 1 .. 3, 1 - 1 = 0
  <2>3. T[2] = v2
    <3> HIDE DEF v1
    <3> QED BY <1>3, <2>2, 2 \in 1 .. 3, 2 - 1 = 1
  <2> HIDE DEF v2
  <2> QED BY <1>3, <2>3, 3 \in 1 .. 3, 3 - 1 = 2
<1> HIDE DEF v3
<1>8. T[Len(all)] = v3
  BY <1>1, <1>7
<1>9. end = v3
  BY DEF v3
<1>10. HandleEvent(three, <<>>, handler, "OK", state) =
         [code  |-> IF end.done THEN end.code
                    ELSE IF end.found THEN "OK" ELSE "OK",
          calls |-> end.calls,
          state |-> end.state]
  BY <1>8, <1>9, Zenon DEF HandleEvent, all, T
<1> QED BY <1>10

-----------------------------------------------------------------------------
(* The visits of the three handlers.                                       *)

Requests == SessionTypes \cup {"timeout"}

Restores(requested) == requested \in {"DEFAULT", "timeout"}

SwitchCode(requested, switch) ==
  IF requested = "PROGRAMMING" /\ SwitchEnabled THEN switch ELSE "OK"

HandlerTable(requested, switch, f, answer) ==
  [r \in Handlers |-> [link \in Links |->
     CASE r = "session" -> SessionHandler(requested, switch, link)
       [] r = "link"    -> LinkHandler(requested, f, link)
       [] r = "custom"  -> CustomHandler(answer, link)]]

(* How a turn ends: the iteration's end, the code and the link.            *)
Ends(acc, done, c, link) ==
  /\ acc.done \in BOOLEAN
  /\ acc.done <=> done
  /\ acc.code = c
  /\ acc.state = link

LEMMA SetBitrateType ==
  ASSUME NEW link \in Links, NEW f, NEW m \in Bytes
  PROVE  /\ SetBitrate(link, Baudrate(m), f).code \in {"OK", "NRC"}
         /\ SetBitrate(link, Baudrate(m), f).link \in Links
  BY DEF SetBitrate, Links

LEMMA DefaultIsABaudrate ==
  DefaultBitrate = Baudrate("CAN_500000") /\ "CAN_500000" \in Bytes
  BY DEF DefaultBitrate, Baudrate, Bytes, CanModifiers

LEMMA VisitFields ==
  ASSUME NEW acc, acc.done = FALSE, NEW h, NEW r
  PROVE  Ends(Visit(acc, h, r, TRUE), Consumes(h, TRUE) \/ VisitCode(h) # "OK",
              VisitCode(h), IF Acts(h) THEN h.next ELSE acc.state)
<1> DEFINE d == Consumes(h, TRUE) \/ VisitCode(h) # "OK"
           c == VisitCode(h)
           x == acc.found \/ (Acts(h) /\ h.action = "OK")
           k == IF Acts(h) THEN Append(acc.calls, r) ELSE acc.calls
           s == IF Acts(h) THEN h.next ELSE acc.state
<1>0. PICK v : v = Visit(acc, h, r, TRUE)
  OBVIOUS
<1>1. v = [done |-> d, code |-> c, found |-> x, calls |-> k, state |-> s]
  BY <1>0, Zenon DEF Visit
<1>2. d \in BOOLEAN /\ x \in BOOLEAN
  BY Zenon
<1> HIDE DEF d, c, x, k, s
<1>3. v.done = d /\ v.code = c /\ v.state = s
  BY <1>1, <1>2
<1>4. Ends(v, d, c, s)
  BY <1>2, <1>3, Zenon DEF Ends
<1> QED BY <1>0, <1>4, Zenon DEF d, c, s

LEMMA VisitSession ==
  ASSUME NEW requested \in Requests, NEW switch \in {"reboot", "NRC"}, NEW f,
         NEW answer, NEW acc, acc.done = FALSE, acc.state \in Links
  PROVE  Ends(Turn(acc, HandlerTable(requested, switch, f, answer), "session"),
              SwitchCode(requested, switch) # "OK",
              SwitchCode(requested, switch), acc.state)
<1> DEFINE h == HandlerTable(requested, switch, f, answer)["session"][acc.state]
           c == SwitchCode(requested, switch)
<1>1. h = [type |-> TRUE, check |-> "OK", apply |-> TRUE, action |-> c,
           consume |-> "no", next |-> acc.state]
  BY DEF HandlerTable, Handlers, SessionHandler, Acting, SwitchCode
<1>2. c \in {"OK", "NRC", "reboot"}
  BY DEF SwitchCode
<1> HIDE DEF h, c
<1>3. Acts(h) /\ VisitCode(h) = c /\ ~Consumes(h, TRUE)
  BY <1>1, <1>2 DEF Acts, VisitCode, Consumes
<1>4. Ends(Visit(acc, h, "session", TRUE), Consumes(h, TRUE) \/ VisitCode(h) # "OK",
           VisitCode(h), IF Acts(h) THEN h.next ELSE acc.state)
  BY VisitFields
<1>5. Turn(acc, HandlerTable(requested, switch, f, answer), "session") =
        Visit(acc, h, "session", TRUE)
  BY DEF Turn, h
<1> QED BY <1>1, <1>3, <1>4, <1>5 DEF Ends, c

LEMMA VisitCustom ==
  ASSUME NEW requested, NEW switch, NEW f, NEW answer \in {"OK", "NRC"},
         NEW acc, acc.done = FALSE, acc.state \in Links
  PROVE  Ends(Turn(acc, HandlerTable(requested, switch, f, answer), "custom"),
              CustomConsumes \/ answer # "OK", answer, acc.state)
<1> DEFINE h == HandlerTable(requested, switch, f, answer)["custom"][acc.state]
<1>1. h = [type |-> TRUE, check |-> "OK", apply |-> TRUE, action |-> answer,
           consume |-> IF CustomConsumes THEN "yes" ELSE "no",
           next |-> acc.state]
  BY DEF HandlerTable, Handlers, CustomHandler, Acting
<1> HIDE DEF h
<1>2. Acts(h) /\ VisitCode(h) = answer /\ (Consumes(h, TRUE) <=> CustomConsumes)
  BY <1>1, SessionAssumption DEF Acts, VisitCode, Consumes
<1>3. Ends(Visit(acc, h, "custom", TRUE), Consumes(h, TRUE) \/ VisitCode(h) # "OK",
           VisitCode(h), IF Acts(h) THEN h.next ELSE acc.state)
  BY VisitFields
<1>4. Turn(acc, HandlerTable(requested, switch, f, answer), "custom") =
        Visit(acc, h, "custom", TRUE)
  BY DEF Turn, h
<1> QED BY <1>1, <1>2, <1>3, <1>4 DEF Ends

LEMMA VisitLink ==
  ASSUME NEW requested \in Requests, NEW switch, NEW f, NEW answer,
         NEW acc, acc.done = FALSE, acc.state \in Links
  PROVE  /\ Restores(requested) =>
              Ends(Turn(acc, HandlerTable(requested, switch, f, answer), "link"),
                   SetBitrate(acc.state, DefaultBitrate, f).code # "OK",
                   SetBitrate(acc.state, DefaultBitrate, f).code,
                   SetBitrate(acc.state, DefaultBitrate, f).link)
         /\ ~Restores(requested) =>
              Ends(Turn(acc, HandlerTable(requested, switch, f, answer), "link"),
                   FALSE, "OK", acc.state)
<1> DEFINE h == HandlerTable(requested, switch, f, answer)["link"][acc.state]
           c == SetBitrate(acc.state, DefaultBitrate, f).code
           l == SetBitrate(acc.state, DefaultBitrate, f).link
<1>0. h = LinkHandler(requested, f, acc.state)
  BY DEF HandlerTable, Handlers
<1>1. Turn(acc, HandlerTable(requested, switch, f, answer), "link") =
        Visit(acc, h, "link", TRUE)
  BY DEF Turn, h
<1> HIDE DEF h
<1>2. Ends(Visit(acc, h, "link", TRUE), Consumes(h, TRUE) \/ VisitCode(h) # "OK",
           VisitCode(h), IF Acts(h) THEN h.next ELSE acc.state)
  BY VisitFields
<1>3. CASE Restores(requested)
  <2>1. h = [type |-> TRUE, check |-> "OK", apply |-> TRUE, action |-> c,
             consume |-> "no", next |-> l]
    BY <1>0, <1>3 DEF Restores, LinkHandler, Acting
  <2>2. c \in {"OK", "NRC"}
    BY SetBitrateType, DefaultIsABaudrate
  <2> HIDE DEF c, l
  <2>3. Acts(h) /\ VisitCode(h) = c /\ ~Consumes(h, TRUE)
    BY <2>1, <2>2 DEF Acts, VisitCode, Consumes
  <2>4. Ends(Visit(acc, h, "link", TRUE), c # "OK", c, l)
    BY <1>2, <2>1, <2>3 DEF Ends
  <2> QED BY <1>1, <1>3, <2>4 DEF c, l
<1>4. CASE ~Restores(requested)
  <2>1. h = [type |-> TRUE, check |-> "OK", apply |-> FALSE, action |-> "OK",
             consume |-> "no", next |-> acc.state]
    BY <1>0, <1>4 DEF Restores, LinkHandler, Passing
  <2>2. ~Acts(h) /\ VisitCode(h) = "OK" /\ ~Consumes(h, TRUE)
    BY <2>1 DEF Acts, VisitCode, Consumes
  <2>3. Ends(Visit(acc, h, "link", TRUE), FALSE, "OK", acc.state)
    BY <1>2, <2>2 DEF Ends
  <2> QED BY <1>1, <1>4, <2>3
<1> QED BY <1>3, <1>4

(* A turn after the end of the iteration changes nothing.                  *)
LEMMA VisitOver ==
  ASSUME NEW acc, acc.done = TRUE, NEW handler, NEW r
  PROVE  Turn(acc, handler, r) = acc
  BY Zenon DEF Turn, Visit

(* Every handler stands somewhere, once.                                   *)
LEMMA OrderOfThree ==
  ASSUME NEW o \in Orders
  PROVE  /\ o \in Seq(Handlers) /\ Len(o) = 3
         /\ \/ o[1] = "session" /\ o[2] = "link" /\ o[3] = "custom"
            \/ o[1] = "session" /\ o[2] = "custom" /\ o[3] = "link"
            \/ o[1] = "link" /\ o[2] = "session" /\ o[3] = "custom"
            \/ o[1] = "link" /\ o[2] = "custom" /\ o[3] = "session"
            \/ o[1] = "custom" /\ o[2] = "session" /\ o[3] = "link"
            \/ o[1] = "custom" /\ o[2] = "link" /\ o[3] = "session"
<1>1. o \in Seq(Handlers) /\ Len(o) = 3 /\ ToSet(o) = Handlers
  BY SessionAssumption
<1>2. DOMAIN o = 1 .. 3
  BY <1>1
<1>3. ToSet(o) = {o[i] : i \in DOMAIN o}
  BY DEF ToSet
<1>4. \A i \in DOMAIN o : i = 1 \/ i = 2 \/ i = 3
  BY <1>2
<1>5. \A h \in Handlers : h = o[1] \/ h = o[2] \/ h = o[3]
  BY <1>1, <1>3, <1>4
<1> QED BY <1>1, <1>5 DEF Handlers

(* Acc follows from acc by a visit of r: sc and sl are the code and the    *)
(* link of SetBitrate on the link the event found.                         *)
TurnTo(acc, next, r, requested, switch, answer, start, sc, sl) ==
  /\ acc.done = TRUE => next = acc
  /\ acc.done = FALSE /\ acc.state \in Links /\ r = "session" =>
       Ends(next, SwitchCode(requested, switch) # "OK",
            SwitchCode(requested, switch), acc.state)
  /\ acc.done = FALSE /\ acc.state \in Links /\ r = "custom" =>
       Ends(next, CustomConsumes \/ answer # "OK", answer, acc.state)
  /\ acc.done = FALSE /\ acc.state = start /\ r = "link" /\ Restores(requested) =>
       Ends(next, sc # "OK", sc, sl)
  /\ acc.done = FALSE /\ acc.state = start /\ r = "link" /\ ~Restores(requested) =>
       Ends(next, FALSE, "OK", start)

LEMMA TurnLeads ==
  ASSUME NEW requested \in Requests, NEW switch \in {"reboot", "NRC"}, NEW f,
         NEW answer \in {"OK", "NRC"}, NEW start \in Links, NEW acc,
         NEW r \in Handlers
  PROVE  TurnTo(acc, Turn(acc, HandlerTable(requested, switch, f, answer), r),
                r, requested, switch, answer, start,
                SetBitrate(start, DefaultBitrate, f).code,
                SetBitrate(start, DefaultBitrate, f).link)
<1> DEFINE H == HandlerTable(requested, switch, f, answer)
<1> HIDE DEF H
<1>1. acc.done = TRUE => Turn(acc, H, r) = acc
  BY VisitOver
<1>2. acc.done = FALSE /\ acc.state \in Links /\ r = "session" =>
       Ends(Turn(acc, H, r), SwitchCode(requested, switch) # "OK",
            SwitchCode(requested, switch), acc.state)
  BY VisitSession, Zenon DEF H
<1>3. acc.done = FALSE /\ acc.state \in Links /\ r = "custom" =>
       Ends(Turn(acc, H, r), CustomConsumes \/ answer # "OK", answer, acc.state)
  BY VisitCustom, Zenon DEF H
<1>4. ASSUME acc.done = FALSE, acc.state = start, r = "link"
      PROVE  /\ Restores(requested) =>
                  Ends(Turn(acc, H, r),
                       SetBitrate(start, DefaultBitrate, f).code # "OK",
                       SetBitrate(start, DefaultBitrate, f).code,
                       SetBitrate(start, DefaultBitrate, f).link)
             /\ ~Restores(requested) => Ends(Turn(acc, H, r), FALSE, "OK", start)
  <2>1. acc.state \in Links
    BY <1>4
  <2> QED BY <1>4, <2>1, VisitLink, Zenon DEF H
<1> QED BY <1>1, <1>2, <1>3, <1>4, Zenon DEF TurnTo, H

(* What a session event leaves behind.                                     *)
LEMMA EventResult ==
  ASSUME order \in Orders, Link \in Links,
         NEW requested \in Requests, NEW switch \in {"reboot", "NRC"}, NEW f,
         NEW answer \in {"OK", "NRC"},
         NEW result, result = SessionEvent(requested, switch, f, answer),
         NEW s, s = SetBitrate(Link, DefaultBitrate, f)
  PROVE  /\ result.code \in {"OK", "NRC", "reboot"}
         /\ result.state = Link \/ result.state = s.link
         /\ ~Restores(requested) => result.state = Link
         /\ ~CustomConsumes /\ Restores(requested)
              /\ (result.code = "OK" \/ answer = "OK") => result.state = s.link
         /\ order[3] = "link" /\ result.code = "NRC" /\ s.code = "OK" =>
              result.state = Link
<1> DEFINE H == HandlerTable(requested, switch, f, answer)
           v0 == Begin(Link)
           v1 == Turn(v0, H, order[1])
           v2 == Turn(v1, H, order[2])
           v3 == Turn(v2, H, order[3])
<1>1. PICK sc, sl : sc = s.code /\ sl = s.link
  OBVIOUS
<1>2. sc \in {"OK", "NRC"} /\ sl \in Links
  <2>1. s = SetBitrate(Link, Baudrate("CAN_500000"), f) /\ "CAN_500000" \in Bytes
    BY DefaultIsABaudrate, Zenon
  <2>2. s.code \in {"OK", "NRC"} /\ s.link \in Links
    BY <2>1, SetBitrateType, Zenon
  <2> QED BY <1>1, <2>2
<1>3. order \in Seq(Handlers) /\ Len(order) = 3
  BY OrderOfThree
<1>4. order[1] \in Handlers /\ order[2] \in Handlers /\ order[3] \in Handlers
  BY OrderOfThree DEF Handlers
<1>5. SessionEvent(requested, switch, f, answer) =
        HandleEvent(order, <<>>, H, "OK", Link)
  BY DEF SessionEvent, HandlerTable
<1> HIDE DEF H
<1>6. result.code = (IF v3.done THEN v3.code ELSE "OK") /\ result.state = v3.state
  <2>1. PICK end : end = v3
    OBVIOUS
  <2>2. HandleEvent(order, <<>>, H, "OK", Link) =
          [code  |-> IF end.done THEN end.code ELSE "OK",
           calls |-> end.calls,
           state |-> end.state]
    BY <1>3, <2>1, ThreeTurns, ZenonT(60)
  <2> HIDE DEF v3
  <2> QED BY <1>5, <2>1, <2>2
<1>7. TurnTo(v0, v1, order[1], requested, switch, answer, Link, sc, sl)
  BY <1>1, <1>4, TurnLeads, Zenon DEF H
<1> HIDE DEF v1
<1>8. TurnTo(v1, v2, order[2], requested, switch, answer, Link, sc, sl)
  BY <1>1, <1>4, TurnLeads, Zenon DEF H
<1> HIDE DEF v2
<1>9. TurnTo(v2, v3, order[3], requested, switch, answer, Link, sc, sl)
  BY <1>1, <1>4, TurnLeads, Zenon DEF H
<1> HIDE DEF v3
<1>10. v0.done = FALSE /\ v0.state = Link /\ v0.code = "OK"
  BY DEF Begin
<1> HIDE DEF v0
<1>11. SwitchCode(requested, switch) \in {"OK", "NRC", "reboot"}
  BY DEF SwitchCode
<1>12. Restores(requested) => SwitchCode(requested, switch) = "OK"
  BY DEF SwitchCode, Restores
<1>13. CASE order[1] = "session" /\ order[2] = "link" /\ order[3] = "custom"
  BY <1>1, <1>2, <1>6, <1>7, <1>8, <1>9, <1>10, <1>11, <1>12, <1>13 DEF TurnTo, Ends
<1>14. CASE order[1] = "session" /\ order[2] = "custom" /\ order[3] = "link"
  BY <1>1, <1>2, <1>6, <1>7, <1>8, <1>9, <1>10, <1>11, <1>12, <1>14 DEF TurnTo, Ends
<1>15. CASE order[1] = "link" /\ order[2] = "session" /\ order[3] = "custom"
  BY <1>1, <1>2, <1>6, <1>7, <1>8, <1>9, <1>10, <1>11, <1>12, <1>15 DEF TurnTo, Ends
<1>16. CASE order[1] = "link" /\ order[2] = "custom" /\ order[3] = "session"
  BY <1>1, <1>2, <1>6, <1>7, <1>8, <1>9, <1>10, <1>11, <1>12, <1>16 DEF TurnTo, Ends
<1>17. CASE order[1] = "custom" /\ order[2] = "session" /\ order[3] = "link"
  BY <1>1, <1>2, <1>6, <1>7, <1>8, <1>9, <1>10, <1>11, <1>12, <1>17 DEF TurnTo, Ends
<1>18. CASE order[1] = "custom" /\ order[2] = "link" /\ order[3] = "session"
  BY <1>1, <1>2, <1>6, <1>7, <1>8, <1>9, <1>10, <1>11, <1>12, <1>18 DEF TurnTo, Ends
<1> QED BY <1>13, <1>14, <1>15, <1>16, <1>17, <1>18, OrderOfThree

-----------------------------------------------------------------------------
(* The inductive invariant: besides the properties themselves, a controller *)
(* no call of which has failed is running, and neither has one whose        *)
(* can_start never fails been left stopped.                                 *)
SessionInv ==
  /\ TypeOK
  /\ faults = 0 => can = "started"
  /\ "start" \notin CanFaults => can = "started"
  /\ ~CustomConsumes => DefaultSessionDefaultBitrate

(* A change of the bit rate, by what it was asked for and what failed.     *)
LEMMA SetBitrateResult ==
  ASSUME TypeOK, NEW m \in Bytes, NEW f \in {"none"} \cup CanFaults,
         NEW s, s = SetBitrate(Link, Baudrate(m), f)
  PROVE  /\ s.code \in {"OK", "NRC"}
         /\ s.link.bitrate \in {Baudrate(x) : x \in CanModifiers}
         /\ s.link.can \in {"started", "stopped"}
         /\ s.code = "NRC" /\ f # "start" => s.link = Link
         /\ can = "started" /\ f # "start" => s.link.can = "started"
         /\ s.code = "OK" => s.link = [bitrate |-> Baudrate(m), can |-> "started"]
         /\ can = "started" /\ f = "none" /\ Baudrate(m) # 0 => s.code = "OK"
<1>1. bitrate \in {Baudrate(x) : x \in CanModifiers}
  BY DEF TypeOK
<1>2. Baudrate(m) # 0 => Baudrate(m) \in {Baudrate(x) : x \in CanModifiers}
  BY DEF Baudrate, Bytes
<1>3. f # "stop" /\ f # "set" /\ f # "start" <=> f = "none"
  BY SessionAssumption
<1>4. can \in {"started", "stopped"}
  BY DEF TypeOK
<1>5. Link.bitrate = bitrate /\ Link.can = can
  BY DEF Link
<1> DEFINE B == Baudrate(m)
           Rates == {Baudrate(x) : x \in CanModifiers}
<1> HIDE DEF B, Rates
<1>6. s = SetBitrate(Link, B, f)
  BY DEF B
<1>7. B # 0 => B \in Rates
  BY <1>2 DEF B, Rates
<1>8. bitrate \in Rates
  BY <1>1 DEF Rates
<1>9. /\ s.code \in {"OK", "NRC"}
      /\ s.link.bitrate \in Rates
      /\ s.link.can \in {"started", "stopped"}
      /\ s.code = "NRC" /\ f # "start" => s.link = Link
      /\ can = "started" /\ f # "start" => s.link.can = "started"
      /\ s.code = "OK" => s.link = [bitrate |-> B, can |-> "started"]
      /\ can = "started" /\ f = "none" /\ B # 0 => s.code = "OK"
  BY <1>3, <1>4, <1>5, <1>6, <1>7, <1>8 DEF SetBitrate
<1> QED BY <1>9 DEF B, Rates

LEMMA LinkIsALink ==
  ASSUME TypeOK
  PROVE  Link \in Links
  BY DEF TypeOK, Link, Links, Bytes

LEMMA DefaultIsARate ==
  DefaultBitrate \in {Baudrate(x) : x \in CanModifiers} /\ DefaultBitrate # 0
  BY DEF DefaultBitrate, Baudrate, CanModifiers

(* A reset and the power-on it leads to.                                   *)
LEMMA PowerOnStep ==
  ASSUME SessionInv, PowerOn
  PROVE  SessionInv'
  BY DefaultIsARate DEF SessionInv, TypeOK, PowerOn, SessionTypes, Bytes,
     DefaultSessionDefaultBitrate

(* What a session event of either kind leaves on the link, in terms of the *)
(* variables.                                                              *)
LEMMA EventOnLink ==
  ASSUME SessionInv, NEW requested \in Requests,
         NEW switch \in {"reboot", "NRC"}, NEW f \in {"none"} \cup CanFaults,
         NEW answer \in {"OK", "NRC"},
         NEW result, result = SessionEvent(requested, switch, f, answer)
  PROVE  /\ result.code \in {"OK", "NRC", "reboot"}
         /\ result.state.bitrate \in {Baudrate(x) : x \in CanModifiers}
         /\ result.state.can \in {"started", "stopped"}
         /\ can = "started" /\ f # "start" => result.state.can = "started"
         /\ ~Restores(requested) =>
              result.state.bitrate = bitrate /\ result.state.can = can
         /\ \/ result.state.bitrate = bitrate /\ result.state.can = can
            \/ result.state.bitrate = DefaultBitrate
         /\ ~CustomConsumes /\ Restores(requested)
              /\ (result.code = "OK" \/ answer = "OK")
              /\ f = "none" /\ can = "started" =>
                result.state.bitrate = DefaultBitrate /\ result.state.can = "started"
         /\ order[3] = "link" /\ result.code = "NRC" /\ f = "none"
              /\ can = "started" =>
                result.state.bitrate = bitrate /\ result.state.can = can
<1>1. PICK s : s = SetBitrate(Link, DefaultBitrate, f)
  OBVIOUS
<1>2. TypeOK /\ order \in Orders /\ Link \in Links
  BY LinkIsALink DEF SessionInv, TypeOK
<1>3. s = SetBitrate(Link, Baudrate("CAN_500000"), f) /\ "CAN_500000" \in Bytes
  BY <1>1, DefaultIsABaudrate, Zenon
<1>4. /\ s.code \in {"OK", "NRC"}
      /\ s.link.bitrate \in {Baudrate(x) : x \in CanModifiers}
      /\ s.link.can \in {"started", "stopped"}
      /\ s.code = "NRC" /\ f # "start" => s.link = Link
      /\ can = "started" /\ f # "start" => s.link.can = "started"
      /\ s.code = "OK" => s.link = [bitrate |-> Baudrate("CAN_500000"), can |-> "started"]
      /\ can = "started" /\ f = "none" /\ Baudrate("CAN_500000") # 0 => s.code = "OK"
  BY <1>2, <1>3, SetBitrateResult
<1>5. Baudrate("CAN_500000") # 0 /\ Baudrate("CAN_500000") = DefaultBitrate
  BY DefaultIsARate, DefaultIsABaudrate
<1>6. /\ result.code \in {"OK", "NRC", "reboot"}
      /\ result.state = Link \/ result.state = s.link
      /\ ~Restores(requested) => result.state = Link
      /\ ~CustomConsumes /\ Restores(requested)
              /\ (result.code = "OK" \/ answer = "OK") => result.state = s.link
      /\ order[3] = "link" /\ result.code = "NRC" /\ s.code = "OK" =>
              result.state = Link
  BY <1>1, <1>2, EventResult
<1>7. Link.bitrate = bitrate /\ Link.can = can
  BY DEF Link
<1>8. s.link = Link \/ s.link.bitrate = DefaultBitrate
  BY <1>3, <1>5, <1>7 DEF SetBitrate
<1>9. /\ bitrate \in {Baudrate(x) : x \in CanModifiers}
      /\ can \in {"started", "stopped"}
  BY <1>2 DEF TypeOK
<1> QED BY <1>4, <1>5, <1>6, <1>7, <1>8, <1>9

(* A fault is counted, and none means that nothing failed.                 *)
LEMMA FaultCounted ==
  ASSUME faults \in 0 .. MaxFaults, NEW f \in {"none"} \cup CanFaults, Fault(f)
  PROVE  /\ faults' \in 0 .. MaxFaults
         /\ faults' = faults => f = "none"
         /\ faults' = 0 => faults = 0 /\ f = "none"
  BY SessionAssumption DEF Fault

(* DiagnosticSessionControl, unless it reboots.                            *)
LEMMA DiagSessCtrlStep ==
  ASSUME SessionInv, NEW requested \in SessionTypes, can = "started",
         NEW switch \in {"reboot", "NRC"}, NEW f \in {"none"} \cup CanFaults,
         NEW answer \in {"OK", "NRC"},
         NEW result, result = SessionEvent(requested, switch, f, answer),
         result.code # "reboot",
         Fault(f),
         code' = result.code,
         bitrate' = result.state.bitrate,
         can' = result.state.can,
         sessionType' = IF result.code = "OK" THEN requested ELSE sessionType,
         UNCHANGED <<order, modifier, modifier_set, byte2, reset>>
  PROVE  /\ SessionInv'
         /\ code' = "NRC" /\ faults' = faults /\ order[3] = "link" =>
              bitrate' = bitrate /\ can' = can
         /\ ~CustomConsumes /\ sessionType # "DEFAULT" /\ sessionType' = "DEFAULT"
              /\ faults' = faults => bitrate' = DefaultBitrate /\ can' = "started"
<1>1. requested \in Requests
  BY DEF Requests
<1>2. /\ result.code \in {"OK", "NRC", "reboot"}
      /\ result.state.bitrate \in {Baudrate(x) : x \in CanModifiers}
      /\ result.state.can \in {"started", "stopped"}
      /\ can = "started" /\ f # "start" => result.state.can = "started"
      /\ ~Restores(requested) =>
           result.state.bitrate = bitrate /\ result.state.can = can
      /\ \/ result.state.bitrate = bitrate /\ result.state.can = can
         \/ result.state.bitrate = DefaultBitrate
      /\ ~CustomConsumes /\ Restores(requested)
           /\ (result.code = "OK" \/ answer = "OK")
           /\ f = "none" /\ can = "started" =>
             result.state.bitrate = DefaultBitrate /\ result.state.can = "started"
      /\ order[3] = "link" /\ result.code = "NRC" /\ f = "none"
           /\ can = "started" =>
             result.state.bitrate = bitrate /\ result.state.can = can
  BY <1>1, EventOnLink
<1>3. /\ faults' \in 0 .. MaxFaults
      /\ faults' = faults => f = "none"
      /\ faults' = 0 => faults = 0 /\ f = "none"
  BY FaultCounted DEF SessionInv, TypeOK
<1>4. TypeOK'
  BY <1>2, <1>3 DEF SessionInv, TypeOK
<1>5. faults' = 0 => can' = "started"
  BY <1>2, <1>3
<1>6. "start" \notin CanFaults => can' = "started"
  BY <1>2
<1>7. Restores(requested) <=> requested = "DEFAULT"
  BY DEF Restores, SessionTypes
<1>8. (~CustomConsumes => DefaultSessionDefaultBitrate)'
  BY <1>2, <1>3, <1>5, <1>7 DEF SessionInv, DefaultSessionDefaultBitrate
<1>9. code' = "NRC" /\ faults' = faults /\ order[3] = "link" =>
        bitrate' = bitrate /\ can' = can
  BY <1>2, <1>3
<1>10. ~CustomConsumes /\ sessionType # "DEFAULT" /\ sessionType' = "DEFAULT"
         /\ faults' = faults => bitrate' = DefaultBitrate /\ can' = "started"
  BY <1>2, <1>3, <1>7
<1> QED BY <1>4, <1>5, <1>6, <1>8, <1>9, <1>10 DEF SessionInv

LEMMA SessionTimeoutStep ==
  ASSUME SessionInv, SessionTimeout
  PROVE  /\ SessionInv'
         /\ code' # "NRC"
         /\ ~CustomConsumes /\ "start" \notin CanFaults /\ faults' = faults =>
              bitrate' = DefaultBitrate /\ can' = "started"
<1>1. PICK f \in {"none"} \cup CanFaults :
         LET result == SessionEvent("timeout", "NRC", f, "OK")
         IN  /\ Fault(f)
             /\ bitrate' = result.state.bitrate
             /\ can' = result.state.can
  BY DEF SessionTimeout
<1>2. PICK result : result = SessionEvent("timeout", "NRC", f, "OK")
  OBVIOUS
<1>3. Fault(f) /\ bitrate' = result.state.bitrate /\ can' = result.state.can
  BY <1>1, <1>2, Zenon
<1>4. /\ sessionType' = "DEFAULT" /\ code' = "none"
      /\ UNCHANGED <<order, modifier, modifier_set, byte2, reset>>
  BY DEF SessionTimeout
<1>5. "timeout" \in Requests /\ Restores("timeout")
  BY DEF Requests, Restores
<1>6. /\ result.state.bitrate \in {Baudrate(x) : x \in CanModifiers}
      /\ result.state.can \in {"started", "stopped"}
      /\ can = "started" /\ f # "start" => result.state.can = "started"
      /\ ~CustomConsumes /\ f = "none" /\ can = "started" =>
           result.state.bitrate = DefaultBitrate /\ result.state.can = "started"
  BY <1>2, <1>5, EventOnLink
<1>7. /\ faults' \in 0 .. MaxFaults
      /\ faults' = faults => f = "none"
      /\ faults' = 0 => faults = 0 /\ f = "none"
  BY <1>3, FaultCounted DEF SessionInv, TypeOK
<1>8. TypeOK'
  BY <1>3, <1>4, <1>6, <1>7 DEF SessionInv, TypeOK, SessionTypes
<1>9. (faults = 0 => can = "started")'
  BY <1>3, <1>6, <1>7 DEF SessionInv
<1>10. "start" \notin CanFaults => can' = "started"
  BY <1>3, <1>6 DEF SessionInv
<1>11. (~CustomConsumes => DefaultSessionDefaultBitrate)'
  BY <1>3, <1>6, <1>7 DEF SessionInv, DefaultSessionDefaultBitrate
<1>12. ~CustomConsumes /\ "start" \notin CanFaults /\ faults' = faults =>
         bitrate' = DefaultBitrate /\ can' = "started"
  BY <1>3, <1>6, <1>7 DEF SessionInv
<1> QED BY <1>4, <1>8, <1>9, <1>10, <1>11, <1>12 DEF SessionInv

LEMMA TransitionModeStep ==
  ASSUME SessionInv, TransitionMode
  PROVE  /\ SessionInv'
         /\ code' = "NRC" /\ faults' = faults => bitrate' = bitrate /\ can' = can
<1>1. CASE /\ ~modifier_set \/ sessionType = "DEFAULT"
           /\ code' = "NRC"
           /\ UNCHANGED <<bitrate, can, faults>>
  BY <1>1 DEF TransitionMode, SessionInv, TypeOK, DefaultSessionDefaultBitrate
<1>2. CASE /\ modifier_set /\ sessionType # "DEFAULT"
           /\ \E f \in {"none"} \cup CanFaults :
                LET result == SetBitrate(Link, Baudrate(byte2), f)
                IN  /\ Fault(f)
                    /\ code' = result.code
                    /\ bitrate' = result.link.bitrate
                    /\ can' = result.link.can
  <2>1. PICK f \in {"none"} \cup CanFaults :
                LET result == SetBitrate(Link, Baudrate(byte2), f)
                IN  /\ Fault(f)
                    /\ code' = result.code
                    /\ bitrate' = result.link.bitrate
                    /\ can' = result.link.can
    BY <1>2
  <2>2. PICK s : s = SetBitrate(Link, Baudrate(byte2), f)
    OBVIOUS
  <2>3. /\ Fault(f) /\ code' = s.code
        /\ bitrate' = s.link.bitrate /\ can' = s.link.can
    BY <2>1, <2>2, Zenon
  <2>4. TypeOK /\ byte2 \in Bytes
    BY DEF SessionInv, TypeOK
  <2>5. /\ s.code \in {"OK", "NRC"}
        /\ s.link.bitrate \in {Baudrate(x) : x \in CanModifiers}
        /\ s.link.can \in {"started", "stopped"}
        /\ s.code = "NRC" /\ f # "start" => s.link = Link
        /\ can = "started" /\ f # "start" => s.link.can = "started"
    <3>1. PICK m \in Bytes : s = SetBitrate(Link, Baudrate(m), f)
      BY <2>2, <2>4
    <3>2. /\ s.code \in {"OK", "NRC"}
          /\ s.link.bitrate \in {Baudrate(x) : x \in CanModifiers}
          /\ s.link.can \in {"started", "stopped"}
          /\ s.code = "NRC" /\ f # "start" => s.link = Link
          /\ can = "started" /\ f # "start" => s.link.can = "started"
          /\ s.code = "OK" => s.link = [bitrate |-> Baudrate(m), can |-> "started"]
          /\ can = "started" /\ f = "none" /\ Baudrate(m) # 0 => s.code = "OK"
      BY <2>4, <3>1, SetBitrateResult
    <3> QED BY <3>2
  <2>6. /\ faults' \in 0 .. MaxFaults
        /\ faults' = faults => f = "none"
        /\ faults' = 0 => faults = 0 /\ f = "none"
    BY <2>3, FaultCounted DEF SessionInv, TypeOK
  <2>7. /\ can = "started"
        /\ UNCHANGED <<order, sessionType, modifier, modifier_set, byte2, reset>>
    BY DEF TransitionMode
  <2>8. TypeOK'
    BY <2>3, <2>5, <2>6, <2>7 DEF SessionInv, TypeOK
  <2>9. faults' = 0 => can' = "started"
    BY <2>3, <2>5, <2>6, <2>7
  <2>10. "start" \notin CanFaults => can' = "started"
    BY <2>3, <2>5, <2>7
  <2>11. DefaultSessionDefaultBitrate'
    BY <1>2, <2>7 DEF DefaultSessionDefaultBitrate
  <2>12. code' = "NRC" /\ faults' = faults => bitrate' = bitrate /\ can' = can
    BY <2>3, <2>5, <2>6 DEF Link
  <2> QED BY <2>8, <2>9, <2>10, <2>11, <2>12 DEF SessionInv
<1> QED BY <1>1, <1>2 DEF TransitionMode

(* The bit rate is restored by whatever ends a session, as long as no call *)
(* fails in that step: the part of a step that RestoredOnTimeout is about. *)
RestoredStep ==
  /\ sessionType # "DEFAULT" /\ sessionType' = "DEFAULT"
  /\ faults' = faults
  => bitrate' = DefaultBitrate /\ can' = "started"

(* A refused request leaves the link alone: RefusedKeepsLink, for a step.  *)
RefusedStep ==
  code' = "NRC" /\ faults' = faults /\ order[3] = "link" =>
    bitrate' = bitrate /\ can' = can

LEMMA SessionStep ==
  ASSUME SessionInv, [Next]_vars
  PROVE  /\ SessionInv'
         /\ RefusedStep
         /\ ~CustomConsumes /\ "start" \notin CanFaults => RestoredStep
<1>1. CASE UNCHANGED vars
  <2>1. /\ UNCHANGED <<order, sessionType, modifier, modifier_set, bitrate>>
        /\ UNCHANGED <<can, byte2, reset, code, faults>>
    BY <1>1 DEF vars
  <2> QED BY <2>1 DEF SessionInv, TypeOK, DefaultSessionDefaultBitrate,
             RefusedStep, RestoredStep
<1>2. ASSUME NEW requested \in SessionTypes, DiagSessCtrl(requested)
      PROVE  /\ SessionInv'
             /\ RefusedStep
             /\ ~CustomConsumes /\ "start" \notin CanFaults => RestoredStep
  <2>1. can = "started"
    BY <1>2 DEF DiagSessCtrl
  <2>2. PICK switch \in {"reboot", "NRC"}, f \in {"none"} \cup CanFaults,
             answer \in {"OK", "NRC"} :
          LET result == SessionEvent(requested, switch, f, answer)
          IN  \/ /\ result.code = "reboot"
                 /\ PowerOn
              \/ /\ result.code # "reboot"
                 /\ Fault(f)
                 /\ code' = result.code
                 /\ bitrate' = result.state.bitrate
                 /\ can' = result.state.can
                 /\ sessionType' = IF result.code = "OK" THEN requested ELSE sessionType
                 /\ UNCHANGED <<order, modifier, modifier_set, byte2, reset>>
    BY <1>2 DEF DiagSessCtrl
  <2>3. PICK result : result = SessionEvent(requested, switch, f, answer)
    OBVIOUS
  <2>4. CASE PowerOn
    <3>1. code' = "none" /\ can' = "started" /\ bitrate' = DefaultBitrate
      BY <2>4 DEF PowerOn
    <3> QED BY <2>4, <3>1, PowerOnStep DEF RefusedStep, RestoredStep
  <2>5. CASE /\ result.code # "reboot"
             /\ Fault(f)
             /\ code' = result.code
             /\ bitrate' = result.state.bitrate
             /\ can' = result.state.can
             /\ sessionType' = IF result.code = "OK" THEN requested ELSE sessionType
             /\ UNCHANGED <<order, modifier, modifier_set, byte2, reset>>
    <3>1. /\ SessionInv'
          /\ code' = "NRC" /\ faults' = faults /\ order[3] = "link" =>
               bitrate' = bitrate /\ can' = can
          /\ ~CustomConsumes /\ sessionType # "DEFAULT" /\ sessionType' = "DEFAULT"
               /\ faults' = faults => bitrate' = DefaultBitrate /\ can' = "started"
      BY <2>1, <2>2, <2>3, <2>5, DiagSessCtrlStep
    <3> QED BY <3>1 DEF RefusedStep, RestoredStep
  <2> QED BY <2>2, <2>3, <2>4, <2>5, Zenon
<1>3. CASE SessionTimeout
  BY <1>3, SessionTimeoutStep DEF RefusedStep, RestoredStep
<1>4. ASSUME NEW m \in Bytes, VerifyModeTransition(m)
      PROVE  /\ SessionInv'
             /\ RefusedStep
             /\ ~CustomConsumes /\ "start" \notin CanFaults => RestoredStep
  BY <1>4 DEF VerifyModeTransition, SessionInv, TypeOK,
     DefaultSessionDefaultBitrate, RefusedStep, RestoredStep
<1>5. CASE TransitionMode
  <2>1. sessionType' = sessionType
    BY <1>5 DEF TransitionMode
  <2> QED BY <1>5, <2>1, TransitionModeStep DEF RefusedStep, RestoredStep
<1>6. ASSUME NEW b \in Bytes, OtherRequest(b)
      PROVE  /\ SessionInv'
             /\ RefusedStep
             /\ ~CustomConsumes /\ "start" \notin CanFaults => RestoredStep
  BY <1>6 DEF OtherRequest, SessionInv, TypeOK,
     DefaultSessionDefaultBitrate, RefusedStep, RestoredStep
<1>7. ASSUME NEW type \in {"HARD", "SOFT"}, EcuReset(type)
      PROVE  /\ SessionInv'
             /\ RefusedStep
             /\ ~CustomConsumes /\ "start" \notin CanFaults => RestoredStep
  <2>1. /\ code' \in {"OK", "NRC"} /\ reset' \in BOOLEAN
        /\ UNCHANGED <<order, sessionType, modifier, modifier_set, bitrate, can,
                       byte2, faults>>
    BY <1>7 DEF EcuReset
  <2> QED BY <2>1 DEF SessionInv, TypeOK, DefaultSessionDefaultBitrate,
             RefusedStep, RestoredStep
<1>8. CASE DoScheduledReset
  <2>1. PowerOn
    BY <1>8 DEF DoScheduledReset
  <2>2. code' = "none" /\ can' = "started" /\ bitrate' = DefaultBitrate
    BY <2>1 DEF PowerOn
  <2> QED BY <2>1, <2>2, PowerOnStep DEF RefusedStep, RestoredStep
<1> QED BY <1>1, <1>2, <1>3, <1>4, <1>5, <1>6, <1>7, <1>8 DEF Next

LEMMA SessionInit == Init => SessionInv
<1> SUFFICES ASSUME Init PROVE SessionInv
  OBVIOUS
<1>1. bitrate \in {Baudrate(m) : m \in CanModifiers}
  BY DefaultIsARate DEF Init
<1>2. faults \in 0 .. MaxFaults
  BY SessionAssumption DEF Init
<1>3. TypeOK
  BY <1>1, <1>2 DEF Init, TypeOK, SessionTypes, Bytes
<1>4. DefaultSessionDefaultBitrate /\ can = "started"
  BY DEF Init, DefaultSessionDefaultBitrate
<1> QED BY <1>3, <1>4 DEF SessionInv

LEMMA SessionInvariant == Spec => []SessionInv
<1>1. SessionInv /\ [Next]_vars => SessionInv'
  BY SessionStep
<1> QED BY SessionInit, <1>1, PTL DEF Spec

(* In every order of the handlers, with any failures of can_stop and of    *)
(* can_set_bitrate, uds_set_can_bitrate leaves the controller running; the *)
(* types hold.  A can_start that fails is the exception the code has.      *)
THEOREM LinkStaysUp ==
  ASSUME "start" \notin CanFaults
  PROVE  Spec => []LinkOK
<1>1. SessionInv => LinkOK
  BY DEF SessionInv, LinkOK, CanStaysStarted
<1> QED BY SessionInvariant, <1>1, PTL

(* In every order of the handlers a server in the default session is found *)
(* at the default bit rate, unless a CAN call failed or the application    *)
(* consumes the session events before link_control.c sees them.            *)
THEOREM DefaultSessionIsReachable ==
  ASSUME ~CustomConsumes
  PROVE  Spec => []DefaultSessionDefaultBitrate
<1>1. SessionInv => DefaultSessionDefaultBitrate
  BY DEF SessionInv
<1> QED BY SessionInvariant, <1>1, PTL

(* With the handler of link_control.c last, no refused request has changed *)
(* the link, whatever the other two answer.                                *)
THEOREM RefusalKeepsLink == Spec => RefusedKeepsLink
<1>1. SessionInv /\ [Next]_vars =>
        [code' = "NRC" /\ faults' = faults /\ order[Len(order)] = "link" =>
           bitrate' = bitrate /\ can' = can]_vars
  <2> SUFFICES ASSUME SessionInv, [Next]_vars,
                      code' = "NRC", faults' = faults, order[Len(order)] = "link"
               PROVE  bitrate' = bitrate /\ can' = can
    OBVIOUS
  <2>1. Len(order) = 3
    BY OrderOfThree DEF SessionInv, TypeOK
  <2>2. RefusedStep
    BY SessionStep
  <2> QED BY <2>1, <2>2 DEF RefusedStep
<1> QED BY SessionInvariant, <1>1, PTL DEF Spec, RefusedKeepsLink

(* A session timeout, and everything else that ends a session, restores    *)
(* the default bit rate if no CAN call fails meanwhile, whatever failed    *)
(* before; this too in every order of the handlers.                        *)
THEOREM TimeoutRestores ==
  ASSUME ~CustomConsumes, "start" \notin CanFaults
  PROVE  Spec => RestoredOnTimeout
<1>1. SessionInv /\ [Next]_vars => [RestoredStep]_vars
  BY SessionStep
<1>2. SessionInv /\ [Next]_vars =>
        [/\ sessionType # "DEFAULT" /\ sessionType' = "DEFAULT"
         /\ faults' = faults
         => bitrate' = DefaultBitrate /\ can' = "started"]_vars
  BY <1>1 DEF RestoredStep
<1> QED BY SessionInvariant, <1>2, PTL DEF Spec, RestoredOnTimeout
=============================================================================
