-------------------------- MODULE UdsRegistryProofs --------------------------
(***************************************************************************)
(* Proofs about the dynamic registrations, for a heap of any size and any  *)
(* number of ids, items and data ids: every block has one owner and every  *)
(* path frees exactly what nothing refers to any more; the ids are unique, *)
(* the 0x2C handler's list names exactly its own registrations and the     *)
(* application keeps what it registered.                                   *)
(***************************************************************************)
EXTENDS UdsRegistry, FiniteSetTheorems, SequenceTheorems,
        WellFoundedInduction, TLAPS

(* The places of a set that come before one of them.                       *)
Below(S, i) == {j \in S : j < i}

LEMMA LeastPlace ==
  ASSUME NEW S \in SUBSET Nat, S # {}
  PROVE  \E x \in S : \A y \in S : x <= y
<1>1. \A x, y \in Nat : <<y, x>> \in OpToRel(<, Nat) <=> y < x
  BY DEF OpToRel
<1>2. PICK R : IsWellFoundedOn(R, Nat) /\ \A x, y \in Nat : <<y, x>> \in R <=> y < x
  BY <1>1, NatLessThanWellFounded, Zenon
<1>3. PICK x \in S : \A y \in S : ~(<<y, x>> \in R)
  BY <1>2, WFMin
<1>4. ASSUME NEW y \in S PROVE x <= y
  <2>1. ~(y < x)
    BY <1>2, <1>3
  <2> QED BY <2>1
<1> QED BY <1>3, <1>4

(* First: a member of the set, and 0 only if there is none.                *)
LEMMA FirstIsAMember ==
  ASSUME NEW S \in SUBSET (Nat \ {0})
  PROVE  /\ S # {} => First(S) \in S
         /\ First(S) # 0 => First(S) \in S
         /\ First(S) = 0 => S = {}
<1>1. CASE S = {}
  BY <1>1 DEF First, None
<1>2. CASE S # {}
  <2>1. \E x \in S : \A y \in S : x <= y
    BY <1>2, LeastPlace
  <2>2. First(S) \in S
    BY <1>2, <2>1, Zenon DEF First
  <2> QED BY <1>2, <2>2
<1> QED BY <1>1, <1>2

LEMMA BelowGrows ==
  ASSUME NEW n \in Nat, NEW S \in SUBSET (1 .. n)
  PROVE  /\ IsFiniteSet(S) /\ Cardinality(S) \in Nat
         /\ \A i \in Nat : IsFiniteSet(Below(S, i)) /\ Cardinality(Below(S, i)) \in Nat
         /\ \A i \in S : Cardinality(Below(S, i)) < Cardinality(S)
         /\ \A i, j \in S :
              i < j => Cardinality(Below(S, i)) < Cardinality(Below(S, j))
<1>1. IsFiniteSet(S)
  <2>1. IsFiniteSet(1 .. n)
    BY FS_Interval, 1 \in Int, n \in Int
  <2> QED BY <2>1, FS_Subset, Zenon
<1>2. ASSUME NEW T \in SUBSET S
      PROVE  IsFiniteSet(T) /\ Cardinality(T) \in Nat
  BY <1>1, FS_Subset, FS_CardinalityType
<1>3. ASSUME NEW i \in S, NEW T \in SUBSET S, i \in T, Below(S, i) \subseteq T
      PROVE  Cardinality(Below(S, i)) < Cardinality(T)
  <2>1. Below(S, i) \subseteq S /\ i \notin Below(S, i)
    BY DEF Below
  <2>2. Below(S, i) # T
    BY <1>3, <2>1
  <2>3. IsFiniteSet(T) /\ Cardinality(T) \in Nat /\ Cardinality(Below(S, i)) \in Nat
    BY <1>2, <2>1
  <2> QED BY <1>3, <2>2, <2>3, FS_Subset
<1>4. ASSUME NEW i \in S, NEW j \in S, i < j
      PROVE  Cardinality(Below(S, i)) < Cardinality(Below(S, j))
  <2>1. \A x \in S : x \in Int
    OBVIOUS
  <2>2. ASSUME NEW x \in Below(S, i) PROVE x \in Below(S, j)
    BY <1>4, <2>1 DEF Below
  <2>3. Below(S, j) \subseteq S /\ i \in Below(S, j)
    BY <1>4 DEF Below
  <2> QED BY <1>3, <2>2, <2>3
<1>5. \A i \in Nat : Below(S, i) \subseteq S
  BY DEF Below
<1> QED BY <1>1, <1>2, <1>3, <1>4, <1>5

(* Nth(S, 1), Nth(S, 2), ... are the members of S, each of them once.      *)
Counted(S) ==
  /\ \A k \in 1 .. Cardinality(S) : Nth(S, k) \in S
  /\ \A k, l \in 1 .. Cardinality(S) : Nth(S, k) = Nth(S, l) => k = l
  /\ \A i \in S : \E k \in 1 .. Cardinality(S) : Nth(S, k) = i

LEMMA NthCounts ==
  ASSUME NEW n \in Nat, NEW S \in SUBSET (1 .. n)
  PROVE  Counted(S)
<1> DEFINE C(i) == Cardinality(Below(S, i))
<1>1. /\ Cardinality(S) \in Nat
      /\ \A i \in Nat : C(i) \in Nat /\ IsFiniteSet(Below(S, i))
      /\ \A i \in S : C(i) < Cardinality(S)
      /\ \A i, j \in S : i < j => C(i) < C(j)
  BY BelowGrows
<1>a. \A i : Cardinality(Below(S, i)) = C(i)
  OBVIOUS
<1>b. n + 1 \in Nat /\ \A x \in S : x \in Int /\ 0 < x /\ x < n + 1
  OBVIOUS
<1>c. \A x, i : x \in Below(S, i) <=> x \in S /\ x < i
  BY DEF Below
<1> HIDE DEF C
<1>2. ASSUME NEW k \in 1 .. Cardinality(S)
      PROVE  \E i \in S : C(i) = k - 1
  <2> DEFINE M == {m \in Nat : C(m) >= k}
  <2>1. n + 1 \in M
    <3>1. Below(S, n + 1) = S
      BY <1>b, <1>c, Zenon
    <3>2. C(n + 1) = Cardinality(S)
      BY <1>a, <3>1
    <3> QED BY <1>1, <1>b, <3>2
  <2>2. PICK m \in M : \A y \in M : m <= y
    BY <2>1, LeastPlace
  <2>3. m # 0
    <3>0. \A x \in S : ~(x < 0)
      BY <1>b
    <3>1. Below(S, 0) = {}
      BY <3>0, <1>c, Zenon
    <3>2. C(0) = 0
      BY <1>a, <3>1, FS_EmptySet
    <3> QED BY <2>2, <3>2
  <2>4. m \in Nat /\ m - 1 \in Nat /\ C(m) >= k /\ C(m - 1) < k
    BY <1>1, <2>2, <2>3
  <2>5. m - 1 \in S
    <3>1. SUFFICES ASSUME m - 1 \notin S PROVE FALSE
      OBVIOUS
    <3>2. Below(S, m - 1) = Below(S, m)
      <4>1. \A x \in S : x < m - 1 <=> x < m
        BY <1>b, <2>4, <3>1
      <4>2. \A x : x \in Below(S, m - 1) <=> x \in Below(S, m)
        BY <4>1, <1>c
      <4> QED BY <4>2
    <3>3. C(m - 1) = C(m)
      BY <1>a, <3>2
    <3> QED BY <1>1, <2>4, <3>3
  <2>6. Below(S, m) = Below(S, m - 1) \cup {m - 1} /\ m - 1 \notin Below(S, m - 1)
    <3>1. \A x \in S : x < m <=> x < m - 1 \/ x = m - 1
      BY <1>b, <2>4
    <3>2. ~(m - 1 < m - 1)
      BY <2>4
    <3> QED BY <2>5, <3>1, <3>2, <1>c, Zenon
  <2>7. C(m) = C(m - 1) + 1
    BY <1>1, <1>a, <2>4, <2>6, FS_AddElement
  <2>8. C(m - 1) = k - 1
    BY <1>1, <2>4, <2>7
  <2> QED BY <2>5, <2>8
<1>3. \A k : Nth(S, k) = CHOOSE i \in S : C(i) = k - 1
  BY <1>a DEF Nth, Below
<1>4. ASSUME NEW k \in 1 .. Cardinality(S)
      PROVE  Nth(S, k) \in S /\ C(Nth(S, k)) = k - 1
  BY <1>2, <1>3, Zenon
<1>5. ASSUME NEW k \in 1 .. Cardinality(S), NEW l \in 1 .. Cardinality(S),
             Nth(S, k) = Nth(S, l)
      PROVE  k = l
  <2>1. k - 1 = l - 1
    BY <1>4, <1>5
  <2> QED BY <1>1, <2>1
<1>6. ASSUME NEW i \in S
      PROVE  \E k \in 1 .. Cardinality(S) : Nth(S, k) = i
  <2> DEFINE k == C(i) + 1
  <2>1. C(i) \in Nat /\ C(i) < Cardinality(S)
    BY <1>1, <1>b
  <2>2. k \in 1 .. Cardinality(S) /\ k - 1 = C(i)
    BY <1>1, <2>1
  <2>3. Nth(S, k) \in S /\ C(Nth(S, k)) = C(i)
    BY <1>4, <2>2
  <2> HIDE DEF k
  <2>4. PICK j : j = Nth(S, k)
    OBVIOUS
  <2>5. j \in S /\ C(j) = C(i)
    BY <2>3, <2>4
  <2>6. ~(j < i) /\ ~(i < j)
    BY <1>1, <2>1, <2>5
  <2>7. j = i
    BY <1>b, <2>5, <2>6
  <2> QED BY <2>2, <2>4, <2>7
<1> QED BY <1>4, <1>5, <1>6 DEF Counted

-----------------------------------------------------------------------------
(* The list new has, in some order, what old has at some places; s says    *)
(* which place each element comes from.                                    *)
Picks(s, new, old, places) ==
  /\ s \in [DOMAIN new -> places]
  /\ \A k \in DOMAIN new : new[k] = old[s[k]]
  /\ \A k, l \in DOMAIN new : s[k] = s[l] => k = l
  /\ \A i \in places : \E k \in DOMAIN new : s[k] = i

(* Taking elements off a list keeps the others, each of them once.         *)
LEMMA OnlyPicks ==
  ASSUME NEW T, NEW list \in Seq(T), NEW places \in SUBSET DOMAIN list
  PROVE  /\ Only(list, places) \in Seq(T)
         /\ \E s : Picks(s, Only(list, places), list, places)
<1> DEFINE c == Cardinality(places)
           s == [k \in 1 .. c |-> Nth(places, k)]
           new == [k \in 1 .. c |-> list[Nth(places, k)]]
<1>1. Len(list) \in Nat /\ DOMAIN list = 1 .. Len(list)
      /\ \A i \in 1 .. Len(list) : list[i] \in T
  BY LenProperties, ElementOfSeq
<1>2. places \in SUBSET (1 .. Len(list))
  BY <1>1
<1>3. c \in Nat
  BY <1>1, <1>2, BelowGrows
<1>4. /\ \A k \in 1 .. c : Nth(places, k) \in places
      /\ \A k, l \in 1 .. c : Nth(places, k) = Nth(places, l) => k = l
      /\ \A i \in places : \E k \in 1 .. c : Nth(places, k) = i
  <2>1. Counted(places)
    BY <1>1, <1>2, NthCounts
  <2> QED BY <2>1 DEF Counted
<1>5. Only(list, places) = new
  BY DEF Only
<1> HIDE DEF c
<1>6. new \in [1 .. c -> T]
  BY <1>1, <1>2, <1>4
<1>7. new \in Seq(T)
  BY <1>3, <1>6, SeqDef
<1>8. DOMAIN new = 1 .. c /\ \A k \in 1 .. c : new[k] = list[s[k]] /\ s[k] = Nth(places, k)
  OBVIOUS
<1>9. s \in [1 .. c -> places]
  BY <1>4
<1>10. Picks(s, new, list, places)
  <2> HIDE DEF s, new
  <2>1. \A k, l \in 1 .. c : s[k] = s[l] => k = l
    BY <1>4, <1>8
  <2>2. \A i \in places : \E k \in 1 .. c : s[k] = i
    BY <1>4, <1>8
  <2> QED BY <1>8, <1>9, <2>1, <2>2 DEF Picks
<1> QED BY <1>5, <1>7, <1>10

(* A list left alone, and a list emptied.                                  *)
LEMMA AllOrNothing ==
  ASSUME NEW T, NEW list \in Seq(T)
  PROVE  /\ \E s : Picks(s, list, list, DOMAIN list)
         /\ \E s : Picks(s, <<>>, list, {})
<1>1. Picks([k \in DOMAIN list |-> k], list, list, DOMAIN list)
  BY DEF Picks
<1>2. DOMAIN <<>> = {}
  OBVIOUS
<1>3. Picks([k \in {} |-> k], <<>>, list, {})
  BY <1>2 DEF Picks
<1> QED BY <1>1, <1>3

(* The blocks an allocation may get are free, and no two are the same.     *)
LEMMA FreshBlocks ==
  ASSUME live \subseteq Blocks
  PROVE  /\ Len(FreeBlocks) \in Nat
         /\ DOMAIN FreeBlocks = 1 .. Len(FreeBlocks)
         /\ \A k \in 1 .. Len(FreeBlocks) : FreeBlocks[k] \in Blocks \ live
         /\ \A k, l \in 1 .. Len(FreeBlocks) : FreeBlocks[k] = FreeBlocks[l] => k = l
         /\ Blocks \ live # {} => 1 \in 1 .. Len(FreeBlocks)
<1> DEFINE free == Blocks \ live
           c == Cardinality(free)
<1>1. free \in SUBSET (1 .. NBlocks) /\ NBlocks \in Nat
  BY RegistryAssumption DEF Blocks
<1>2. c \in Nat /\ IsFiniteSet(free)
  BY <1>1, BelowGrows
<1>3. /\ \A k \in 1 .. c : Nth(free, k) \in free
      /\ \A k, l \in 1 .. c : Nth(free, k) = Nth(free, l) => k = l
  <2>1. Counted(free)
    BY <1>1, NthCounts
  <2> QED BY <2>1 DEF Counted
<1>4. free # {} => c # 0
  BY <1>2, FS_EmptySet
<1>5. FreeBlocks = [k \in 1 .. c |-> Nth(free, k)]
  BY DEF FreeBlocks
<1> HIDE DEF c
<1>6. FreeBlocks \in [1 .. c -> free]
  BY <1>3, <1>5
<1>7. FreeBlocks \in Seq(free) /\ DOMAIN FreeBlocks = 1 .. c
  BY <1>2, <1>6, SeqDef
<1>8. Len(FreeBlocks) = c
  BY <1>2, <1>7, LenProperties
<1>9. \A k \in 1 .. c : FreeBlocks[k] = Nth(free, k)
  BY <1>5
<1>10. Blocks \ live # {} => 1 \in 1 .. c
  BY <1>2, <1>4
<1>11. /\ \A k \in 1 .. c : FreeBlocks[k] \in Blocks \ live
       /\ \A k, l \in 1 .. c : FreeBlocks[k] = FreeBlocks[l] => k = l
  BY <1>3, <1>9
<1> QED BY <1>2, <1>7, <1>8, <1>10, <1>11

(* Changing the items of one registration changes nothing else.            *)
LEMMA ItemsReplaced ==
  ASSUME regs \in Seq(Registration), NEW i \in DOMAIN regs,
         NEW its \in Seq(Blocks), NEW new, new = [regs EXCEPT ![i].items = its]
  PROVE  /\ new \in Seq(Registration)
         /\ DOMAIN new = DOMAIN regs
         /\ \A j \in DOMAIN regs \ {i} : new[j] = regs[j]
         /\ new[i].items = its
         /\ new[i].block = regs[i].block /\ new[i].id = regs[i].id
         /\ new[i].did = regs[i].did /\ new[i].owner = regs[i].owner
         /\ new[i].list = regs[i].list
<1>1. Len(regs) \in Nat /\ DOMAIN regs = 1 .. Len(regs) /\ regs \in [1 .. Len(regs) -> Registration]
  BY LenProperties
<1> DEFINE r == [regs[i] EXCEPT !.items = its]
<1>2. regs[i] \in Registration
  BY <1>1
<1>3. /\ r \in Registration
      /\ r.items = its
      /\ r.block = regs[i].block /\ r.id = regs[i].id
      /\ r.did = regs[i].did /\ r.owner = regs[i].owner
      /\ r.list = regs[i].list
  BY <1>2 DEF Registration
<1>4. new = [regs EXCEPT ![i] = r]
  OBVIOUS
<1> HIDE DEF r
<1>5. new \in [1 .. Len(regs) -> Registration]
  BY <1>1, <1>3, <1>4
<1>6. new \in Seq(Registration)
  BY <1>1, <1>5, SeqDef
<1>7. DOMAIN new = DOMAIN regs /\ new[i] = r /\ \A j \in DOMAIN regs \ {i} : new[j] = regs[j]
  BY <1>1, <1>4
<1> QED BY <1>3, <1>6, <1>7

-----------------------------------------------------------------------------
(* Types.                                                                  *)
LEMMA HeapStepType ==
  ASSUME live \subseteq Blocks, fault \in BOOLEAN,
         NEW new \in SUBSET Blocks, NEW frees, HeapStep(new, frees)
  PROVE  live' \subseteq Blocks /\ fault' \in BOOLEAN
<1>1. live' \subseteq Blocks
  BY DEF HeapStep
<1>2. fault' \in BOOLEAN
  BY Zenon DEF HeapStep
<1> QED BY <1>1, <1>2

LEMMA NextIdIsFree ==
  ASSUME TypeOK
  PROVE  find_next_dynamic_id # None => find_next_dynamic_id \in (1 .. MaxId) \ UsedIds
<1>1. (1 .. MaxId) \ UsedIds \in SUBSET (Nat \ {0})
  BY RegistryAssumption
<1> QED BY <1>1, FirstIsAMember DEF find_next_dynamic_id, None

(* The places of the list of registrations and of the id list.             *)
LEMMA Places ==
  ASSUME TypeOK
  PROVE  /\ Len(regs) \in Nat /\ DOMAIN regs = 1 .. Len(regs)
         /\ DOMAIN regs \subseteq Nat \ {0}
         /\ \A i \in DOMAIN regs : regs[i] \in Registration
         /\ Len(idlist) \in Nat /\ DOMAIN idlist = 1 .. Len(idlist)
         /\ \A j \in DOMAIN idlist : idlist[j] \in [block : Blocks, id : 1 .. MaxId]
<1>1. regs \in Seq(Registration) /\ idlist \in Seq([block : Blocks, id : 1 .. MaxId])
  BY DEF TypeOK
<1>2. /\ Len(regs) \in Nat /\ DOMAIN regs = 1 .. Len(regs)
      /\ \A i \in 1 .. Len(regs) : regs[i] \in Registration
  BY <1>1, LenProperties, ElementOfSeq
<1>3. /\ Len(idlist) \in Nat /\ DOMAIN idlist = 1 .. Len(idlist)
      /\ \A j \in 1 .. Len(idlist) : idlist[j] \in [block : Blocks, id : 1 .. MaxId]
  BY <1>1, LenProperties, ElementOfSeq
<1> QED BY <1>2, <1>3

(* Existing finds a registration of the data id that the 0x2C handler      *)
(* lists.                                                                  *)
LEMMA ExistingPlace ==
  ASSUME TypeOK, NEW did, Existing(did) # 0
  PROVE  /\ Existing(did) \in DOMAIN regs
         /\ regs[Existing(did)].did = did
<1> DEFINE S == {i \in DOMAIN regs :
                   regs[i].did = did /\ \E j \in DOMAIN idlist : idlist[j].id = regs[i].id}
<1>1. S \in SUBSET (Nat \ {0})
  BY Places
<1>2. Existing(did) = First(S)
  BY Zenon DEF Existing
<1>3. Existing(did) \in S
  BY <1>1, <1>2, FirstIsAMember
<1> QED BY <1>3

(* The registration an unregistration or a clear takes.                    *)
LEMMA FirstPlace ==
  ASSUME TypeOK, NEW S \in SUBSET DOMAIN regs
  PROVE  /\ First(S) # 0 => First(S) \in S
         /\ First(S) = 0 => S = {}
BY Places, FirstIsAMember

(* The registration that DefineNew or AppAppend appends, as a type.        *)
LEMMA AppendedTypes ==
  ASSUME TypeOK, NEW r \in Registration
  PROVE  /\ Append(regs, r) \in Seq(Registration)
         /\ DOMAIN Append(regs, r) = 1 .. Len(regs) + 1
         /\ \A j \in DOMAIN regs : Append(regs, r)[j] = regs[j]
         /\ Append(regs, r)[Len(regs) + 1] = r
<1>1. regs \in Seq(Registration) /\ DOMAIN regs = 1 .. Len(regs)
  BY Places DEF TypeOK
<1>2. /\ Append(regs, r) \in Seq(Registration)
      /\ Len(Append(regs, r)) = Len(regs) + 1
      /\ \A j \in 1 .. Len(regs) : Append(regs, r)[j] = regs[j]
      /\ Append(regs, r)[Len(regs) + 1] = r
  BY <1>1, AppendProperties
<1>3. DOMAIN Append(regs, r) = 1 .. Len(Append(regs, r))
  BY <1>2, LenProperties
<1> QED BY <1>1, <1>2, <1>3

LEMMA AllocatedAreBlocks ==
  ASSUME TypeOK, Len(FreeBlocks) >= 5, NEW failed \in Allocations
  PROVE  AllocatedBefore(failed, FreeBlocks[1], FreeBlocks[2], FreeBlocks[3], FreeBlocks[4])
           \subseteq Blocks
<1>1. \A k \in 1 .. 5 : FreeBlocks[k] \in Blocks
  BY FreshBlocks DEF TypeOK
<1> QED BY <1>1 DEF AllocatedBefore, Allocations

(* What DefineNew adds to the lists when nothing fails.                    *)
NewReg(did) ==
  [block |-> FreeBlocks[4], id |-> find_next_dynamic_id, did |-> did,
   owner |-> "dddi", list |-> FreeBlocks[1], items |-> <<FreeBlocks[3]>>]

NewEntry == [block |-> FreeBlocks[5], id |-> find_next_dynamic_id]

(* What AppAppend adds.                                                    *)
AppReg(did) ==
  [block |-> FreeBlocks[1], id |-> pending, did |-> did, owner |-> "app",
   list |-> None, items |-> <<>>]

LEMMA NewFields ==
  ASSUME NEW did
  PROVE  /\ AppReg(did).block = FreeBlocks[1] /\ AppReg(did).id = pending
         /\ AppReg(did).did = did /\ AppReg(did).owner = "app"
         /\ AppReg(did).items = <<>>
         /\ NewReg(did).block = FreeBlocks[4] /\ NewReg(did).id = find_next_dynamic_id
         /\ NewReg(did).did = did /\ NewReg(did).owner = "dddi"
         /\ NewReg(did).list = FreeBlocks[1] /\ NewReg(did).items = <<FreeBlocks[3]>>
         /\ NewEntry.block = FreeBlocks[5] /\ NewEntry.id = find_next_dynamic_id
BY DEF AppReg, NewReg, NewEntry

LEMMA NewTypes ==
  ASSUME TypeOK
  PROVE  /\ \A did \in DddiDids :
              Len(FreeBlocks) >= 5 /\ find_next_dynamic_id # None =>
                NewReg(did) \in Registration /\ NewEntry \in [block : Blocks, id : 1 .. MaxId]
         /\ \A did \in AppDids :
              Blocks \ live # {} /\ pending # None => AppReg(did) \in Registration
<1>1. live \subseteq Blocks /\ pending \in 0 .. MaxId
  BY DEF TypeOK
<1>2. ASSUME NEW did \in DddiDids, Len(FreeBlocks) >= 5, find_next_dynamic_id # None
      PROVE  NewReg(did) \in Registration /\ NewEntry \in [block : Blocks, id : 1 .. MaxId]
  <2>1. \A k \in 1 .. 5 : FreeBlocks[k] \in Blocks
    BY <1>1, <1>2, FreshBlocks
  <2>2. find_next_dynamic_id \in 1 .. MaxId
    BY <1>2, NextIdIsFree
  <2>3. <<FreeBlocks[3]>> \in Seq(Blocks)
    BY <2>1
  <2> QED BY <2>1, <2>2, <2>3 DEF NewReg, NewEntry, Registration
<1>3. ASSUME NEW did \in AppDids, Blocks \ live # {}, pending # None
      PROVE  AppReg(did) \in Registration
  <2>1. FreeBlocks[1] \in Blocks
    BY <1>1, <1>3, FreshBlocks
  <2>2. pending \in 1 .. MaxId
    BY <1>1, <1>3, RegistryAssumption DEF None
  <2>3. <<>> \in Seq(Blocks)
    BY EmptySeq
  <2> QED BY <2>1, <2>2, <2>3 DEF AppReg, Registration, None
<1> QED BY <1>2, <1>3

(* An entry appended to the id list.                                       *)
LEMMA AppendedEntry ==
  ASSUME TypeOK, NEW e \in [block : Blocks, id : 1 .. MaxId]
  PROVE  /\ Append(idlist, e) \in Seq([block : Blocks, id : 1 .. MaxId])
         /\ DOMAIN Append(idlist, e) = 1 .. Len(idlist) + 1
         /\ \A j \in DOMAIN idlist : Append(idlist, e)[j] = idlist[j]
         /\ Append(idlist, e)[Len(idlist) + 1] = e
<1> DEFINE E == [block : Blocks, id : 1 .. MaxId]
<1>1. idlist \in Seq(E) /\ DOMAIN idlist = 1 .. Len(idlist)
  BY Places DEF TypeOK
<1> HIDE DEF E
<1>2. e \in E
  BY DEF E
<1>3. /\ Append(idlist, e) \in Seq(E)
      /\ Len(Append(idlist, e)) = Len(idlist) + 1
      /\ \A j \in 1 .. Len(idlist) : Append(idlist, e)[j] = idlist[j]
      /\ Append(idlist, e)[Len(idlist) + 1] = e
  BY <1>1, <1>2, AppendProperties
<1>4. DOMAIN Append(idlist, e) = 1 .. Len(Append(idlist, e))
  BY <1>3, LenProperties
<1> QED BY <1>1, <1>3, <1>4 DEF E

(* What is left of the two lists when elements are taken off them.         *)
LEMMA RemovedTypes ==
  ASSUME TypeOK
  PROVE  /\ \A S \in SUBSET DOMAIN regs : Only(regs, S) \in Seq(Registration)
         /\ \A S \in SUBSET DOMAIN idlist :
              Only(idlist, S) \in Seq([block : Blocks, id : 1 .. MaxId])
BY OnlyPicks DEF TypeOK

(* Every action keeps the types.                                           *)
LEMMA TypeStep == TypeOK /\ [Next]_vars => TypeOK'
<1> SUFFICES ASSUME TypeOK, [Next]_vars PROVE TypeOK'
  OBVIOUS
<1>0. /\ live \subseteq Blocks /\ fault \in BOOLEAN /\ pending \in 0 .. MaxId
      /\ appIds \subseteq 1 .. MaxId /\ regs \in Seq(Registration)
      /\ idlist \in Seq([block : Blocks, id : 1 .. MaxId])
  BY DEF TypeOK
<1>1. CASE AppFindId
  <2>1. find_next_dynamic_id \in 1 .. MaxId
    BY <1>1, NextIdIsFree DEF AppFindId
  <2>2. pending' \in 0 .. MaxId
    BY <1>1, <2>1 DEF AppFindId
  <2> QED BY <1>0, <1>1, <2>2 DEF AppFindId, TypeOK
<1>2. ASSUME NEW did \in AppDids, AppAppend(did) PROVE TypeOK'
  <2>1. pending' = None /\ pending \in 1 .. MaxId /\ pending' \in 0 .. MaxId /\ pending # None
    BY <1>0, <1>2, RegistryAssumption DEF AppAppend, None
  <2>2. CASE /\ Blocks \ live # {} /\ HeapStep({FreeBlocks[1]}, <<>>)
             /\ regs' = Append(regs, AppReg(did)) /\ appIds' = appIds \cup {pending}
    <3>1. FreeBlocks[1] \in Blocks
      BY <1>0, <2>2, FreshBlocks
    <3>2. live' \subseteq Blocks /\ fault' \in BOOLEAN
      BY <1>0, <2>2, <3>1, HeapStepType
    <3>3. regs' \in Seq(Registration)
      BY <2>1, <2>2, NewTypes, AppendedTypes
    <3>4. appIds' \subseteq 1 .. MaxId /\ idlist' = idlist
      BY <1>0, <1>2, <2>1, <2>2 DEF AppAppend
    <3> QED BY <1>0, <2>1, <3>2, <3>3, <3>4 DEF TypeOK
  <2>3. CASE UNCHANGED <<regs, live, fault, appIds>>
    BY <1>0, <1>2, <2>1, <2>3 DEF AppAppend, TypeOK
  <2> QED BY <1>2, <2>2, <2>3 DEF AppAppend, AppReg
<1>3. ASSUME NEW id \in appIds, AppUnregister(id) PROVE TypeOK'
  <2> DEFINE i == First({j \in DOMAIN regs : regs[j].id = id})
  <2>1. CASE /\ regs' = Only(regs, DOMAIN regs \ {i}) /\ HeapStep({}, Frees({i}, {}))
             /\ appIds' = appIds \ {id}
    <3>1. live' \subseteq Blocks /\ fault' \in BOOLEAN
      BY <1>0, <2>1, HeapStepType
    <3>2. regs' \in Seq(Registration)
      BY <2>1, RemovedTypes
    <3> QED BY <1>0, <1>3, <2>1, <3>1, <3>2 DEF AppUnregister, TypeOK
  <2>2. CASE UNCHANGED <<regs, live, fault, appIds>>
    BY <1>0, <1>3, <2>2 DEF AppUnregister, TypeOK
  <2> QED BY <1>3, <2>1, <2>2 DEF AppUnregister
<1>4. ASSUME NEW did \in DddiDids, Define(did) PROVE TypeOK'
  <2>1. pending' \in 0 .. MaxId /\ appIds' \subseteq 1 .. MaxId
    BY <1>0, <1>4 DEF Define
  <2>2. CASE Existing(did) # 0 /\ AppendItem(Existing(did)) /\ UNCHANGED idlist
    <3> DEFINE i == Existing(did)
    <3>1. i \in DOMAIN regs /\ regs[i] \in Registration
      BY <2>2, ExistingPlace, Places
    <3>2. regs[i].items \in Seq(Blocks)
      BY <3>1 DEF Registration
    <3>3. CASE /\ Blocks \ live # {} /\ HeapStep({FreeBlocks[1]}, <<>>)
               /\ regs' = [regs EXCEPT ![i].items = Append(@, FreeBlocks[1])]
      <4>1. FreeBlocks[1] \in Blocks
        BY <1>0, <3>3, FreshBlocks
      <4>2. live' \subseteq Blocks /\ fault' \in BOOLEAN
        BY <1>0, <3>3, <4>1, HeapStepType
      <4>3. Append(regs[i].items, FreeBlocks[1]) \in Seq(Blocks)
        BY <3>2, <4>1, AppendProperties
      <4>4. regs' = [regs EXCEPT ![i].items = Append(regs[i].items, FreeBlocks[1])]
        BY <3>3
      <4>5. regs' \in Seq(Registration)
        BY <1>0, <3>1, <4>3, <4>4, ItemsReplaced
      <4> QED BY <1>0, <2>1, <2>2, <4>2, <4>5 DEF TypeOK
    <3>4. CASE HeapStep({}, regs[i].items) /\ regs' = [regs EXCEPT ![i].items = <<>>]
      <4>1. live' \subseteq Blocks /\ fault' \in BOOLEAN
        BY <1>0, <3>4, HeapStepType
      <4>2. <<>> \in Seq(Blocks)
        BY EmptySeq
      <4>3. regs' \in Seq(Registration)
        BY <1>0, <3>1, <3>4, <4>2, ItemsReplaced
      <4> QED BY <1>0, <2>1, <2>2, <4>1, <4>3 DEF TypeOK
    <3> QED BY <2>2, <3>3, <3>4 DEF AppendItem
  <2>3. CASE DefineNew(did)
    <3>1. Len(FreeBlocks) >= 5 /\ \A k \in 1 .. 5 : FreeBlocks[k] \in Blocks
      BY <1>0, <2>3, FreshBlocks DEF DefineNew
    <3>2. CASE /\ find_next_dynamic_id # None
               /\ HeapStep({FreeBlocks[k] : k \in 1 .. 5}, <<FreeBlocks[2]>>)
               /\ regs' = Append(regs, NewReg(did))
               /\ idlist' = Append(idlist, NewEntry)
      <4>1. {FreeBlocks[k] : k \in 1 .. 5} \in SUBSET Blocks
        BY <3>1
      <4>2. live' \subseteq Blocks /\ fault' \in BOOLEAN
        BY <1>0, <3>2, <4>1, HeapStepType
      <4>3. regs' \in Seq(Registration) /\ idlist' \in Seq([block : Blocks, id : 1 .. MaxId])
        BY <3>1, <3>2, NewTypes, AppendedTypes, AppendedEntry
      <4> QED BY <2>1, <4>2, <4>3 DEF TypeOK
    <3>3. ASSUME NEW failed \in MayFail \cup (IF find_next_dynamic_id = None THEN {"REGISTRATION"} ELSE {}),
                 HeapStep(AllocatedBefore(failed, FreeBlocks[1], FreeBlocks[2], FreeBlocks[3], FreeBlocks[4]),
                          ErrorFrees(failed, FreeBlocks[1], FreeBlocks[2], FreeBlocks[3], FreeBlocks[4])),
                 UNCHANGED <<regs, idlist>>
          PROVE  TypeOK'
      <4>1. failed \in Allocations
        BY RegistryAssumption DEF Allocations
      <4>2. live' \subseteq Blocks /\ fault' \in BOOLEAN
        BY <1>0, <3>1, <3>3, <4>1, AllocatedAreBlocks, HeapStepType
      <4> QED BY <1>0, <2>1, <3>3, <4>2 DEF TypeOK
    <3> QED BY <2>3, <3>2, <3>3 DEF DefineNew, NewReg, NewEntry
  <2> QED BY <1>4, <2>2, <2>3 DEF Define
<1>5. ASSUME NEW did \in DddiDids, ClearSingle(did) PROVE TypeOK'
  <2> DEFINE i == First({j \in DOMAIN regs : regs[j].did = did})
             id == IF i = 0 THEN 0 ELSE regs[i].id
             dropped == {j \in DOMAIN idlist : idlist[j].id = id}
  <2>1. /\ idlist' = Only(idlist, DOMAIN idlist \ dropped)
        /\ pending' = pending /\ appIds' = appIds
        /\ \/ regs' = Only(regs, DOMAIN regs \ {i}) /\ HeapStep({}, Frees({i}, dropped))
           \/ regs' = regs /\ HeapStep({}, Frees({}, dropped))
    BY <1>5 DEF ClearSingle
  <2> HIDE DEF i, dropped
  <2>2. live' \subseteq Blocks /\ fault' \in BOOLEAN
    BY <1>0, <2>1, HeapStepType
  <2>3. regs' \in Seq(Registration)
    BY <1>0, <2>1, RemovedTypes
  <2>4. idlist' \in Seq([block : Blocks, id : 1 .. MaxId])
    BY <2>1, RemovedTypes
  <2> QED BY <1>0, <2>1, <2>2, <2>3, <2>4 DEF TypeOK
<1>6. CASE ClearAll
  <2> DEFINE gone == {i \in DOMAIN regs :
                        Cardinality({j \in 1 .. i : regs[j].id = regs[i].id}) <=
                          Cardinality({j \in DOMAIN idlist : idlist[j].id = regs[i].id})}
  <2>1. /\ regs' = Only(regs, DOMAIN regs \ gone) /\ idlist' = <<>>
        /\ HeapStep({}, Frees(gone, DOMAIN idlist))
        /\ pending' = pending /\ appIds' = appIds
    BY <1>6 DEF ClearAll
  <2> HIDE DEF gone
  <2>2. live' \subseteq Blocks /\ fault' \in BOOLEAN
    BY <1>0, <2>1, HeapStepType
  <2>3. regs' \in Seq(Registration) /\ idlist' \in Seq([block : Blocks, id : 1 .. MaxId])
    BY <2>1, RemovedTypes, EmptySeq
  <2> QED BY <1>0, <2>1, <2>2, <2>3 DEF TypeOK
<1>7. CASE UNCHANGED vars
  BY <1>0, <1>7 DEF vars, TypeOK
<1> QED BY <1>1, <1>2, <1>3, <1>4, <1>5, <1>6, <1>7 DEF Next

LEMMA InitTypes == Init => TypeOK
<1>1. <<>> \in Seq(Registration) /\ <<>> \in Seq([block : Blocks, id : 1 .. MaxId])
  BY EmptySeq, Zenon
<1>2. 0 \in 0 .. MaxId
  BY RegistryAssumption
<1> QED BY <1>1, <1>2 DEF Init, TypeOK, None

(* The lists, the heap and the ids always have their types.                *)
THEOREM TypeCorrect == Spec => []TypeOK
BY InitTypes, TypeStep, PTL DEF Spec

-----------------------------------------------------------------------------
(* Ids.                                                                    *)

(* Whose registration it is shows in its data id and in what it points to. *)
Owners ==
  \A i \in DOMAIN regs :
    /\ regs[i].owner = "dddi" => regs[i].did \in DddiDids /\ regs[i].list \in Blocks
    /\ regs[i].owner = "app"  => regs[i].did \in AppDids /\ regs[i].items = <<>>

IdsExact == IdsUnique /\ IdsTracked /\ AppIdsValid

IdsInv == TypeOK /\ IdsOK

(* IdsTracked, read entry by entry and identifier by identifier.           *)
LEMMA EntriesAndIdentifiers ==
  ASSUME IdsTracked
  PROVE  /\ \A j \in DOMAIN idlist :
              \E i \in DOMAIN regs : regs[i].owner = "dddi" /\ regs[i].id = idlist[j].id
         /\ \A i \in DOMAIN regs :
              regs[i].owner = "dddi" => \E j \in DOMAIN idlist : regs[i].id = idlist[j].id
<1> DEFINE D == {j \in DOMAIN regs : regs[j].owner = "dddi"}
           L == {idlist[i].id : i \in DOMAIN idlist}
           R == {regs[i].id : i \in D}
<1>1. L = R
  BY DEF IdsTracked
<1>2. ASSUME NEW j \in DOMAIN idlist
      PROVE  \E i \in DOMAIN regs : regs[i].owner = "dddi" /\ regs[i].id = idlist[j].id
  <2>1. idlist[j].id \in L
    OBVIOUS
  <2>2. idlist[j].id \in R
    BY <1>1, <2>1
  <2> QED BY <2>2
<1>3. ASSUME NEW i \in DOMAIN regs, regs[i].owner = "dddi"
      PROVE  \E j \in DOMAIN idlist : regs[i].id = idlist[j].id
  <2>1. regs[i].id \in R
    BY <1>3
  <2>2. regs[i].id \in L
    BY <1>1, <2>1
  <2> QED BY <2>2
<1> QED BY <1>2, <1>3

(* Registrations and entries are taken off together.                       *)
LEMMA IdsRemoval ==
  ASSUME IdsExact, NEW gone \in SUBSET DOMAIN regs, NEW dropped \in SUBSET DOMAIN idlist,
         NEW s, Picks(s, regs', regs, DOMAIN regs \ gone),
         NEW t, Picks(t, idlist', idlist, DOMAIN idlist \ dropped),
         \A j \in DOMAIN idlist :
           j \in dropped <=>
             \E i \in gone : regs[i].owner = "dddi" /\ regs[i].id = idlist[j].id,
         appIds' \subseteq appIds,
         \A i \in gone : regs[i].owner = "app" => regs[i].id \notin appIds'
  PROVE  IdsExact'
<1>1. /\ \A k \in DOMAIN regs' : s[k] \in DOMAIN regs \ gone /\ regs'[k] = regs[s[k]]
      /\ \A k, l \in DOMAIN regs' : s[k] = s[l] => k = l
      /\ \A i \in DOMAIN regs \ gone : \E k \in DOMAIN regs' : s[k] = i
  BY DEF Picks
<1>2. /\ \A k \in DOMAIN idlist' : t[k] \in DOMAIN idlist \ dropped /\ idlist'[k] = idlist[t[k]]
      /\ \A i \in DOMAIN idlist \ dropped : \E k \in DOMAIN idlist' : t[k] = i
  BY DEF Picks
<1>5. IdsUnique'
  BY <1>1 DEF IdsExact, IdsUnique
<1>6. /\ \A j \in DOMAIN idlist :
           \E i \in DOMAIN regs : regs[i].owner = "dddi" /\ regs[i].id = idlist[j].id
      /\ \A i \in DOMAIN regs :
           regs[i].owner = "dddi" => \E j \in DOMAIN idlist : regs[i].id = idlist[j].id
  BY EntriesAndIdentifiers DEF IdsExact
<1>7. ASSUME NEW k \in DOMAIN idlist'
      PROVE  \E l \in DOMAIN regs' : regs'[l].owner = "dddi" /\ regs'[l].id = idlist'[k].id
  <2>1. t[k] \in DOMAIN idlist /\ t[k] \notin dropped /\ idlist'[k] = idlist[t[k]]
    BY <1>2
  <2>2. PICK i \in DOMAIN regs : regs[i].owner = "dddi" /\ regs[i].id = idlist[t[k]].id
    BY <1>6, <2>1
  <2>3. i \notin gone
    BY <2>1, <2>2
  <2>4. PICK l \in DOMAIN regs' : s[l] = i
    BY <1>1, <2>3
  <2> QED BY <1>1, <2>1, <2>2, <2>4
<1>8. ASSUME NEW l \in DOMAIN regs', regs'[l].owner = "dddi"
      PROVE  \E k \in DOMAIN idlist' : regs'[l].id = idlist'[k].id
  <2>1. s[l] \in DOMAIN regs /\ s[l] \notin gone /\ regs'[l] = regs[s[l]]
    BY <1>1
  <2>2. PICK j \in DOMAIN idlist : regs[s[l]].id = idlist[j].id
    BY <1>6, <1>8, <2>1
  <2>3. j \notin dropped
    BY <2>1, <2>2 DEF IdsExact, IdsUnique
  <2>4. PICK k \in DOMAIN idlist' : t[k] = j
    BY <1>2, <2>3
  <2> QED BY <1>2, <2>1, <2>2, <2>4
<1>9. IdsTracked'
  BY <1>7, <1>8 DEF IdsTracked
<1>10. AppIdsValid'
  <2> SUFFICES ASSUME NEW id \in appIds'
               PROVE  \E k \in DOMAIN regs' : regs'[k].id = id /\ regs'[k].owner = "app"
    BY DEF AppIdsValid
  <2>1. PICK i \in DOMAIN regs : regs[i].id = id /\ regs[i].owner = "app"
    BY DEF IdsExact, AppIdsValid
  <2>2. i \notin gone
    BY <2>1
  <2>3. PICK k \in DOMAIN regs' : s[k] = i
    BY <1>1, <2>2
  <2> QED BY <1>1, <2>1, <2>3
<1> QED BY <1>5, <1>9, <1>10 DEF IdsExact

(* Ids and owners stay as they are.                                        *)
LEMMA IdsKept ==
  ASSUME IdsExact, DOMAIN regs' = DOMAIN regs,
         \A i \in DOMAIN regs :
           regs'[i].id = regs[i].id /\ regs'[i].owner = regs[i].owner,
         idlist' = idlist, appIds' = appIds
  PROVE  IdsExact'
<1>2. IdsUnique'
  BY DEF IdsExact, IdsUnique
<1>3. IdsTracked'
  <2>1. IdsTracked
    BY DEF IdsExact
  <2>2. {j \in DOMAIN regs' : regs'[j].owner = "dddi"} = {j \in DOMAIN regs : regs[j].owner = "dddi"}
    OBVIOUS
  <2>3. {regs'[i].id : i \in {j \in DOMAIN regs' : regs'[j].owner = "dddi"}} =
          {regs[i].id : i \in {j \in DOMAIN regs : regs[j].owner = "dddi"}}
    BY <2>2
  <2> QED BY <2>1, <2>3 DEF IdsTracked
<1>4. AppIdsValid'
  BY DEF IdsExact, AppIdsValid
<1> QED BY <1>2, <1>3, <1>4 DEF IdsExact

(* A registration is appended under a free id: one of the application, or  *)
(* one of the 0x2C handler together with the entry of its list.            *)
LEMMA IdsAppended ==
  ASSUME TypeOK, IdsExact, NEW r \in Registration, regs' = Append(regs, r),
         r.id \notin UsedIds,
         \/ /\ r.owner = "app"
            /\ idlist' = idlist /\ appIds' = appIds \cup {r.id}
         \/ /\ r.owner = "dddi"
            /\ \E e \in [block : Blocks, id : 1 .. MaxId] :
                 e.id = r.id /\ idlist' = Append(idlist, e)
            /\ appIds' = appIds
  PROVE  IdsExact'
<1> DEFINE n == Len(regs) + 1
<1>1. /\ TypeOK /\ Len(regs) \in Nat /\ DOMAIN regs = 1 .. Len(regs)
      /\ DOMAIN idlist = 1 .. Len(idlist) /\ Len(idlist) \in Nat
  BY Places
<1>2. DOMAIN regs' = 1 .. n
  BY <1>1, AppendedTypes
<1>3. /\ DOMAIN regs' = DOMAIN regs \cup {n} /\ n \notin DOMAIN regs
      /\ regs'[n] = r /\ \A j \in DOMAIN regs : regs'[j] = regs[j]
  BY <1>1, <1>2, AppendedTypes
<1> HIDE DEF n
<1>6. \A i \in DOMAIN regs : regs[i].id # r.id
  BY DEF UsedIds
<1>7. IdsUnique'
  BY <1>3, <1>6 DEF IdsExact, IdsUnique
<1>8. AppIdsValid'
  BY <1>3 DEF IdsExact, AppIdsValid
<1>9. /\ \A j \in DOMAIN idlist :
           \E i \in DOMAIN regs : regs[i].owner = "dddi" /\ regs[i].id = idlist[j].id
      /\ \A i \in DOMAIN regs :
           regs[i].owner = "dddi" => \E j \in DOMAIN idlist : regs[i].id = idlist[j].id
  BY EntriesAndIdentifiers DEF IdsExact
<1>10. SUFFICES IdsTracked'
  BY <1>7, <1>8 DEF IdsExact
<1>13. SUFFICES /\ \A j \in DOMAIN idlist' :
                     \E i \in DOMAIN regs' : regs'[i].owner = "dddi" /\ regs'[i].id = idlist'[j].id
                /\ \A i \in DOMAIN regs' :
                     regs'[i].owner = "dddi" =>
                       \E j \in DOMAIN idlist' : regs'[i].id = idlist'[j].id
  BY DEF IdsTracked
<1>11. CASE r.owner = "app" /\ idlist' = idlist
  BY <1>3, <1>9, <1>11
<1>12. ASSUME r.owner = "dddi", NEW e \in [block : Blocks, id : 1 .. MaxId], e.id = r.id,
              idlist' = Append(idlist, e)
       PROVE  /\ \A j \in DOMAIN idlist' :
                   \E i \in DOMAIN regs' : regs'[i].owner = "dddi" /\ regs'[i].id = idlist'[j].id
              /\ \A i \in DOMAIN regs' :
                   regs'[i].owner = "dddi" =>
                     \E j \in DOMAIN idlist' : regs'[i].id = idlist'[j].id
  <2> DEFINE m == Len(idlist) + 1
  <2>1. DOMAIN idlist' = 1 .. m
    BY <1>1, <1>12, AppendedEntry
  <2>2. /\ DOMAIN idlist' = DOMAIN idlist \cup {m}
        /\ idlist'[m] = e /\ \A j \in DOMAIN idlist : idlist'[j] = idlist[j]
    BY <1>1, <1>12, <2>1, AppendedEntry
  <2> HIDE DEF m
  <2>3. ASSUME NEW j \in DOMAIN idlist'
        PROVE  \E i \in DOMAIN regs' : regs'[i].owner = "dddi" /\ regs'[i].id = idlist'[j].id
    <3>1. CASE j = m
      BY <1>3, <1>12, <2>2, <3>1
    <3>2. CASE j \in DOMAIN idlist
      <4>1. PICK i \in DOMAIN regs : regs[i].owner = "dddi" /\ regs[i].id = idlist[j].id
        BY <1>9, <3>2
      <4>2. i \in DOMAIN regs' /\ regs'[i] = regs[i] /\ idlist'[j] = idlist[j]
        BY <1>3, <2>2, <3>2
      <4> QED BY <4>1, <4>2
    <3> QED BY <2>2, <3>1, <3>2
  <2>4. ASSUME NEW i \in DOMAIN regs', regs'[i].owner = "dddi"
        PROVE  \E j \in DOMAIN idlist' : regs'[i].id = idlist'[j].id
    <3>1. CASE i = n
      BY <1>3, <1>12, <2>2, <3>1
    <3>2. CASE i \in DOMAIN regs
      BY <1>3, <1>9, <2>2, <2>4, <3>2
    <3> QED BY <1>3, <3>1, <3>2
  <2> QED BY <2>3, <2>4
<1> QED BY <1>11, <1>12

LEMMA IdsStep ==
  ASSUME IdsInv, [Next]_vars
  PROVE  IdsInv'
<1>d. disturbed => disturbed'
  BY DEF Next, vars, AppFindId, AppAppend, AppUnregister, Define, ClearSingle, ClearAll
<1> SUFFICES ASSUME TypeOK, IdsExact, ~disturbed' PROVE IdsExact'
  BY <1>d, TypeStep DEF IdsInv, IdsOK, IdsExact
<1>0. TypeOK /\ IdsExact
  OBVIOUS
<1>a. ASSUME UNCHANGED <<regs, idlist, appIds>> PROVE IdsExact'
  BY <1>a, IdsKept
<1>1. CASE AppFindId
  BY <1>1, <1>a DEF AppFindId
<1>2. ASSUME NEW did \in AppDids, AppAppend(did) PROVE IdsExact'
  <2>1. pending # None /\ pending' = None /\ idlist' = idlist
    BY <1>2 DEF AppAppend
  <2>2. CASE /\ Blocks \ live # {} /\ regs' = Append(regs, AppReg(did))
             /\ appIds' = appIds \cup {pending}
             /\ disturbed' = (disturbed \/ pending \in UsedIds)
    <3>1. AppReg(did) \in Registration
      BY <1>0, <2>1, <2>2, NewTypes
    <3>2. AppReg(did).id = pending /\ AppReg(did).owner = "app"
      BY DEF AppReg
    <3>3. pending \notin UsedIds
      BY <2>2
    <3> HIDE DEF AppReg
    <3> QED BY <2>1, <2>2, <3>1, <3>2, <3>3, IdsAppended
  <2>3. CASE UNCHANGED <<regs, live, fault, appIds>>
    BY <1>a, <2>1, <2>3
  <2> QED BY <1>2, <2>2, <2>3 DEF AppAppend, AppReg
<1>3. ASSUME NEW id \in appIds, AppUnregister(id) PROVE IdsExact'
  <2> DEFINE S == {j \in DOMAIN regs : regs[j].id = id}
             i == First(S)
  <2>1. CASE /\ i # 0 /\ regs' = Only(regs, DOMAIN regs \ {i}) /\ appIds' = appIds \ {id}
    <3>1. i \in DOMAIN regs /\ regs[i].id = id
      <4>1. S \in SUBSET DOMAIN regs
        OBVIOUS
      <4>2. i \in S
        BY <1>0, <2>1, <4>1, FirstPlace
      <4> QED BY <4>2
    <3>2. regs[i].owner = "app"
      BY <1>0, <3>1 DEF IdsExact, IdsUnique, AppIdsValid
    <3> HIDE DEF i
    <3>3. PICK s : Picks(s, regs', regs, DOMAIN regs \ {i})
      BY <1>0, <2>1, OnlyPicks DEF TypeOK
    <3>4. idlist' = idlist /\ pending' = pending
      BY <1>3 DEF AppUnregister
    <3>5. PICK t : Picks(t, idlist', idlist, DOMAIN idlist \ {})
      <4>1. DOMAIN idlist \ {} = DOMAIN idlist
        OBVIOUS
      <4> QED BY <1>0, <3>4, <4>1, AllOrNothing DEF TypeOK
    <3>6. /\ \A j \in DOMAIN idlist :
               j \in {} <=> \E k \in {i} : regs[k].owner = "dddi" /\ regs[k].id = idlist[j].id
          /\ \A k \in {i} : regs[k].owner = "app" => regs[k].id \notin appIds'
          /\ appIds' \subseteq appIds
          /\ {i} \in SUBSET DOMAIN regs /\ {} \in SUBSET DOMAIN idlist
      BY <2>1, <3>1, <3>2
    <3> QED BY <3>3, <3>4, <3>5, <3>6, IdsRemoval
  <2>2. CASE UNCHANGED <<regs, live, fault, appIds>>
    BY <1>3, <1>a, <2>2 DEF AppUnregister
  <2> QED BY <1>3, <2>1, <2>2 DEF AppUnregister
<1>4. ASSUME NEW did \in DddiDids, Define(did) PROVE IdsExact'
  <2>1. appIds' = appIds
    BY <1>4 DEF Define
  <2>2. CASE Existing(did) # 0 /\ AppendItem(Existing(did)) /\ UNCHANGED idlist
    <3> DEFINE i == Existing(did)
    <3>1. i \in DOMAIN regs /\ regs[i] \in Registration /\ regs[i].did = did
      BY <1>0, <2>2, ExistingPlace, Places
    <3>2. regs[i].items \in Seq(Blocks) /\ live \subseteq Blocks /\ regs \in Seq(Registration)
      BY <1>0, <3>1 DEF Registration, TypeOK
    <3>4. PICK its \in Seq(Blocks) : regs' = [regs EXCEPT ![i].items = its]
      <4>1. Blocks \ live # {} => Append(regs[i].items, FreeBlocks[1]) \in Seq(Blocks)
        BY <3>2, FreshBlocks, AppendProperties
      <4>2. <<>> \in Seq(Blocks)
        BY EmptySeq
      <4> QED BY <2>2, <4>1, <4>2 DEF AppendItem
    <3> HIDE DEF i
    <3>5. /\ DOMAIN regs' = DOMAIN regs
          /\ \A j \in DOMAIN regs \ {i} : regs'[j] = regs[j]
          /\ regs'[i].id = regs[i].id /\ regs'[i].did = regs[i].did
          /\ regs'[i].owner = regs[i].owner /\ regs'[i].list = regs[i].list
      BY <3>1, <3>2, <3>4, ItemsReplaced, SMTT(20)
    <3>7. \A j \in DOMAIN regs : regs'[j].id = regs[j].id /\ regs'[j].owner = regs[j].owner
      BY <3>5
    <3> QED BY <2>1, <2>2, <3>5, <3>7, IdsKept
  <2>3. CASE DefineNew(did)
    <3>1. CASE /\ Len(FreeBlocks) >= 5 /\ find_next_dynamic_id # None
               /\ regs' = Append(regs, NewReg(did))
               /\ idlist' = Append(idlist, NewEntry)
      <4>1. NewReg(did) \in Registration /\ NewEntry \in [block : Blocks, id : 1 .. MaxId]
        BY <1>0, <3>1, NewTypes
      <4>2. /\ NewReg(did).owner = "dddi" /\ NewReg(did).did = did
            /\ NewReg(did).list = FreeBlocks[1]
            /\ NewReg(did).id = find_next_dynamic_id /\ NewEntry.id = NewReg(did).id
        BY DEF NewReg, NewEntry
      <4>3. find_next_dynamic_id \notin UsedIds
        BY <1>0, <3>1, NextIdIsFree
      <4>4. FreeBlocks[1] \in Blocks
        BY <1>0, <3>1, FreshBlocks DEF TypeOK
      <4> QED BY <2>1, <3>1, <4>1, <4>2, <4>3, <4>4, IdsAppended
    <3>2. CASE UNCHANGED <<regs, idlist>>
      BY <1>a, <2>1, <3>2
    <3> QED BY <2>3, <3>1, <3>2 DEF DefineNew, NewReg, NewEntry
  <2> QED BY <1>4, <2>2, <2>3 DEF Define
<1>5. ASSUME NEW did \in DddiDids, ClearSingle(did) PROVE IdsExact'
  <2> DEFINE S == {j \in DOMAIN regs : regs[j].did = did}
             i == First(S)
             id == IF i = 0 THEN 0 ELSE regs[i].id
             dropped == {j \in DOMAIN idlist : idlist[j].id = id}
  <2>1. /\ idlist' = Only(idlist, DOMAIN idlist \ dropped)
        /\ appIds' = appIds
        /\ \/ /\ i # 0 /\ regs' = Only(regs, DOMAIN regs \ {i})
              /\ disturbed' = (disturbed \/ regs[i].owner = "app")
           \/ (i # 0 => regs[i].owner = "app") /\ regs' = regs
    BY <1>5 DEF ClearSingle
  <2>2. dropped \in SUBSET DOMAIN idlist /\ S \in SUBSET DOMAIN regs
    OBVIOUS
  <2>3. i # 0 => i \in DOMAIN regs /\ regs[i].did = did /\ id = regs[i].id
    <3>1. i # 0 => i \in S
      BY <1>0, <2>2, FirstPlace
    <3> QED BY <3>1
  <2>4. \A j \in DOMAIN idlist : j \in dropped <=> idlist[j].id = id
    OBVIOUS
  <2>5. i = 0 => dropped = {}
    <3>1. \A j \in DOMAIN idlist : idlist[j].id # 0
      BY <1>0, Places
    <3> QED BY <3>1
  <2> HIDE DEF i, id, dropped
  <2>6. PICK t : Picks(t, idlist', idlist, DOMAIN idlist \ dropped)
    BY <1>0, <2>1, OnlyPicks DEF TypeOK
  <2>7. CASE i # 0 /\ regs[i].owner # "app"
    <3>1. regs[i].owner = "dddi"
      BY <1>0, <2>3, <2>7, Places DEF Registration
    <3>2. regs' = Only(regs, DOMAIN regs \ {i})
      BY <2>1, <2>7
    <3>3. PICK s : Picks(s, regs', regs, DOMAIN regs \ {i})
      BY <1>0, <3>2, OnlyPicks DEF TypeOK
    <3>4. /\ \A j \in DOMAIN idlist :
               j \in dropped <=> \E k \in {i} : regs[k].owner = "dddi" /\ regs[k].id = idlist[j].id
          /\ \A k \in {i} : regs[k].owner = "app" => regs[k].id \notin appIds'
          /\ {i} \in SUBSET DOMAIN regs
      BY <2>3, <2>4, <2>7, <3>1
    <3> QED BY <2>1, <2>2, <2>6, <3>3, <3>4, IdsRemoval
  <2>8. CASE i # 0 => regs[i].owner = "app"
    <3>0. ASSUME i # 0 PROVE dropped = {}
      <4>1. SUFFICES ASSUME NEW j \in DOMAIN idlist, idlist[j].id = id PROVE FALSE
        BY <2>2, <2>4
      <4>2. i \in DOMAIN regs /\ regs[i].owner = "app" /\ regs[i].id = id
        BY <2>3, <2>8, <3>0
      <4>3. PICK k \in DOMAIN regs : regs[k].owner = "dddi" /\ regs[k].id = idlist[j].id
        BY <1>0, EntriesAndIdentifiers DEF IdsExact
      <4>4. k = i
        BY <1>0, <4>1, <4>2, <4>3 DEF IdsExact, IdsUnique
      <4> QED BY <4>2, <4>3, <4>4
    <3>1. dropped = {} /\ regs' = regs
      BY <2>1, <2>5, <2>8, <3>0
    <3>2. PICK s : Picks(s, regs', regs, DOMAIN regs \ {})
      <4>1. DOMAIN regs \ {} = DOMAIN regs
        OBVIOUS
      <4> QED BY <1>0, <3>1, <4>1, AllOrNothing DEF TypeOK
    <3>3. /\ \A j \in DOMAIN idlist :
               j \in dropped <=> \E k \in {} : regs[k].owner = "dddi" /\ regs[k].id = idlist[j].id
          /\ \A k \in {} : regs[k].owner = "app" => regs[k].id \notin appIds'
          /\ {} \in SUBSET DOMAIN regs
      BY <3>1
    <3> QED BY <2>1, <2>2, <2>6, <3>2, <3>3, IdsRemoval
  <2> QED BY <2>7, <2>8
<1>6. CASE ClearAll
  <2> DEFINE gone == {i \in DOMAIN regs :
                        Cardinality({j \in 1 .. i : regs[j].id = regs[i].id}) <=
                          Cardinality({j \in DOMAIN idlist : idlist[j].id = regs[i].id})}
  <2>1. /\ regs' = Only(regs, DOMAIN regs \ gone) /\ idlist' = <<>>
        /\ pending' = pending /\ appIds' = appIds
    BY <1>6 DEF ClearAll
  <2>2. ASSUME NEW i \in DOMAIN regs PROVE i \in gone <=> regs[i].owner = "dddi"
    <3> DEFINE same == {j \in 1 .. i : regs[j].id = regs[i].id}
               listed == {j \in DOMAIN idlist : idlist[j].id = regs[i].id}
    <3>1. same = {i}
      <4>1. \A j \in 1 .. i : j \in DOMAIN regs
        BY <1>0, Places
      <4>2. i \in 1 .. i
        BY <1>0, Places
      <4>3. \A j \in 1 .. i : regs[j].id = regs[i].id => j = i
        BY <1>0, <4>1 DEF IdsExact, IdsUnique
      <4> QED BY <4>2, <4>3, Zenon
    <3>2. Cardinality(same) = 1
      BY <3>1, FS_Singleton
    <3>3. listed \in SUBSET (1 .. Len(idlist)) /\ Len(idlist) \in Nat
      BY <1>0, Places
    <3>4. Cardinality(listed) \in Nat /\ IsFiniteSet(listed)
      BY <3>3, BelowGrows
    <3>5. Cardinality(listed) = 0 <=> listed = {}
      BY <3>4, FS_EmptySet
    <3>6. i \in gone <=> Cardinality(same) <= Cardinality(listed)
      OBVIOUS
    <3>7. listed # {} <=> regs[i].owner = "dddi"
      BY <1>0, EntriesAndIdentifiers DEF IdsExact, IdsUnique
    <3> HIDE DEF same, listed, gone
    <3> QED BY <3>2, <3>4, <3>5, <3>6, <3>7
  <2>3. gone \in SUBSET DOMAIN regs
    OBVIOUS
  <2> HIDE DEF gone
  <2>4. PICK s : Picks(s, regs', regs, DOMAIN regs \ gone)
    BY <1>0, <2>1, OnlyPicks DEF TypeOK
  <2>5. PICK t : Picks(t, idlist', idlist, DOMAIN idlist \ DOMAIN idlist)
    <3>1. DOMAIN idlist \ DOMAIN idlist = {}
      OBVIOUS
    <3> QED BY <1>0, <2>1, <3>1, AllOrNothing DEF TypeOK
  <2>6. /\ \A j \in DOMAIN idlist :
             j \in DOMAIN idlist <=>
               \E k \in gone : regs[k].owner = "dddi" /\ regs[k].id = idlist[j].id
        /\ \A k \in gone : regs[k].owner = "app" => regs[k].id \notin appIds'
    BY <1>0, <2>2, <2>3, EntriesAndIdentifiers DEF IdsExact
  <2> QED BY <2>1, <2>3, <2>4, <2>5, <2>6, IdsRemoval
<1>7. CASE UNCHANGED vars
  BY <1>7, <1>a DEF vars
<1> QED BY <1>1, <1>2, <1>3, <1>4, <1>5, <1>6, <1>7 DEF Next

(* Ids are unique among all dynamic registrations, the 0x2C handler's list *)
(* names exactly the identifiers it defined, and what the application      *)
(* registered stays under its id until the application unregisters it: for *)
(* any number of registrations, whichever allocations fail, whichever data *)
(* ids clients name and whenever requests run, as long as no id was given  *)
(* out between find_next_dynamic_id and sys_slist_append of a registration *)
(* of the application, and no client has cleared such a registration       *)
(* (..._remove_single_id).                                                 *)
THEOREM IdsCorrect == Spec => []IdsOK
<1>1. Init => IdsInv
  <2> SUFFICES ASSUME Init PROVE IdsInv
    OBVIOUS
  <2>1. DOMAIN regs = {} /\ DOMAIN idlist = {} /\ appIds = {}
    BY DEF Init
  <2>2. TypeOK
    BY InitTypes
  <2> QED BY <2>1, <2>2 DEF IdsInv, IdsOK, IdsUnique, IdsTracked, AppIdsValid
<1>2. IdsInv /\ [Next]_vars => IdsInv'
  BY IdsStep
<1>3. IdsInv => IdsOK
  BY DEF IdsInv
<1> QED BY <1>1, <1>2, <1>3, PTL DEF Spec

-----------------------------------------------------------------------------
(* The heap.                                                               *)

(* Every pointer into the heap that the two lists hold, written as in      *)
(* Pointers and Frees, and what each one points to.                        *)
PointerSet(rs, is) ==
  {<<"block", i, 0>> : i \in DOMAIN rs}
    \cup {<<"list", i, 0>> : i \in {j \in DOMAIN rs : rs[j].owner = "dddi"}}
    \cup (UNION {{<<"item", i, k>> : k \in DOMAIN rs[i].items} :
                   i \in {j \in DOMAIN rs : rs[j].owner = "dddi"}})
    \cup {<<"id", j, 0>> : j \in DOMAIN is}

PointsTo(rs, is) ==
  [p \in PointerSet(rs, is) |->
     CASE p[1] = "block" -> rs[p[2]].block
       [] p[1] = "list"  -> rs[p[2]].list
       [] p[1] = "item"  -> rs[p[2]].items[p[3]]
       [] p[1] = "id"    -> is[p[2]].block]

(* Each allocated block has exactly one pointer, each pointer a block.     *)
OneOwner(rs, is, lv) ==
  /\ IsInjective(PointsTo(rs, is))
  /\ lv = Range(PointsTo(rs, is))

LEMMA PointerKinds ==
  ASSUME NEW rs, NEW is, NEW p
  PROVE  p \in PointerSet(rs, is) <=>
           \/ \E i \in DOMAIN rs : p = <<"block", i, 0>>
           \/ \E i \in DOMAIN rs : rs[i].owner = "dddi" /\ p = <<"list", i, 0>>
           \/ \E i \in DOMAIN rs : rs[i].owner = "dddi" /\
                \E k \in DOMAIN rs[i].items : p = <<"item", i, k>>
           \/ \E j \in DOMAIN is : p = <<"id", j, 0>>
BY DEF PointerSet

LEMMA PointerTargets ==
  ASSUME NEW rs, NEW is
  PROVE  /\ DOMAIN PointsTo(rs, is) = PointerSet(rs, is)
         /\ \A i \in DOMAIN rs :
              PointsTo(rs, is)[<<"block", i, 0>>] = rs[i].block
         /\ \A i \in DOMAIN rs : rs[i].owner = "dddi" =>
              PointsTo(rs, is)[<<"list", i, 0>>] = rs[i].list
         /\ \A i \in DOMAIN rs : rs[i].owner = "dddi" =>
              \A k \in DOMAIN rs[i].items :
                PointsTo(rs, is)[<<"item", i, k>>] = rs[i].items[k]
         /\ \A j \in DOMAIN is : PointsTo(rs, is)[<<"id", j, 0>>] = is[j].block
<1>1. DOMAIN PointsTo(rs, is) = PointerSet(rs, is)
  BY DEF PointsTo
<1>2. ASSUME NEW i \in DOMAIN rs
      PROVE  PointsTo(rs, is)[<<"block", i, 0>>] = rs[i].block
  <2>1. <<"block", i, 0>> \in PointerSet(rs, is)
    BY PointerKinds, Zenon
  <2> QED BY <2>1 DEF PointsTo
<1>3. ASSUME NEW i \in DOMAIN rs, rs[i].owner = "dddi"
      PROVE  PointsTo(rs, is)[<<"list", i, 0>>] = rs[i].list
  <2>1. <<"list", i, 0>> \in PointerSet(rs, is)
    BY <1>3, PointerKinds, Zenon
  <2> QED BY <2>1 DEF PointsTo
<1>4. ASSUME NEW i \in DOMAIN rs, rs[i].owner = "dddi", NEW k \in DOMAIN rs[i].items
      PROVE  PointsTo(rs, is)[<<"item", i, k>>] = rs[i].items[k]
  <2>1. <<"item", i, k>> \in PointerSet(rs, is)
    BY <1>4, PointerKinds, Zenon
  <2> QED BY <2>1 DEF PointsTo
<1>5. ASSUME NEW j \in DOMAIN is
      PROVE  PointsTo(rs, is)[<<"id", j, 0>>] = is[j].block
  <2>1. <<"id", j, 0>> \in PointerSet(rs, is)
    BY PointerKinds, Zenon
  <2> QED BY <2>1 DEF PointsTo
<1> QED BY <1>1, <1>2, <1>3, <1>4, <1>5

(* The pointers whose registration or entry is taken off.                  *)
Taken(p, gone, dropped) ==
  (p[1] = "id" /\ p[2] \in dropped) \/ (p[1] # "id" /\ p[2] \in gone)

(* What an unregistration frees are exactly the pointers it takes off.     *)
LEMMA FreesTaken ==
  ASSUME NEW gone \in SUBSET DOMAIN regs, NEW dropped \in SUBSET DOMAIN idlist
  PROVE  /\ DOMAIN Frees(gone, dropped) =
              {p \in PointerSet(regs, idlist) : Taken(p, gone, dropped)}
         /\ \A p \in DOMAIN Frees(gone, dropped) :
              Frees(gone, dropped)[p] = PointsTo(regs, idlist)[p]
<1> DEFINE K(p) == \/ \E i \in gone : p = <<"block", i, 0>>
                   \/ \E i \in gone : regs[i].owner = "dddi" /\ p = <<"list", i, 0>>
                   \/ \E i \in gone : regs[i].owner = "dddi" /\
                        \E k \in DOMAIN regs[i].items : p = <<"item", i, k>>
                   \/ \E j \in dropped : p = <<"id", j, 0>>
<1>0. PICK D : D = (UNION {Pointers(i) : i \in gone}) \cup {<<"id", j, 0>> : j \in dropped}
  OBVIOUS
<1>1. Frees(gone, dropped) = [p \in D |-> Target(p)]
  BY <1>0, Zenon DEF Frees
<1>2. ASSUME NEW p PROVE p \in D <=> K(p)
  <2>1. p \in D <=> (\E i \in gone : p \in Pointers(i)) \/ \E j \in dropped : p = <<"id", j, 0>>
    BY <1>0
  <2>2. ASSUME NEW i \in gone
        PROVE  p \in Pointers(i) <=>
                 \/ p = <<"block", i, 0>>
                 \/ regs[i].owner = "dddi" /\ p = <<"list", i, 0>>
                 \/ regs[i].owner = "dddi" /\ \E k \in DOMAIN regs[i].items : p = <<"item", i, k>>
    BY DEF Pointers
  <2> QED BY <2>1, <2>2
<1>3. ASSUME NEW p, K(p)
      PROVE  p \in PointerSet(regs, idlist) /\ Taken(p, gone, dropped)
  <2>1. p \in PointerSet(regs, idlist)
    BY <1>3, PointerKinds
  <2>2. Taken(p, gone, dropped)
    BY <1>3 DEF Taken
  <2> QED BY <2>1, <2>2
<1>4. ASSUME NEW p \in PointerSet(regs, idlist), Taken(p, gone, dropped)
      PROVE  K(p)
  <2>1. CASE \E i \in DOMAIN regs : p = <<"block", i, 0>>
    BY <1>4, <2>1 DEF Taken
  <2>2. CASE \E i \in DOMAIN regs : regs[i].owner = "dddi" /\ p = <<"list", i, 0>>
    BY <1>4, <2>2 DEF Taken
  <2>3. CASE \E i \in DOMAIN regs : regs[i].owner = "dddi" /\
               \E k \in DOMAIN regs[i].items : p = <<"item", i, k>>
    BY <1>4, <2>3 DEF Taken
  <2>4. CASE \E j \in DOMAIN idlist : p = <<"id", j, 0>>
    BY <1>4, <2>4 DEF Taken
  <2> QED BY <2>1, <2>2, <2>3, <2>4, PointerKinds
<1>5. \A p : p \in D <=> p \in PointerSet(regs, idlist) /\ Taken(p, gone, dropped)
  BY <1>2, <1>3, <1>4
<1>6. DOMAIN Frees(gone, dropped) = D
  BY <1>1
<1>7. ASSUME NEW p \in D
      PROVE  Frees(gone, dropped)[p] = PointsTo(regs, idlist)[p]
  <2>1. Frees(gone, dropped)[p] = Target(p)
    BY <1>1
  <2>2. p \in PointerSet(regs, idlist)
    BY <1>5
  <2>3. PointsTo(regs, idlist)[p] = Target(p)
    BY <2>2 DEF PointsTo, Target
  <2> QED BY <2>1, <2>3
<1> QED BY <1>5, <1>6, <1>7

(* Pointers that move to other places still point to their blocks.  Here A *)
(* is what the pointers of P point to and G are the pointers freed.        *)
LEMMA OwnersMove ==
  ASSUME NEW A, IsInjective(A), NEW G \in SUBSET DOMAIN A, NEW B,
         NEW m \in [DOMAIN B -> DOMAIN A \ G],
         \A p \in DOMAIN B : B[p] = A[m[p]],
         \A p, q \in DOMAIN B : m[p] = m[q] => p = q,
         \A o \in DOMAIN A \ G : \E p \in DOMAIN B : m[p] = o
  PROVE  /\ IsInjective(B)
         /\ Range(B) = Range(A) \ {A[p] : p \in G}
<1>1. IsInjective(B)
  BY DEF IsInjective
<1>2. ASSUME NEW x \in Range(B) PROVE x \in Range(A) /\ x \notin {A[p] : p \in G}
  <2>1. PICK p \in DOMAIN B : x = A[m[p]]
    BY DEF Range
  <2> QED BY <2>1 DEF IsInjective, Range
<1>3. ASSUME NEW x \in Range(A), x \notin {A[p] : p \in G} PROVE x \in Range(B)
  <2>1. PICK o \in DOMAIN A : x = A[o] /\ o \notin G
    BY <1>3 DEF Range
  <2>2. PICK p \in DOMAIN B : m[p] = o
    BY <2>1
  <2> QED BY <2>1, <2>2 DEF Range
<1> QED BY <1>1, <1>2, <1>3

(* A pointer names its kind and its place.                                 *)
LEMMA PointerShape ==
  ASSUME NEW rs, NEW is, NEW p \in PointerSet(rs, is)
  PROVE  /\ p = <<p[1], p[2], p[3]>>
         /\ p[1] = "id" => p[2] \in DOMAIN is /\ p[3] = 0
         /\ p[1] # "id" => p[2] \in DOMAIN rs
         /\ p[1] \in {"block", "list"} => p[3] = 0
         /\ p[1] \in {"list", "item"} => rs[p[2]].owner = "dddi"
         /\ p[1] = "item" => p[3] \in DOMAIN rs[p[2]].items
         /\ p[1] \in {"block", "list", "item", "id"}
<1>1. CASE \E i \in DOMAIN rs : p = <<"block", i, 0>>
  BY <1>1
<1>2. CASE \E i \in DOMAIN rs : rs[i].owner = "dddi" /\ p = <<"list", i, 0>>
  BY <1>2
<1>3. CASE \E i \in DOMAIN rs : rs[i].owner = "dddi" /\
             \E k \in DOMAIN rs[i].items : p = <<"item", i, k>>
  BY <1>3
<1>4. CASE \E j \in DOMAIN is : p = <<"id", j, 0>>
  BY <1>4
<1> QED BY <1>1, <1>2, <1>3, <1>4, PointerKinds

(* A request that frees pointers of the lists, no new block allocated.     *)
LEMMA FreeingOwned ==
  ASSUME fault = FALSE, NEW A, IsInjective(A), live = Range(A),
         NEW F, DOMAIN F \subseteq DOMAIN A, \A p \in DOMAIN F : F[p] = A[p],
         HeapStep({}, F)
  PROVE  /\ fault' = FALSE
         /\ live' = live \ {A[p] : p \in DOMAIN F}
<1>1. IsInjective(F)
  BY DEF IsInjective
<1>2. Range(F) = {A[p] : p \in DOMAIN F}
  BY DEF Range
<1>3. Range(F) \subseteq live \cup {}
  BY <1>2 DEF Range
<1>4. live' = (live \cup {}) \ Range(F)
  BY DEF HeapStep
<1>5. fault' = FALSE
  BY <1>1, <1>3 DEF HeapStep
<1> QED BY <1>2, <1>4, <1>5

(* Unregistering: the blocks of what is taken off the lists are freed, the *)
(* rest keep their owners at their new places.                             *)
LEMMA HeapRemoval ==
  ASSUME fault = FALSE, OneOwner(regs, idlist, live),
         NEW gone \in SUBSET DOMAIN regs, NEW dropped \in SUBSET DOMAIN idlist,
         NEW s, Picks(s, regs', regs, DOMAIN regs \ gone),
         NEW t, Picks(t, idlist', idlist, DOMAIN idlist \ dropped),
         HeapStep({}, Frees(gone, dropped))
  PROVE  fault' = FALSE /\ OneOwner(regs', idlist', live')
<1> DEFINE A == PointsTo(regs, idlist)
           B == PointsTo(regs', idlist')
           P == PointerSet(regs, idlist)
           Q == PointerSet(regs', idlist')
           G == {p \in P : Taken(p, gone, dropped)}
           M(p) == IF p[1] = "id" THEN <<"id", t[p[2]], 0>> ELSE <<p[1], s[p[2]], p[3]>>
           m == [p \in Q |-> M(p)]
<1>1. IsInjective(A) /\ live = Range(A) /\ DOMAIN A = P /\ DOMAIN B = Q
  BY PointerTargets DEF OneOwner
<1>2. DOMAIN Frees(gone, dropped) = G /\ \A p \in G : Frees(gone, dropped)[p] = A[p]
  BY FreesTaken
<1>3. /\ \A k \in DOMAIN regs' : s[k] \in DOMAIN regs \ gone /\ regs'[k] = regs[s[k]]
      /\ \A k, l \in DOMAIN regs' : s[k] = s[l] => k = l
      /\ \A i \in DOMAIN regs \ gone : \E k \in DOMAIN regs' : s[k] = i
  BY DEF Picks
<1>4. /\ \A k \in DOMAIN idlist' : t[k] \in DOMAIN idlist \ dropped /\ idlist'[k] = idlist[t[k]]
      /\ \A k, l \in DOMAIN idlist' : t[k] = t[l] => k = l
      /\ \A i \in DOMAIN idlist \ dropped : \E k \in DOMAIN idlist' : t[k] = i
  BY DEF Picks
<1>5. ASSUME NEW p \in Q PROVE M(p) \in P \ G /\ B[p] = A[M(p)]
  <2>1. CASE \E k \in DOMAIN regs' : p = <<"block", k, 0>>
    <3>1. PICK k \in DOMAIN regs' : p = <<"block", k, 0>>
      BY <2>1
    <3>2. M(p) = <<"block", s[k], 0>> /\ s[k] \in DOMAIN regs /\ s[k] \notin gone
      BY <1>3, <3>1
    <3>3. M(p) \in P /\ ~Taken(M(p), gone, dropped)
      BY <3>2, PointerKinds DEF Taken
    <3>4. B[p] = regs'[k].block /\ A[M(p)] = regs[s[k]].block
      BY <3>1, <3>2, PointerTargets
    <3> QED BY <1>3, <3>3, <3>4
  <2>2. CASE \E k \in DOMAIN regs' : regs'[k].owner = "dddi" /\ p = <<"list", k, 0>>
    <3>1. PICK k \in DOMAIN regs' : regs'[k].owner = "dddi" /\ p = <<"list", k, 0>>
      BY <2>2
    <3>2. /\ M(p) = <<"list", s[k], 0>> /\ s[k] \in DOMAIN regs /\ s[k] \notin gone
          /\ regs[s[k]].owner = "dddi"
      BY <1>3, <3>1
    <3>3. M(p) \in P /\ ~Taken(M(p), gone, dropped)
      BY <3>2, PointerKinds DEF Taken
    <3>4. B[p] = regs'[k].list /\ A[M(p)] = regs[s[k]].list
      BY <3>1, <3>2, PointerTargets
    <3> QED BY <1>3, <3>3, <3>4
  <2>3. CASE \E k \in DOMAIN regs' : regs'[k].owner = "dddi" /\
               \E n \in DOMAIN regs'[k].items : p = <<"item", k, n>>
    <3>1. PICK k \in DOMAIN regs' : regs'[k].owner = "dddi" /\
                 \E n \in DOMAIN regs'[k].items : p = <<"item", k, n>>
      BY <2>3
    <3>2. PICK n \in DOMAIN regs'[k].items : p = <<"item", k, n>>
      BY <3>1
    <3>3. /\ M(p) = <<"item", s[k], n>> /\ s[k] \in DOMAIN regs /\ s[k] \notin gone
          /\ regs[s[k]].owner = "dddi" /\ n \in DOMAIN regs[s[k]].items
      BY <1>3, <3>1, <3>2
    <3>4. M(p) \in P /\ ~Taken(M(p), gone, dropped)
      BY <3>3, PointerKinds DEF Taken
    <3>5. B[p] = regs'[k].items[n] /\ A[M(p)] = regs[s[k]].items[n]
      BY <3>1, <3>2, <3>3, PointerTargets
    <3> QED BY <1>3, <3>4, <3>5
  <2>4. CASE \E j \in DOMAIN idlist' : p = <<"id", j, 0>>
    <3>1. PICK j \in DOMAIN idlist' : p = <<"id", j, 0>>
      BY <2>4
    <3>2. M(p) = <<"id", t[j], 0>> /\ t[j] \in DOMAIN idlist /\ t[j] \notin dropped
      BY <1>4, <3>1
    <3>3. M(p) \in P /\ ~Taken(M(p), gone, dropped)
      BY <3>2, PointerKinds DEF Taken
    <3>4. B[p] = idlist'[j].block /\ A[M(p)] = idlist[t[j]].block
      BY <3>1, <3>2, PointerTargets
    <3> QED BY <1>4, <3>3, <3>4
  <2> QED BY <2>1, <2>2, <2>3, <2>4, PointerKinds
<1>6. ASSUME NEW p \in Q, NEW q \in Q, M(p) = M(q) PROVE p = q
  <2>1. /\ p = <<p[1], p[2], p[3]>> /\ q = <<q[1], q[2], q[3]>>
        /\ p[1] = "id" => p[2] \in DOMAIN idlist' /\ p[3] = 0
        /\ p[1] # "id" => p[2] \in DOMAIN regs'
        /\ q[1] = "id" => q[2] \in DOMAIN idlist' /\ q[3] = 0
        /\ q[1] # "id" => q[2] \in DOMAIN regs'
    BY PointerShape
  <2>2. CASE p[1] = "id"
    <3>1. q[1] = "id" /\ t[p[2]] = t[q[2]]
      BY <1>6, <2>2
    <3>2. p[2] = q[2]
      BY <1>4, <2>1, <2>2, <3>1
    <3> QED BY <2>1, <2>2, <3>1, <3>2
  <2>3. CASE p[1] # "id"
    <3>1. q[1] = p[1] /\ s[p[2]] = s[q[2]] /\ p[3] = q[3]
      BY <1>6, <2>3
    <3>2. p[2] = q[2]
      BY <1>3, <2>1, <2>3, <3>1
    <3> QED BY <2>1, <3>1, <3>2
  <2> QED BY <2>2, <2>3
<1>7. ASSUME NEW o \in P \ G PROVE \E p \in Q : M(p) = o
  <2>1. /\ o = <<o[1], o[2], o[3]>> /\ ~Taken(o, gone, dropped)
        /\ o[1] = "id" => o[2] \in DOMAIN idlist /\ o[3] = 0
        /\ o[1] # "id" => o[2] \in DOMAIN regs
        /\ o[1] \in {"block", "list"} => o[3] = 0
        /\ o[1] \in {"list", "item"} => regs[o[2]].owner = "dddi"
        /\ o[1] = "item" => o[3] \in DOMAIN regs[o[2]].items
        /\ o[1] \in {"block", "list", "item", "id"}
    BY PointerShape
  <2>2. CASE o[1] = "id"
    <3>1. PICK j \in DOMAIN idlist' : t[j] = o[2]
      BY <1>4, <2>1, <2>2 DEF Taken
    <3>2. <<"id", j, 0>> \in Q
      BY PointerKinds
    <3>3. M(<<"id", j, 0>>) = o
      BY <2>1, <2>2, <3>1
    <3> QED BY <3>2, <3>3
  <2>3. CASE o[1] # "id"
    <3>1. PICK k \in DOMAIN regs' : s[k] = o[2]
      BY <1>3, <2>1, <2>3 DEF Taken
    <3>2. regs'[k] = regs[o[2]]
      BY <1>3, <3>1
    <3>3. <<o[1], k, o[3]>> \in Q
      <4>1. CASE o[1] = "block"
        BY <2>1, <4>1, PointerKinds
      <4>2. CASE o[1] = "list"
        BY <2>1, <3>2, <4>2, PointerKinds
      <4>3. CASE o[1] = "item"
        BY <2>1, <3>2, <4>3, PointerKinds
      <4> QED BY <2>1, <2>3, <4>1, <4>2, <4>3
    <3>4. M(<<o[1], k, o[3]>>) = o
      BY <2>1, <2>3, <3>1
    <3> QED BY <3>3, <3>4
  <2> QED BY <2>2, <2>3
<1> HIDE DEF A, B, P, Q, M
<1>8. m \in [Q -> P \ G] /\ \A p \in Q : m[p] = M(p)
  BY <1>5
<1> HIDE DEF m
<1>9. IsInjective(B) /\ Range(B) = Range(A) \ {A[p] : p \in G}
  <2>1. G \in SUBSET DOMAIN A /\ m \in [DOMAIN B -> DOMAIN A \ G]
    BY <1>1, <1>8
  <2>2. \A p \in DOMAIN B : B[p] = A[m[p]]
    BY <1>1, <1>5, <1>8
  <2>3. \A p, q \in DOMAIN B : m[p] = m[q] => p = q
    BY <1>1, <1>6, <1>8
  <2>4. \A o \in DOMAIN A \ G : \E p \in DOMAIN B : m[p] = o
    BY <1>1, <1>7, <1>8
  <2> HIDE DEF G
  <2> QED BY <1>1, <2>1, <2>2, <2>3, <2>4, OwnersMove
<1>10. fault' = FALSE /\ live' = live \ {A[p] : p \in G}
  <2>1. DOMAIN Frees(gone, dropped) \subseteq DOMAIN A
    BY <1>1, <1>2
  <2> HIDE DEF G
  <2> QED BY <1>1, <1>2, <2>1, FreeingOwned
<1>11. live' = Range(B)
  BY <1>1, <1>9, <1>10
<1> QED BY <1>9, <1>10, <1>11 DEF OneOwner, B

(* A request that allocates the blocks of new pointers N, and frees again  *)
(* what it needed only meanwhile.                                          *)
LEMMA HeapGrowth ==
  ASSUME fault = FALSE, OneOwner(regs, idlist, live),
         NEW N, PointerSet(regs', idlist') = PointerSet(regs, idlist) \cup N,
         \A p \in PointerSet(regs, idlist) :
           PointsTo(regs', idlist')[p] = PointsTo(regs, idlist)[p],
         \A p \in N : PointsTo(regs', idlist')[p] \notin live,
         \A p, q \in N :
           PointsTo(regs', idlist')[p] = PointsTo(regs', idlist')[q] => p = q,
         NEW new, NEW frees, HeapStep(new, frees), IsInjective(frees),
         Range(frees) \subseteq new, Range(frees) \cap live = {},
         new \ Range(frees) = {PointsTo(regs', idlist')[p] : p \in N}
  PROVE  fault' = FALSE /\ OneOwner(regs', idlist', live')
<1> DEFINE A == PointsTo(regs, idlist)
           B == PointsTo(regs', idlist')
<1>0. DOMAIN A = PointerSet(regs, idlist) /\ DOMAIN B = PointerSet(regs', idlist')
  BY DEF PointsTo
<1>1. /\ DOMAIN A = PointerSet(regs, idlist) /\ DOMAIN B = DOMAIN A \cup N
      /\ IsInjective(A) /\ live = Range(A)
  BY <1>0 DEF OneOwner
<1>2. /\ \A p \in DOMAIN A : B[p] = A[p]
      /\ \A p \in N : B[p] \notin live
      /\ \A p, q \in N : B[p] = B[q] => p = q
      /\ new \ Range(frees) = {B[p] : p \in N}
  BY <1>1
<1>3. fault' = FALSE
  BY DEF HeapStep
<1> HIDE DEF A, B
<1>4. IsInjective(B)
  <2> SUFFICES ASSUME NEW p \in DOMAIN B, NEW q \in DOMAIN B, B[p] = B[q] PROVE p = q
    BY DEF IsInjective
  <2>1. \A x \in DOMAIN A : B[x] \in live
    BY <1>1, <1>2 DEF Range
  <2> QED BY <1>1, <1>2, <2>1 DEF IsInjective
<1>5. Range(B) = live \cup {B[p] : p \in N}
  BY <1>1, <1>2 DEF Range
<1>6. live' = live \cup (new \ Range(frees))
  BY DEF HeapStep
<1> QED BY <1>2, <1>3, <1>4, <1>5, <1>6 DEF OneOwner, B

(* The lists rs2 and is2 have a registration more, at n, and the entries   *)
(* E; N are the pointers of these.                                         *)
Extended(rs, is, rs2, is2, n, E, N) ==
  /\ DOMAIN rs2 = DOMAIN rs \cup {n} /\ n \notin DOMAIN rs
  /\ \A j \in DOMAIN rs : rs2[j] = rs[j]
  /\ DOMAIN is2 = DOMAIN is \cup E /\ E \cap DOMAIN is = {}
  /\ \A j \in DOMAIN is : is2[j] = is[j]
  /\ \A p : p \in N <=>
       \/ p = <<"block", n, 0>>
       \/ rs2[n].owner = "dddi" /\ p = <<"list", n, 0>>
       \/ rs2[n].owner = "dddi" /\ \E k \in DOMAIN rs2[n].items : p = <<"item", n, k>>
       \/ \E j \in E : p = <<"id", j, 0>>

(* Appending a registration, and perhaps an entry, adds their pointers and *)
(* leaves the others as they are.                                          *)
LEMMA AppendedPointers ==
  ASSUME NEW rs, NEW is, NEW rs2, NEW is2, NEW n, NEW E, NEW N,
         Extended(rs, is, rs2, is2, n, E, N)
  PROVE  /\ PointerSet(rs2, is2) = PointerSet(rs, is) \cup N
         /\ \A p \in PointerSet(rs, is) : PointsTo(rs2, is2)[p] = PointsTo(rs, is)[p]
<1> USE DEF Extended
<1>1. ASSUME NEW p PROVE p \in PointerSet(rs2, is2) <=> p \in PointerSet(rs, is) \/ p \in N
  <2> DEFINE Kinds(r, i) ==
        \/ p = <<"block", i, 0>>
        \/ r[i].owner = "dddi" /\ p = <<"list", i, 0>>
        \/ r[i].owner = "dddi" /\ \E k \in DOMAIN r[i].items : p = <<"item", i, k>>
  <2>1. p \in PointerSet(rs2, is2) <=>
          (\E i \in DOMAIN rs2 : Kinds(rs2, i)) \/ \E j \in DOMAIN is2 : p = <<"id", j, 0>>
    BY PointerKinds
  <2>2. p \in PointerSet(rs, is) <=>
          (\E i \in DOMAIN rs : Kinds(rs, i)) \/ \E j \in DOMAIN is : p = <<"id", j, 0>>
    BY PointerKinds
  <2>3. \A i \in DOMAIN rs : Kinds(rs2, i) <=> Kinds(rs, i)
    OBVIOUS
  <2>4. p \in N <=> Kinds(rs2, n) \/ \E j \in E : p = <<"id", j, 0>>
    BY Zenon
  <2> HIDE DEF Kinds
  <2> QED BY <2>1, <2>2, <2>3, <2>4
<1>2. ASSUME NEW p \in PointerSet(rs, is) PROVE PointsTo(rs2, is2)[p] = PointsTo(rs, is)[p]
  <2>1. CASE \E i \in DOMAIN rs : p = <<"block", i, 0>>
    <3>1. PICK i \in DOMAIN rs : p = <<"block", i, 0>>
      BY <2>1
    <3>2. PointsTo(rs2, is2)[p] = rs2[i].block /\ PointsTo(rs, is)[p] = rs[i].block
      BY <3>1, PointerTargets
    <3> QED BY <3>2
  <2>2. CASE \E i \in DOMAIN rs : rs[i].owner = "dddi" /\ p = <<"list", i, 0>>
    <3>1. PICK i \in DOMAIN rs : rs[i].owner = "dddi" /\ p = <<"list", i, 0>>
      BY <2>2
    <3>2. PointsTo(rs2, is2)[p] = rs2[i].list /\ PointsTo(rs, is)[p] = rs[i].list
      BY <3>1, PointerTargets
    <3> QED BY <3>2
  <2>3. CASE \E i \in DOMAIN rs : rs[i].owner = "dddi" /\
               \E k \in DOMAIN rs[i].items : p = <<"item", i, k>>
    <3>1. PICK i \in DOMAIN rs : rs[i].owner = "dddi" /\
                 \E k \in DOMAIN rs[i].items : p = <<"item", i, k>>
      BY <2>3
    <3>2. PICK k \in DOMAIN rs[i].items : p = <<"item", i, k>>
      BY <3>1
    <3>3. rs2[i] = rs[i] /\ i \in DOMAIN rs2
      OBVIOUS
    <3>4. PointsTo(rs2, is2)[p] = rs2[i].items[k] /\ PointsTo(rs, is)[p] = rs[i].items[k]
      BY <3>1, <3>2, <3>3, PointerTargets
    <3> QED BY <3>3, <3>4
  <2>4. CASE \E j \in DOMAIN is : p = <<"id", j, 0>>
    <3>1. PICK j \in DOMAIN is : p = <<"id", j, 0>>
      BY <2>4
    <3>2. PointsTo(rs2, is2)[p] = is2[j].block /\ PointsTo(rs, is)[p] = is[j].block
      BY <3>1, PointerTargets
    <3> QED BY <3>2
  <2> QED BY <2>1, <2>2, <2>3, <2>4, PointerKinds
<1> QED BY <1>1, <1>2

LEMMA BlockAt ==
  ASSUME NEW rs, NEW is, NEW n \in DOMAIN rs
  PROVE  PointsTo(rs, is)[<<"block", n, 0>>] = rs[n].block
BY PointerTargets

(* The pointers of one identifier with its item k and its entry e.         *)
IdentifierPointsTo(rs, is, n, k, e) ==
  /\ PointsTo(rs, is)[<<"block", n, 0>>] = rs[n].block
  /\ PointsTo(rs, is)[<<"list", n, 0>>] = rs[n].list
  /\ PointsTo(rs, is)[<<"item", n, k>>] = rs[n].items[k]
  /\ PointsTo(rs, is)[<<"id", e, 0>>] = is[e].block

LEMMA TargetsAt ==
  ASSUME NEW rs, NEW is, NEW n \in DOMAIN rs, rs[n].owner = "dddi",
         NEW k \in DOMAIN rs[n].items, NEW e \in DOMAIN is
  PROVE  IdentifierPointsTo(rs, is, n, k, e)
BY PointerTargets DEF IdentifierPointsTo

(* The lists rs and rs2 differ only in the items of the identifier at i.   *)
ItemsOnly(rs, rs2, i) ==
  /\ i \in DOMAIN rs /\ DOMAIN rs2 = DOMAIN rs
  /\ rs[i].owner = "dddi" /\ rs2[i].owner = "dddi"
  /\ rs2[i].block = rs[i].block /\ rs2[i].list = rs[i].list
  /\ \A j \in DOMAIN rs \ {i} : rs2[j] = rs[j]

ItemOf(p, i) == p[1] = "item" /\ p[2] = i

(* Then only the pointers to those items change.                           *)
ItemsMove(rs, rs2, is, i) ==
  /\ \A p : p \in PointerSet(rs2, is) <=>
       \/ p \in PointerSet(rs, is) /\ ~ItemOf(p, i)
       \/ \E k \in DOMAIN rs2[i].items : p = <<"item", i, k>>
  /\ \A p \in PointerSet(rs, is) :
       ~ItemOf(p, i) => PointsTo(rs2, is)[p] = PointsTo(rs, is)[p]
  /\ \A k \in DOMAIN rs2[i].items : PointsTo(rs2, is)[<<"item", i, k>>] = rs2[i].items[k]
  /\ \A k \in DOMAIN rs[i].items : PointsTo(rs, is)[<<"item", i, k>>] = rs[i].items[k]
  /\ \A p \in PointerSet(rs, is) :
       ItemOf(p, i) <=> \E k \in DOMAIN rs[i].items : p = <<"item", i, k>>

LEMMA ItemPointers ==
  ASSUME NEW rs, NEW rs2, NEW is, NEW i, ItemsOnly(rs, rs2, i)
  PROVE  ItemsMove(rs, rs2, is, i)
<1> USE DEF ItemsOnly, ItemOf
<1>1. ASSUME NEW p \in PointerSet(rs, is), ~ItemOf(p, i)
      PROVE  p \in PointerSet(rs2, is) /\ PointsTo(rs2, is)[p] = PointsTo(rs, is)[p]
  <2>1. CASE \E j \in DOMAIN rs : p = <<"block", j, 0>>
    <3>1. PICK j \in DOMAIN rs : p = <<"block", j, 0>>
      BY <2>1
    <3>2. PointsTo(rs2, is)[p] = rs2[j].block /\ PointsTo(rs, is)[p] = rs[j].block
      BY <3>1, PointerTargets
    <3> QED BY <3>1, <3>2, PointerKinds
  <2>2. CASE \E j \in DOMAIN rs : rs[j].owner = "dddi" /\ p = <<"list", j, 0>>
    <3>1. PICK j \in DOMAIN rs : rs[j].owner = "dddi" /\ p = <<"list", j, 0>>
      BY <2>2
    <3>2. rs2[j].owner = "dddi" /\ rs2[j].list = rs[j].list
      BY <3>1
    <3>3. PointsTo(rs2, is)[p] = rs2[j].list /\ PointsTo(rs, is)[p] = rs[j].list
      BY <3>1, <3>2, PointerTargets
    <3> QED BY <3>1, <3>2, <3>3, PointerKinds
  <2>3. CASE \E j \in DOMAIN rs : rs[j].owner = "dddi" /\
               \E k \in DOMAIN rs[j].items : p = <<"item", j, k>>
    <3>1. PICK j \in DOMAIN rs : rs[j].owner = "dddi" /\
                 \E k \in DOMAIN rs[j].items : p = <<"item", j, k>>
      BY <2>3
    <3>2. PICK k \in DOMAIN rs[j].items : p = <<"item", j, k>>
      BY <3>1
    <3>3. j \in DOMAIN rs2 /\ rs2[j] = rs[j]
      BY <1>1, <3>2
    <3>4. PointsTo(rs2, is)[p] = rs2[j].items[k] /\ PointsTo(rs, is)[p] = rs[j].items[k]
      BY <3>1, <3>2, <3>3, PointerTargets
    <3>5. p \in PointerSet(rs2, is)
      BY <3>1, <3>2, <3>3, PointerKinds
    <3> QED BY <3>3, <3>4, <3>5
  <2>4. CASE \E j \in DOMAIN is : p = <<"id", j, 0>>
    <3>1. PICK j \in DOMAIN is : p = <<"id", j, 0>>
      BY <2>4
    <3>2. PointsTo(rs2, is)[p] = is[j].block /\ PointsTo(rs, is)[p] = is[j].block
      BY <3>1, PointerTargets
    <3> QED BY <3>1, <3>2, PointerKinds
  <2> QED BY <2>1, <2>2, <2>3, <2>4, PointerKinds
<1>2. ASSUME NEW k \in DOMAIN rs2[i].items
      PROVE  /\ <<"item", i, k>> \in PointerSet(rs2, is)
             /\ PointsTo(rs2, is)[<<"item", i, k>>] = rs2[i].items[k]
  <2>1. <<"item", i, k>> \in PointerSet(rs2, is)
    BY PointerKinds
  <2> QED BY <2>1, PointerTargets
<1>3. \A k \in DOMAIN rs[i].items : PointsTo(rs, is)[<<"item", i, k>>] = rs[i].items[k]
  BY PointerTargets
<1>4. ASSUME NEW p \in PointerSet(rs, is)
      PROVE  ItemOf(p, i) <=> \E k \in DOMAIN rs[i].items : p = <<"item", i, k>>
  <2>1. p = <<p[1], p[2], p[3]>> /\ (p[1] = "item" => p[3] \in DOMAIN rs[p[2]].items)
    BY PointerShape
  <2> QED BY <2>1
<1>5. ASSUME NEW p \in PointerSet(rs2, is)
      PROVE  \/ p \in PointerSet(rs, is) /\ ~ItemOf(p, i)
             \/ \E k \in DOMAIN rs2[i].items : p = <<"item", i, k>>
  <2>1. CASE \E j \in DOMAIN rs2 : p = <<"block", j, 0>>
    BY <2>1, PointerKinds
  <2>2. CASE \E j \in DOMAIN rs2 : rs2[j].owner = "dddi" /\ p = <<"list", j, 0>>
    <3>1. PICK j \in DOMAIN rs2 : rs2[j].owner = "dddi" /\ p = <<"list", j, 0>>
      BY <2>2
    <3>2. rs[j].owner = "dddi"
      BY <3>1
    <3> QED BY <3>1, <3>2, PointerKinds
  <2>3. CASE \E j \in DOMAIN rs2 : rs2[j].owner = "dddi" /\
               \E k \in DOMAIN rs2[j].items : p = <<"item", j, k>>
    <3>1. PICK j \in DOMAIN rs2 : rs2[j].owner = "dddi" /\
                 \E k \in DOMAIN rs2[j].items : p = <<"item", j, k>>
      BY <2>3
    <3>2. CASE j = i
      BY <3>1, <3>2
    <3>3. CASE j # i
      <4>1. rs2[j] = rs[j] /\ j \in DOMAIN rs
        BY <3>3
      <4>2. p \in PointerSet(rs, is)
        BY <3>1, <4>1, PointerKinds
      <4> QED BY <3>1, <3>3, <4>2
    <3> QED BY <3>2, <3>3
  <2>4. CASE \E j \in DOMAIN is : p = <<"id", j, 0>>
    BY <2>4, PointerKinds
  <2> QED BY <2>1, <2>2, <2>3, <2>4, PointerKinds
<1> QED BY <1>1, <1>2, <1>3, <1>4, <1>5 DEF ItemsMove

(* Short lists of pointers to free.                                        *)
LEMMA FreeLists ==
  /\ IsInjective(<<>>) /\ Range(<<>>) = {}
  /\ \A x : IsInjective(<<x>>) /\ Range(<<x>>) = {x}
  /\ \A x, y : x # y => IsInjective(<<x, y>>) /\ Range(<<x, y>>) = {x, y}
  /\ \A x, y, z : x # y /\ x # z /\ y # z =>
       IsInjective(<<x, y, z>>) /\ Range(<<x, y, z>>) = {x, y, z}
<1>1. IsInjective(<<>>) /\ Range(<<>>) = {}
  BY DEF IsInjective, Range
<1>2. ASSUME NEW x PROVE IsInjective(<<x>>) /\ Range(<<x>>) = {x}
  BY DEF IsInjective, Range
<1>3. ASSUME NEW x, NEW y, x # y PROVE IsInjective(<<x, y>>) /\ Range(<<x, y>>) = {x, y}
  <2>1. DOMAIN <<x, y>> = {1, 2}
    OBVIOUS
  <2> QED BY <1>3, <2>1 DEF IsInjective, Range
<1>4. ASSUME NEW x, NEW y, NEW z, x # y, x # z, y # z
      PROVE  IsInjective(<<x, y, z>>) /\ Range(<<x, y, z>>) = {x, y, z}
  <2>1. DOMAIN <<x, y, z>> = {1, 2, 3}
    OBVIOUS
  <2> QED BY <1>4, <2>1 DEF IsInjective, Range
<1> QED BY <1>1, <1>2, <1>3, <1>4

-----------------------------------------------------------------------------
(* No block is used after it was freed, and the lists and the heap agree.  *)
HeapInv ==
  /\ TypeOK /\ Owners
  /\ fault = FALSE
  /\ OneOwner(regs, idlist, live)

(* The registration found by the data id of a client is one of the 0x2C    *)
(* handler's.                                                              *)
LEMMA ClientsOwn ==
  ASSUME TypeOK, Owners, AppDids \cap DddiDids = {},
         NEW i \in DOMAIN regs, regs[i].did \in DddiDids
  PROVE  regs[i].owner = "dddi"
<1>1. regs[i].did \notin AppDids /\ regs[i].owner \in {"app", "dddi"}
  BY Places DEF Registration
<1> QED BY <1>1 DEF Owners

(* The owners of what is left after a removal.                             *)
LEMMA OwnersLeft ==
  ASSUME Owners, NEW S \in SUBSET DOMAIN regs, NEW s, Picks(s, regs', regs, S)
  PROVE  Owners'
<1>1. \A k \in DOMAIN regs' : s[k] \in DOMAIN regs /\ regs'[k] = regs[s[k]]
  BY DEF Picks
<1> QED BY <1>1 DEF Owners, Blocks

(* The owners are the same when only the items of an identifier change.    *)
LEMMA OwnersKept ==
  ASSUME Owners, NEW i \in DOMAIN regs, regs[i].owner = "dddi",
         DOMAIN regs' = DOMAIN regs, \A j \in DOMAIN regs \ {i} : regs'[j] = regs[j],
         regs'[i].did = regs[i].did, regs'[i].owner = regs[i].owner,
         regs'[i].list = regs[i].list
  PROVE  Owners'
BY DEF Owners, Blocks

(* A removal keeps the invariant.                                          *)
LEMMA HeapInvRemoval ==
  ASSUME HeapInv, TypeOK',
         NEW gone \in SUBSET DOMAIN regs, NEW dropped \in SUBSET DOMAIN idlist,
         \/ regs' = Only(regs, DOMAIN regs \ gone)
         \/ gone = {} /\ regs' = regs,
         \/ idlist' = Only(idlist, DOMAIN idlist \ dropped)
         \/ dropped = {} /\ idlist' = idlist
         \/ dropped = DOMAIN idlist /\ idlist' = <<>>,
         HeapStep({}, Frees(gone, dropped))
  PROVE  HeapInv'
<1>1. PICK s : Picks(s, regs', regs, DOMAIN regs \ gone)
  <2>1. CASE regs' = Only(regs, DOMAIN regs \ gone)
    BY <2>1, OnlyPicks DEF HeapInv, TypeOK
  <2>2. CASE gone = {} /\ regs' = regs
    <3>1. DOMAIN regs \ gone = DOMAIN regs
      BY <2>2
    <3> QED BY <2>2, <3>1, AllOrNothing DEF HeapInv, TypeOK
  <2> QED BY <2>1, <2>2
<1>2. PICK t : Picks(t, idlist', idlist, DOMAIN idlist \ dropped)
  <2>1. CASE idlist' = Only(idlist, DOMAIN idlist \ dropped)
    BY <2>1, OnlyPicks DEF HeapInv, TypeOK
  <2>2. CASE dropped = {} /\ idlist' = idlist
    <3>1. DOMAIN idlist \ dropped = DOMAIN idlist
      BY <2>2
    <3> QED BY <2>2, <3>1, AllOrNothing DEF HeapInv, TypeOK
  <2>3. CASE dropped = DOMAIN idlist /\ idlist' = <<>>
    <3>1. DOMAIN idlist \ dropped = {}
      BY <2>3
    <3> QED BY <2>3, <3>1, AllOrNothing DEF HeapInv, TypeOK
  <2> QED BY <2>1, <2>2, <2>3
<1>3. Owners'
  BY <1>1, OwnersLeft DEF HeapInv
<1>4. fault' = FALSE /\ OneOwner(regs', idlist', live')
  BY <1>1, <1>2, HeapRemoval DEF HeapInv
<1> QED BY <1>3, <1>4 DEF HeapInv

(* The application's registration takes one block.                         *)
LEMMA HeapInvAppAppend ==
  ASSUME HeapInv, TypeOK', NEW did \in AppDids, pending # None, Blocks \ live # {},
         regs' = Append(regs, AppReg(did)), idlist' = idlist,
         HeapStep({FreeBlocks[1]}, <<>>)
  PROVE  HeapInv'
<1> DEFINE n == Len(regs) + 1
           N == {<<"block", n, 0>>}
<1>1. TypeOK /\ Owners /\ fault = FALSE /\ OneOwner(regs, idlist, live) /\ live \subseteq Blocks
  BY DEF HeapInv, TypeOK
<1>2. AppReg(did) \in Registration
  BY <1>1, NewTypes
<1>3. /\ DOMAIN regs = 1 .. Len(regs) /\ Len(regs) \in Nat
      /\ DOMAIN regs' = 1 .. n
      /\ regs'[n] = AppReg(did) /\ \A j \in DOMAIN regs : regs'[j] = regs[j]
  BY <1>1, <1>2, AppendedTypes, Places
<1>4. DOMAIN regs' = DOMAIN regs \cup {n} /\ n \notin DOMAIN regs
  BY <1>3
<1> HIDE DEF n
<1>5. /\ regs'[n].owner = "app" /\ regs'[n].block = FreeBlocks[1]
      /\ regs'[n].did = did /\ regs'[n].items = <<>>
  BY <1>3, NewFields
<1>6. Owners'
  BY <1>1, <1>3, <1>4, <1>5 DEF Owners, Blocks
<1>7. \A p : p \in N <=>
        \/ p = <<"block", n, 0>>
        \/ regs'[n].owner = "dddi" /\ p = <<"list", n, 0>>
        \/ regs'[n].owner = "dddi" /\ \E k \in DOMAIN regs'[n].items : p = <<"item", n, k>>
        \/ \E j \in {} : p = <<"id", j, 0>>
  BY <1>5
<1>8. DOMAIN idlist' = DOMAIN idlist \cup {} /\ {} \cap DOMAIN idlist = {}
      /\ \A j \in DOMAIN idlist : idlist'[j] = idlist[j]
  OBVIOUS
<1>9. /\ PointerSet(regs', idlist') = PointerSet(regs, idlist) \cup N
      /\ \A p \in PointerSet(regs, idlist) :
           PointsTo(regs', idlist')[p] = PointsTo(regs, idlist)[p]
  <2> HIDE DEF N
  <2>1. Extended(regs, idlist, regs', idlist', n, {}, N)
    BY <1>3, <1>4, <1>7, <1>8, Zenon DEF Extended
  <2> QED BY <2>1, AppendedPointers
<1>10. PointsTo(regs', idlist')[<<"block", n, 0>>] = FreeBlocks[1]
  <2>1. n \in DOMAIN regs'
    BY <1>4
  <2>2. PointsTo(regs', idlist')[<<"block", n, 0>>] = regs'[n].block
    BY <2>1, BlockAt
  <2> QED BY <1>5, <2>2
<1>11. FreeBlocks[1] \notin live
  BY <1>1, FreshBlocks
<1>12. IsInjective(<<>>) /\ Range(<<>>) = {}
  BY FreeLists
<1>13. /\ \A p \in N : PointsTo(regs', idlist')[p] \notin live
       /\ \A p, q \in N : p = q
       /\ {FreeBlocks[1]} \ Range(<<>>) = {PointsTo(regs', idlist')[p] : p \in N}
       /\ Range(<<>>) \subseteq {FreeBlocks[1]} /\ Range(<<>>) \cap live = {}
  BY <1>10, <1>11, <1>12
<1>14. fault' = FALSE /\ OneOwner(regs', idlist', live')
  <2> HIDE DEF N
  <2> QED BY <1>1, <1>9, <1>12, <1>13, HeapGrowth
<1> QED BY <1>6, <1>14 DEF HeapInv

(* A new identifier: its registration, its data list, its first item and   *)
(* the entry of the id list; the temporary registration is freed again.    *)
(* Here n and e are the places of the registration and of the entry.       *)
LEMMA HeapInvIdentifier ==
  ASSUME HeapInv, TypeOK', NEW n, NEW e, Len(FreeBlocks) >= 5,
         DOMAIN regs' = DOMAIN regs \cup {n}, n \notin DOMAIN regs,
         \A j \in DOMAIN regs : regs'[j] = regs[j],
         DOMAIN idlist' = DOMAIN idlist \cup {e}, {e} \cap DOMAIN idlist = {},
         \A j \in DOMAIN idlist : idlist'[j] = idlist[j],
         regs'[n].owner = "dddi", regs'[n].block = FreeBlocks[4],
         regs'[n].did \in DddiDids, regs'[n].list = FreeBlocks[1],
         DOMAIN regs'[n].items = {1}, regs'[n].items[1] = FreeBlocks[3],
         idlist'[e].block = FreeBlocks[5],
         NEW new, new = {FreeBlocks[k] : k \in 1 .. 5},
         NEW frees, IsInjective(frees), Range(frees) = {FreeBlocks[2]},
         HeapStep(new, frees)
  PROVE  HeapInv'
<1> DEFINE N == {<<"block", n, 0>>, <<"list", n, 0>>, <<"item", n, 1>>, <<"id", e, 0>>}
           B == PointsTo(regs', idlist')
<1>1. TypeOK /\ Owners /\ fault = FALSE /\ OneOwner(regs, idlist, live) /\ live \subseteq Blocks
  BY DEF HeapInv, TypeOK
<1>2. /\ \A k \in 1 .. 5 : FreeBlocks[k] \in Blocks /\ FreeBlocks[k] \notin live
      /\ \A k, l \in 1 .. 5 : FreeBlocks[k] = FreeBlocks[l] => k = l
  BY <1>1, FreshBlocks
<1>3. Owners'
  <2>1. /\ regs'[n].did \in DddiDids /\ regs'[n].list \in Blocks /\ regs'[n].owner # "app"
        /\ Blocks' = Blocks
    BY <1>2 DEF Blocks
  <2>2. ASSUME NEW i \in DOMAIN regs
        PROVE  /\ regs'[i].owner = "dddi" => regs'[i].did \in DddiDids /\ regs'[i].list \in Blocks
               /\ regs'[i].owner = "app"  => regs'[i].did \in AppDids /\ regs'[i].items = <<>>
    BY <1>1 DEF Owners
  <2> QED BY <2>1, <2>2 DEF Owners
<1>4. \A p : p \in N <=>
         \/ p = <<"block", n, 0>>
         \/ regs'[n].owner = "dddi" /\ p = <<"list", n, 0>>
         \/ regs'[n].owner = "dddi" /\ \E k \in DOMAIN regs'[n].items : p = <<"item", n, k>>
         \/ \E j \in {e} : p = <<"id", j, 0>>
  OBVIOUS
<1>5. /\ PointerSet(regs', idlist') = PointerSet(regs, idlist) \cup N
      /\ \A p \in PointerSet(regs, idlist) :
           PointsTo(regs', idlist')[p] = PointsTo(regs, idlist)[p]
  <2> HIDE DEF N
  <2>1. Extended(regs, idlist, regs', idlist', n, {e}, N)
    BY <1>4, Zenon DEF Extended
  <2> QED BY <2>1, AppendedPointers
<1>6. /\ B[<<"block", n, 0>>] = FreeBlocks[4] /\ B[<<"list", n, 0>>] = FreeBlocks[1]
      /\ B[<<"item", n, 1>>] = FreeBlocks[3] /\ B[<<"id", e, 0>>] = FreeBlocks[5]
  <2>1. n \in DOMAIN regs' /\ e \in DOMAIN idlist' /\ 1 \in DOMAIN regs'[n].items
    OBVIOUS
  <2>2. /\ B[<<"block", n, 0>>] = regs'[n].block /\ B[<<"list", n, 0>>] = regs'[n].list
        /\ B[<<"item", n, 1>>] = regs'[n].items[1] /\ B[<<"id", e, 0>>] = idlist'[e].block
    <3>1. IdentifierPointsTo(regs', idlist', n, 1, e)
      BY <2>1, TargetsAt
    <3> QED BY <3>1 DEF IdentifierPointsTo
  <2> HIDE DEF B
  <2> QED BY <2>2
<1> HIDE DEF B
<1>7. /\ \A p \in N : B[p] \notin live
      /\ \A p, q \in N : B[p] = B[q] => p = q
      /\ {B[p] : p \in N} = {FreeBlocks[1], FreeBlocks[3], FreeBlocks[4], FreeBlocks[5]}
  <2>1. /\ FreeBlocks[1] \notin live /\ FreeBlocks[3] \notin live
        /\ FreeBlocks[4] \notin live /\ FreeBlocks[5] \notin live
        /\ FreeBlocks[1] # FreeBlocks[3] /\ FreeBlocks[1] # FreeBlocks[4]
        /\ FreeBlocks[1] # FreeBlocks[5] /\ FreeBlocks[3] # FreeBlocks[4]
        /\ FreeBlocks[3] # FreeBlocks[5] /\ FreeBlocks[4] # FreeBlocks[5]
    BY <1>2
  <2>2. \A p \in N : B[p] \notin live
    BY <1>6, <2>1
  <2>3. ASSUME NEW p \in N, NEW q \in N, B[p] = B[q] PROVE p = q
    <3>1. CASE p = <<"block", n, 0>>
      BY <1>6, <2>1, <2>3, <3>1
    <3>2. CASE p = <<"list", n, 0>>
      BY <1>6, <2>1, <2>3, <3>2
    <3>3. CASE p = <<"item", n, 1>>
      BY <1>6, <2>1, <2>3, <3>3
    <3>4. CASE p = <<"id", e, 0>>
      BY <1>6, <2>1, <2>3, <3>4
    <3> QED BY <3>1, <3>2, <3>3, <3>4
  <2>4. {B[p] : p \in N} = {FreeBlocks[1], FreeBlocks[3], FreeBlocks[4], FreeBlocks[5]}
    BY <1>6
  <2> QED BY <2>2, <2>3, <2>4
<1>8. /\ new \ {FreeBlocks[2]} = {FreeBlocks[1], FreeBlocks[3], FreeBlocks[4], FreeBlocks[5]}
      /\ FreeBlocks[2] \in new /\ FreeBlocks[2] \notin live
  BY <1>2
<1>9. /\ new \ Range(frees) = {B[p] : p \in N}
      /\ Range(frees) \subseteq new /\ Range(frees) \cap live = {}
  <2>1. new \ Range(frees) = new \ {FreeBlocks[2]}
    OBVIOUS
  <2>2. Range(frees) \subseteq new /\ Range(frees) \cap live = {}
    BY <1>8
  <2> QED BY <1>7, <1>8, <2>1, <2>2, Zenon
<1>10. fault' = FALSE /\ OneOwner(regs', idlist', live')
  <2> HIDE DEF N
  <2> QED BY <1>1, <1>5, <1>7, <1>9, HeapGrowth DEF B
<1> QED BY <1>3, <1>10 DEF HeapInv

LEMMA HeapInvDefineNew ==
  ASSUME HeapInv, TypeOK', NEW did \in DddiDids,
         Len(FreeBlocks) >= 5, find_next_dynamic_id # None,
         regs' = Append(regs, NewReg(did)), idlist' = Append(idlist, NewEntry),
         HeapStep({FreeBlocks[k] : k \in 1 .. 5}, <<FreeBlocks[2]>>)
  PROVE  HeapInv'
<1> DEFINE n == Len(regs) + 1
           e == Len(idlist) + 1
<1>1. TypeOK
  BY DEF HeapInv
<1>2. NewReg(did) \in Registration /\ NewEntry \in [block : Blocks, id : 1 .. MaxId]
  BY <1>1, NewTypes
<1>3. /\ DOMAIN regs = 1 .. Len(regs) /\ Len(regs) \in Nat
      /\ DOMAIN regs' = 1 .. n
      /\ regs'[n] = NewReg(did) /\ \A j \in DOMAIN regs : regs'[j] = regs[j]
  BY <1>1, <1>2, AppendedTypes, Places
<1>4. DOMAIN regs' = DOMAIN regs \cup {n} /\ n \notin DOMAIN regs
  BY <1>3
<1>5. /\ DOMAIN idlist = 1 .. Len(idlist) /\ Len(idlist) \in Nat
      /\ DOMAIN idlist' = 1 .. e
      /\ idlist'[e] = NewEntry /\ \A j \in DOMAIN idlist : idlist'[j] = idlist[j]
  BY <1>1, <1>2, AppendedEntry, Places
<1>6. DOMAIN idlist' = DOMAIN idlist \cup {e} /\ {e} \cap DOMAIN idlist = {}
  BY <1>5
<1> HIDE DEF n, e
<1>7. /\ regs'[n].owner = "dddi" /\ regs'[n].block = FreeBlocks[4]
      /\ regs'[n].did \in DddiDids /\ regs'[n].list = FreeBlocks[1]
      /\ regs'[n].items = <<FreeBlocks[3]>> /\ idlist'[e].block = FreeBlocks[5]
  BY <1>3, <1>5, NewFields
<1>8. DOMAIN regs'[n].items = {1} /\ regs'[n].items[1] = FreeBlocks[3]
  BY <1>7
<1>9. IsInjective(<<FreeBlocks[2]>>) /\ Range(<<FreeBlocks[2]>>) = {FreeBlocks[2]}
  BY FreeLists
<1> QED BY <1>3, <1>4, <1>5, <1>6, <1>7, <1>8, <1>9, HeapInvIdentifier, Zenon

(* The error paths of a new identifier give back exactly what they took.   *)
LEMMA ErrorPathsExact ==
  ASSUME HeapInv, TypeOK', Len(FreeBlocks) >= 5,
         NEW failed \in Allocations \ {"REG_ID_ITEM"}, UNCHANGED <<regs, idlist>>,
         HeapStep(AllocatedBefore(failed, FreeBlocks[1], FreeBlocks[2], FreeBlocks[3], FreeBlocks[4]),
                  ErrorFrees(failed, FreeBlocks[1], FreeBlocks[2], FreeBlocks[3], FreeBlocks[4]))
  PROVE  HeapInv'
<1> DEFINE new == AllocatedBefore(failed, FreeBlocks[1], FreeBlocks[2], FreeBlocks[3], FreeBlocks[4])
           frees == ErrorFrees(failed, FreeBlocks[1], FreeBlocks[2], FreeBlocks[3], FreeBlocks[4])
<1>1. TypeOK /\ Owners /\ fault = FALSE /\ OneOwner(regs, idlist, live) /\ live \subseteq Blocks
  BY DEF HeapInv, TypeOK
<1>2. /\ FreeBlocks[1] # FreeBlocks[2] /\ FreeBlocks[1] # FreeBlocks[3]
      /\ FreeBlocks[2] # FreeBlocks[3]
      /\ FreeBlocks[1] \notin live /\ FreeBlocks[2] \notin live /\ FreeBlocks[3] \notin live
  BY <1>1, FreshBlocks
<1>3. IsInjective(frees) /\ Range(frees) = new /\ new \cap live = {}
  <2>1. CASE failed = "DATA_LIST"
    <3>1. frees = <<>> /\ new = {}
      BY <2>1 DEF ErrorFrees, AllocatedBefore
    <3> QED BY <3>1, FreeLists
  <2>2. CASE failed = "TEMP_REG"
    <3>1. frees = <<FreeBlocks[1]>> /\ new = {FreeBlocks[1]}
      BY <2>2 DEF ErrorFrees, AllocatedBefore
    <3> HIDE DEF frees, new
    <3> QED BY <1>2, <3>1, FreeLists
  <2>3. CASE failed = "DATA_ITEM"
    <3>1. frees = <<FreeBlocks[1], FreeBlocks[2]>> /\ new = {FreeBlocks[1], FreeBlocks[2]}
      BY <2>3 DEF ErrorFrees, AllocatedBefore
    <3> HIDE DEF frees, new
    <3> QED BY <1>2, <3>1, FreeLists
  <2>4. CASE failed = "REGISTRATION"
    <3>1. /\ frees = <<FreeBlocks[3], FreeBlocks[1], FreeBlocks[2]>>
          /\ new = {FreeBlocks[1], FreeBlocks[2], FreeBlocks[3]}
      BY <2>4 DEF ErrorFrees, AllocatedBefore
    <3> HIDE DEF frees, new
    <3>2. IsInjective(frees) /\ Range(frees) = {FreeBlocks[3], FreeBlocks[1], FreeBlocks[2]}
      BY <1>2, <3>1, FreeLists
    <3> QED BY <1>2, <3>1, <3>2
  <2> QED BY <2>1, <2>2, <2>3, <2>4 DEF Allocations
<1>4. HeapStep(new, frees)
  OBVIOUS
<1> HIDE DEF new, frees
<1>5. live' = live /\ fault' = FALSE
  <2>1. live' = (live \cup new) \ Range(frees)
    BY <1>4 DEF HeapStep
  <2>2. fault' = (fault \/ ~IsInjective(frees) \/ ~(Range(frees) \subseteq live \cup new))
    BY <1>4 DEF HeapStep
  <2> QED BY <1>1, <1>3, <2>1, <2>2
<1>6. Owners'
  BY <1>1 DEF Owners, Blocks
<1> QED BY <1>1, <1>5, <1>6 DEF HeapInv

(* One more item for an identifier, at n, takes one block.                 *)
LEMMA HeapInvItem ==
  ASSUME HeapInv, TypeOK', Owners', NEW i, NEW n, idlist' = idlist,
         ItemsOnly(regs, regs', i),
         DOMAIN regs'[i].items = DOMAIN regs[i].items \cup {n}, n \notin DOMAIN regs[i].items,
         \A k \in DOMAIN regs[i].items : regs'[i].items[k] = regs[i].items[k],
         NEW b, regs'[i].items[n] = b, b \notin live,
         NEW frees, IsInjective(frees), Range(frees) = {}, HeapStep({b}, frees)
  PROVE  HeapInv'
<1> DEFINE N == {<<"item", i, n>>}
           A == PointsTo(regs, idlist)
           B == PointsTo(regs', idlist')
<1>1. fault = FALSE /\ OneOwner(regs, idlist, live)
  BY DEF HeapInv
<1>2. /\ \A p : p \in PointerSet(regs', idlist') <=>
             \/ p \in PointerSet(regs, idlist) /\ ~ItemOf(p, i)
             \/ \E k \in DOMAIN regs'[i].items : p = <<"item", i, k>>
      /\ \A p \in PointerSet(regs, idlist) : ~ItemOf(p, i) => B[p] = A[p]
      /\ \A k \in DOMAIN regs'[i].items : B[<<"item", i, k>>] = regs'[i].items[k]
      /\ \A k \in DOMAIN regs[i].items : A[<<"item", i, k>>] = regs[i].items[k]
      /\ \A p \in PointerSet(regs, idlist) :
             ItemOf(p, i) <=> \E k \in DOMAIN regs[i].items : p = <<"item", i, k>>
  <2>1. ItemsMove(regs, regs', idlist', i)
    BY ItemPointers
  <2> QED BY <2>1 DEF ItemsMove
<1> HIDE DEF A, B
<1>3. ASSUME NEW p PROVE p \in PointerSet(regs', idlist') <=> p \in PointerSet(regs, idlist) \/ p \in N
  <2>1. i \in DOMAIN regs /\ regs[i].owner = "dddi"
    BY DEF ItemsOnly
  <2>2. \A k \in DOMAIN regs[i].items : <<"item", i, k>> \in PointerSet(regs, idlist)
    BY <2>1, PointerKinds
  <2> QED BY <1>2, <2>2
<1>4. ASSUME NEW p \in PointerSet(regs, idlist) PROVE B[p] = A[p]
  <2>1. CASE ~ItemOf(p, i)
    BY <1>2, <2>1
  <2>2. CASE ItemOf(p, i)
    <3>1. PICK k \in DOMAIN regs[i].items : p = <<"item", i, k>>
      BY <1>2, <2>2
    <3> QED BY <1>2, <3>1
  <2> QED BY <2>1, <2>2
<1>5. B[<<"item", i, n>>] = b
  BY <1>2
<1>6. /\ \A p \in N : B[p] \notin live
      /\ \A p, q \in N : B[p] = B[q] => p = q
      /\ {b} \ Range(frees) = {B[p] : p \in N}
      /\ Range(frees) \subseteq {b} /\ Range(frees) \cap live = {}
  BY <1>5
<1>7. /\ PointerSet(regs', idlist') = PointerSet(regs, idlist) \cup N
      /\ \A p \in PointerSet(regs, idlist) : B[p] = A[p]
  <2> HIDE DEF N
  <2> QED BY <1>3, <1>4
<1>8. fault' = FALSE /\ OneOwner(regs', idlist', live')
  <2> HIDE DEF N
  <2> QED BY <1>1, <1>6, <1>7, HeapGrowth DEF A, B
<1> QED BY <1>8 DEF HeapInv

(* The items of an identifier are freed; the identifier stays.             *)
LEMMA HeapInvNoItems ==
  ASSUME HeapInv, TypeOK', Owners', NEW i, idlist' = idlist,
         ItemsOnly(regs, regs', i), DOMAIN regs'[i].items = {},
         HeapStep({}, regs[i].items)
  PROVE  HeapInv'
<1> DEFINE A == PointsTo(regs, idlist)
           B == PointsTo(regs', idlist')
           P == PointerSet(regs, idlist)
           Q == PointerSet(regs', idlist')
           G == {p \in P : ItemOf(p, i)}
           m == [p \in Q |-> p]
           its == regs[i].items
<1>1. /\ fault = FALSE /\ IsInjective(A) /\ live = Range(A)
      /\ DOMAIN A = P /\ DOMAIN B = Q
  BY PointerTargets DEF HeapInv, OneOwner
<1>2. /\ \A p : p \in Q <=>
             \/ p \in P /\ ~ItemOf(p, i)
             \/ \E k \in DOMAIN regs'[i].items : p = <<"item", i, k>>
      /\ \A p \in P : ~ItemOf(p, i) => B[p] = A[p]
      /\ \A k \in DOMAIN its : A[<<"item", i, k>>] = its[k]
      /\ \A p \in P : ItemOf(p, i) <=> \E k \in DOMAIN its : p = <<"item", i, k>>
  <2>1. ItemsMove(regs, regs', idlist', i)
    BY ItemPointers
  <2> QED BY <2>1 DEF ItemsMove
<1>3. \A k \in DOMAIN its : <<"item", i, k>> \in P
  BY PointerKinds DEF ItemsOnly
<1> HIDE DEF A, B, P, Q, its
<1>4. Q = P \ G
  BY <1>2
<1>5. \A k \in DOMAIN its : <<"item", i, k>> \in G
  BY <1>2, <1>3
<1>6. IsInjective(its)
  <2> SUFFICES ASSUME NEW k \in DOMAIN its, NEW l \in DOMAIN its, its[k] = its[l] PROVE k = l
    BY DEF IsInjective
  <2>1. A[<<"item", i, k>>] = A[<<"item", i, l>>]
    BY <1>2
  <2>2. <<"item", i, k>> = <<"item", i, l>>
    BY <1>1, <1>3, <2>1, Zenon DEF IsInjective
  <2> QED BY <2>2
<1>7. Range(its) = {A[p] : p \in G}
  <2>1. ASSUME NEW x \in Range(its) PROVE x \in {A[p] : p \in G}
    <3>1. PICK k \in DOMAIN its : x = its[k]
      BY DEF Range
    <3> QED BY <1>2, <1>5, <3>1
  <2>2. ASSUME NEW p \in G PROVE A[p] \in Range(its)
    <3>1. PICK k \in DOMAIN its : p = <<"item", i, k>>
      BY <1>2
    <3> QED BY <1>2, <3>1 DEF Range
  <2> QED BY <2>1, <2>2
<1>8. Range(its) \subseteq live
  BY <1>1, <1>7 DEF Range
<1>9. IsInjective(B) /\ Range(B) = Range(A) \ {A[p] : p \in G}
  <2>1. G \in SUBSET DOMAIN A /\ m \in [DOMAIN B -> DOMAIN A \ G]
    BY <1>1, <1>4
  <2>2. \A p \in DOMAIN B : B[p] = A[m[p]]
    BY <1>1, <1>2, <1>4
  <2>3. \A p, q \in DOMAIN B : m[p] = m[q] => p = q
    BY <1>1
  <2>4. \A o \in DOMAIN A \ G : \E p \in DOMAIN B : m[p] = o
    BY <1>1, <1>4
  <2> HIDE DEF G, m
  <2> QED BY <1>1, <2>1, <2>2, <2>3, <2>4, OwnersMove
<1>10. HeapStep({}, its)
  BY DEF its
<1>11. live' = live \ Range(its) /\ fault' = FALSE
  <2>1. live' = (live \cup {}) \ Range(its)
    BY <1>10 DEF HeapStep
  <2>2. fault' = (fault \/ ~IsInjective(its) \/ ~(Range(its) \subseteq live \cup {}))
    BY <1>10 DEF HeapStep
  <2> QED BY <1>1, <1>6, <1>8, <2>1, <2>2
<1>12. live' = Range(B)
  BY <1>1, <1>7, <1>9, <1>11
<1>13. OneOwner(regs', idlist', live')
  BY <1>9, <1>12 DEF OneOwner, B
<1> QED BY <1>11, <1>13 DEF HeapInv

LEMMA HeapInvStep ==
  ASSUME AppDids \cap DddiDids = {}, "REG_ID_ITEM" \notin MayFail, HeapInv, [Next]_vars
  PROVE  HeapInv'
<1>0. TypeOK /\ TypeOK' /\ Owners /\ fault = FALSE /\ OneOwner(regs, idlist, live)
      /\ live \subseteq Blocks /\ regs \in Seq(Registration)
  BY TypeStep DEF HeapInv, TypeOK
<1>a. ASSUME UNCHANGED <<regs, idlist, live, fault>> PROVE HeapInv'
  <2>1. Owners'
    BY <1>0, <1>a DEF Owners, Blocks
  <2> QED BY <1>0, <1>a, <2>1 DEF HeapInv
<1>1. CASE AppFindId
  BY <1>1, <1>a DEF AppFindId
<1>2. ASSUME NEW did \in AppDids, AppAppend(did) PROVE HeapInv'
  <2>1. pending # None /\ idlist' = idlist
    BY <1>2 DEF AppAppend
  <2>2. CASE /\ Blocks \ live # {} /\ HeapStep({FreeBlocks[1]}, <<>>)
             /\ regs' = Append(regs, AppReg(did))
    BY <1>0, <2>1, <2>2, HeapInvAppAppend
  <2>3. CASE UNCHANGED <<regs, live, fault, appIds>>
    BY <1>a, <2>1, <2>3
  <2> QED BY <1>2, <2>2, <2>3 DEF AppAppend, AppReg
<1>3. ASSUME NEW id \in appIds, AppUnregister(id) PROVE HeapInv'
  <2> DEFINE S == {j \in DOMAIN regs : regs[j].id = id}
             i == First(S)
  <2>1. CASE i # 0 /\ regs' = Only(regs, DOMAIN regs \ {i}) /\ HeapStep({}, Frees({i}, {}))
    <3>1. S \in SUBSET DOMAIN regs
      OBVIOUS
    <3>2. {i} \in SUBSET DOMAIN regs /\ {} \in SUBSET DOMAIN idlist
      BY <1>0, <2>1, <3>1, FirstPlace
    <3>3. idlist' = idlist
      BY <1>3 DEF AppUnregister
    <3> HIDE DEF i
    <3> QED BY <1>0, <2>1, <3>2, <3>3, HeapInvRemoval
  <2>2. CASE UNCHANGED <<regs, live, fault, appIds>>
    BY <1>3, <1>a, <2>2 DEF AppUnregister
  <2> QED BY <1>3, <2>1, <2>2 DEF AppUnregister
<1>4. ASSUME NEW did \in DddiDids, Define(did) PROVE HeapInv'
  <2>1. CASE Existing(did) # 0 /\ AppendItem(Existing(did)) /\ UNCHANGED idlist
    <3> DEFINE i == Existing(did)
    <3>1. i \in DOMAIN regs /\ regs[i] \in Registration /\ regs[i].did = did
      BY <1>0, <2>1, ExistingPlace, Places
    <3>2. regs[i].owner = "dddi" /\ regs[i].items \in Seq(Blocks)
      BY <1>0, <3>1, ClientsOwn DEF Registration
    <3>3. CASE /\ Blocks \ live # {} /\ HeapStep({FreeBlocks[1]}, <<>>)
               /\ regs' = [regs EXCEPT ![i].items = Append(@, FreeBlocks[1])]
      <4> DEFINE its == Append(regs[i].items, FreeBlocks[1])
                 n == Len(regs[i].items) + 1
      <4>1. FreeBlocks[1] \in Blocks /\ FreeBlocks[1] \notin live
        BY <1>0, <3>3, FreshBlocks
      <4>2. /\ its \in Seq(Blocks) /\ Len(its) = n /\ its[n] = FreeBlocks[1]
            /\ \A k \in 1 .. Len(regs[i].items) : its[k] = regs[i].items[k]
        BY <3>2, <4>1, AppendProperties
      <4>3. /\ Len(regs[i].items) \in Nat /\ DOMAIN regs[i].items = 1 .. Len(regs[i].items)
            /\ DOMAIN its = 1 .. n
        BY <3>2, <4>2, LenProperties
      <4>4. DOMAIN its = DOMAIN regs[i].items \cup {n} /\ n \notin DOMAIN regs[i].items
        BY <4>3
      <4>5. /\ \A k \in DOMAIN regs[i].items : its[k] = regs[i].items[k]
            /\ its[n] = FreeBlocks[1]
        BY <4>2, <4>3
      <4>6. regs' = [regs EXCEPT ![i].items = its]
        BY <3>3
      <4> HIDE DEF its, n, i
      <4>7. /\ DOMAIN regs' = DOMAIN regs /\ \A j \in DOMAIN regs \ {i} : regs'[j] = regs[j]
            /\ regs'[i].items = its /\ regs'[i].block = regs[i].block
            /\ regs'[i].did = regs[i].did /\ regs'[i].owner = regs[i].owner
            /\ regs'[i].list = regs[i].list
        BY <1>0, <3>1, <4>2, <4>6, ItemsReplaced
      <4>8. Owners' /\ ItemsOnly(regs, regs', i)
        BY <1>0, <3>1, <3>2, <4>7, OwnersKept DEF ItemsOnly
      <4>9. IsInjective(<<>>) /\ Range(<<>>) = {}
        BY FreeLists
      <4>10. /\ DOMAIN regs'[i].items = DOMAIN regs[i].items \cup {n}
             /\ \A k \in DOMAIN regs[i].items : regs'[i].items[k] = regs[i].items[k]
             /\ regs'[i].items[n] = FreeBlocks[1]
        BY <4>4, <4>5, <4>7
      <4>11. idlist' = idlist /\ HeapStep({FreeBlocks[1]}, <<>>)
        BY <2>1, <3>3
      <4> QED BY <1>0, <4>1, <4>4, <4>8, <4>9, <4>10, <4>11, HeapInvItem, Zenon
    <3>4. CASE HeapStep({}, regs[i].items) /\ regs' = [regs EXCEPT ![i].items = <<>>]
      <4>0. <<>> \in Seq(Blocks)
        BY EmptySeq
      <4>1. PICK its \in Seq(Blocks) : its = <<>>
        BY <4>0
      <4> HIDE DEF i
      <4>2. /\ DOMAIN regs' = DOMAIN regs /\ \A j \in DOMAIN regs \ {i} : regs'[j] = regs[j]
            /\ regs'[i].items = its /\ regs'[i].block = regs[i].block
            /\ regs'[i].did = regs[i].did /\ regs'[i].owner = regs[i].owner
            /\ regs'[i].list = regs[i].list
        <5>1. regs' = [regs EXCEPT ![i].items = its]
          BY <3>4, <4>1
        <5> QED BY <1>0, <3>1, <5>1, ItemsReplaced
      <4>3. Owners' /\ ItemsOnly(regs, regs', i)
        BY <1>0, <3>1, <3>2, <4>2, OwnersKept DEF ItemsOnly
      <4>4. DOMAIN regs'[i].items = {} /\ idlist' = idlist
        BY <2>1, <4>1, <4>2
      <4> QED BY <1>0, <3>4, <4>3, <4>4, HeapInvNoItems
    <3> QED BY <2>1, <3>3, <3>4 DEF AppendItem
  <2>2. CASE DefineNew(did)
    <3>1. Len(FreeBlocks) >= 5
      BY <2>2 DEF DefineNew
    <3>2. CASE /\ find_next_dynamic_id # None
               /\ HeapStep({FreeBlocks[k] : k \in 1 .. 5}, <<FreeBlocks[2]>>)
               /\ regs' = Append(regs, NewReg(did))
               /\ idlist' = Append(idlist, NewEntry)
      BY <1>0, <3>1, <3>2, HeapInvDefineNew
    <3>3. ASSUME NEW failed \in MayFail \cup (IF find_next_dynamic_id = None THEN {"REGISTRATION"} ELSE {}),
                 HeapStep(AllocatedBefore(failed, FreeBlocks[1], FreeBlocks[2], FreeBlocks[3], FreeBlocks[4]),
                          ErrorFrees(failed, FreeBlocks[1], FreeBlocks[2], FreeBlocks[3], FreeBlocks[4])),
                 UNCHANGED <<regs, idlist>>
          PROVE  HeapInv'
      <4>1. failed \in Allocations \ {"REG_ID_ITEM"}
        BY RegistryAssumption DEF Allocations
      <4> QED BY <1>0, <3>1, <3>3, <4>1, ErrorPathsExact
    <3> QED BY <2>2, <3>2, <3>3 DEF DefineNew, NewReg, NewEntry
  <2> QED BY <1>4, <2>1, <2>2 DEF Define
<1>5. ASSUME NEW did \in DddiDids, ClearSingle(did) PROVE HeapInv'
  <2> DEFINE S == {j \in DOMAIN regs : regs[j].did = did}
             i == First(S)
             id == IF i = 0 THEN 0 ELSE regs[i].id
             dropped == {j \in DOMAIN idlist : idlist[j].id = id}
  <2>1. /\ idlist' = Only(idlist, DOMAIN idlist \ dropped)
        /\ \/ /\ i # 0 /\ regs' = Only(regs, DOMAIN regs \ {i})
              /\ HeapStep({}, Frees({i}, dropped))
           \/ regs' = regs /\ HeapStep({}, Frees({}, dropped))
    BY <1>5 DEF ClearSingle
  <2>2. S \in SUBSET DOMAIN regs /\ dropped \in SUBSET DOMAIN idlist
    OBVIOUS
  <2>3. i # 0 => {i} \in SUBSET DOMAIN regs
    BY <1>0, <2>2, FirstPlace
  <2>4. {} \in SUBSET DOMAIN regs
    OBVIOUS
  <2> HIDE DEF i, dropped
  <2> QED BY <1>0, <2>1, <2>2, <2>3, <2>4, HeapInvRemoval
<1>6. CASE ClearAll
  <2> DEFINE gone == {i \in DOMAIN regs :
                        Cardinality({j \in 1 .. i : regs[j].id = regs[i].id}) <=
                          Cardinality({j \in DOMAIN idlist : idlist[j].id = regs[i].id})}
  <2>1. /\ regs' = Only(regs, DOMAIN regs \ gone) /\ idlist' = <<>>
        /\ HeapStep({}, Frees(gone, DOMAIN idlist))
    BY <1>6 DEF ClearAll
  <2>2. gone \in SUBSET DOMAIN regs /\ DOMAIN idlist \in SUBSET DOMAIN idlist
    OBVIOUS
  <2> HIDE DEF gone
  <2> QED BY <1>0, <2>1, <2>2, HeapInvRemoval
<1>7. CASE UNCHANGED vars
  BY <1>7, <1>a DEF vars
<1> QED BY <1>1, <1>2, <1>3, <1>4, <1>5, <1>6, <1>7 DEF Next

(* The blocks with an owner are the blocks still needed.                   *)
LEMMA OwnedIsReachable ==
  ASSUME TypeOK, Owners
  PROVE  Range(PointsTo(regs, idlist)) = Reachable
<1> DEFINE A == PointsTo(regs, idlist)
           P == PointerSet(regs, idlist)
<1>0. \A b : b \in Reachable <=>
        \/ \E i \in DOMAIN regs : b = regs[i].block
        \/ \E i \in DOMAIN regs : regs[i].owner = "dddi" /\ b = regs[i].list
        \/ \E i \in DOMAIN regs : \E k \in DOMAIN regs[i].items : b = regs[i].items[k]
        \/ \E j \in DOMAIN idlist : b = idlist[j].block
  BY DEF Reachable, Range
<1>1. ASSUME NEW p \in P PROVE A[p] \in Reachable
  <2>1. CASE \E i \in DOMAIN regs : p = <<"block", i, 0>>
    BY <1>0, <2>1, PointerTargets
  <2>2. CASE \E i \in DOMAIN regs : regs[i].owner = "dddi" /\ p = <<"list", i, 0>>
    BY <1>0, <2>2, PointerTargets
  <2>3. CASE \E i \in DOMAIN regs : regs[i].owner = "dddi" /\
               \E k \in DOMAIN regs[i].items : p = <<"item", i, k>>
    BY <1>0, <2>3, PointerTargets
  <2>4. CASE \E j \in DOMAIN idlist : p = <<"id", j, 0>>
    BY <1>0, <2>4, PointerTargets
  <2> QED BY <2>1, <2>2, <2>3, <2>4, PointerKinds
<1>2. ASSUME NEW b \in Reachable PROVE \E p \in P : A[p] = b
  <2>1. ASSUME NEW i \in DOMAIN regs, b = regs[i].block PROVE \E p \in P : A[p] = b
    <3>1. <<"block", i, 0>> \in P
      BY PointerKinds
    <3> QED BY <2>1, <3>1, PointerTargets
  <2>2. ASSUME NEW i \in DOMAIN regs, regs[i].owner = "dddi", b = regs[i].list
        PROVE  \E p \in P : A[p] = b
    <3>1. <<"list", i, 0>> \in P
      BY <2>2, PointerKinds
    <3> QED BY <2>2, <3>1, PointerTargets
  <2>3. ASSUME NEW i \in DOMAIN regs, NEW k \in DOMAIN regs[i].items, b = regs[i].items[k]
        PROVE  \E p \in P : A[p] = b
    <3>1. regs[i].owner = "dddi"
      <4>1. regs[i].owner \in {"app", "dddi"} /\ regs[i].items # <<>>
        BY Places DEF Registration
      <4> QED BY <4>1 DEF Owners
    <3>2. <<"item", i, k>> \in P
      BY <3>1, PointerKinds
    <3> QED BY <2>3, <3>1, <3>2, PointerTargets
  <2>4. ASSUME NEW j \in DOMAIN idlist, b = idlist[j].block PROVE \E p \in P : A[p] = b
    <3>1. <<"id", j, 0>> \in P
      BY PointerKinds
    <3> QED BY <2>4, <3>1, PointerTargets
  <2> QED BY <1>0, <2>1, <2>2, <2>3, <2>4
<1>3. DOMAIN A = P
  BY PointerTargets
<1> HIDE DEF A, P
<1>4. Range(A) = Reachable
  BY <1>1, <1>2, <1>3 DEF Range
<1> QED BY <1>4 DEF A

(* Every path of the 0x2C handler and of the application's registrations,  *)
(* error paths and preemption included, frees each block once and exactly  *)
(* when nothing refers to it any more: for a heap of any size and any      *)
(* number of identifiers and items, as long as the last allocation of a    *)
(* new identifier succeeds (the double free of the run registry_oom) and   *)
(* clients and application use different data ids.                         *)
THEOREM HeapCorrect ==
  ASSUME AppDids \cap DddiDids = {}, "REG_ID_ITEM" \notin MayFail
  PROVE  Spec => []HeapOK
<1>1. Init => HeapInv
  <2> SUFFICES ASSUME Init PROVE HeapInv
    OBVIOUS
  <2>1. DOMAIN regs = {} /\ DOMAIN idlist = {} /\ live = {} /\ fault = FALSE
    BY DEF Init
  <2>2. TypeOK /\ Owners
    BY <2>1, InitTypes DEF Owners
  <2>3. PointerSet(regs, idlist) = {}
    BY <2>1, PointerKinds
  <2>4. DOMAIN PointsTo(regs, idlist) = {}
    BY <2>3, PointerTargets
  <2>5. OneOwner(regs, idlist, live)
    BY <2>1, <2>4 DEF OneOwner, IsInjective, Range
  <2> QED BY <2>1, <2>2, <2>5 DEF HeapInv
<1>2. HeapInv /\ [Next]_vars => HeapInv'
  BY HeapInvStep
<1>3. HeapInv => HeapOK
  BY OwnedIsReachable DEF HeapInv, OneOwner, HeapOK, HeapExact, NoDoubleFree
<1> QED BY <1>1, <1>2, <1>3, PTL DEF Spec
=============================================================================
