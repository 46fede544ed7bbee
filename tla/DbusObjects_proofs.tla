------------------------- MODULE DbusObjects_proofs -------------------------
(***************************************************************************)
(* The registry of D-Bus modules keeps its pointers in agreement, answers  *)
(* "no such method" only when that is so, and implements ModuleList; and   *)
(* what Introspect tells is what can be called; for every set of modules,  *)
(* names, handlers' results and contents.                                  *)
(***************************************************************************)
EXTENDS DbusObjects, SequenceTheorems, FiniteSetTheorems, WellFoundedInduction,
        TLAPS

(* The k-th module of the list; Null past its ends. *)
NodeAt(k) == IF k \in DOMAIN order THEN order[k] ELSE Null
Places == 1 .. Len(order) + 1

-----------------------------------------------------------------------------
(* The inductive invariant.  Chain is Shape while the list is cleared as   *)
(* well: that changes nothing but the modules' states.                     *)
Chain == /\ head = NodeAt(1) /\ tail = NodeAt(Len(order))
         /\ \A k \in DOMAIN order : next[order[k]] = NodeAt(k + 1)
         /\ \A j, k \in DOMAIN order : order[j] = order[k] => j = k

(* Where a removal is: past modules with other names. *)
RemovalAt(k) == /\ current = NodeAt(k) /\ prev = NodeAt(k - 1)
                /\ \A j \in 1 .. k - 1 : NameOf[order[j]] # doomed
RemovalPlace == op = "remove" =>
                  /\ doomed \in Names
                  /\ \E k \in Places : RemovalAt(k)

(* Where a clearing is: what it has passed is destroyed, the rest linked. *)
ClearingAt(k) == /\ current = NodeAt(k)
                 /\ \A m \in Modules :
                      Linked(m) <=> \E j \in k .. Len(order) : order[j] = m
ClearingPlace == op = "clear" => \E k \in Places : ClearingAt(k)

(* Where a search is that has called nothing: past modules it does not     *)
(* want.                                                                   *)
SearchAt(k) == /\ module = NodeAt(k)
               /\ \A j \in 1 .. k - 1 : order[j] \notin wanted
SearchPlace == search = "walk" /\ tried = {} => \E k \in Places : SearchAt(k)
HandlerTried == search = "handler" => tried # {}

RegistryInv == /\ TypeOK /\ Chain /\ LinkedInList
               /\ RemovalPlace /\ ClearingPlace
               /\ SearchPlace /\ HandlerTried /\ SafeUntilHandler

-----------------------------------------------------------------------------
(* A sequence without its k-th element. *)
LEMMA WithoutAt ==
    ASSUME NEW S, NEW s \in Seq(S), NEW k \in 1 .. Len(s)
    PROVE  /\ List!Without(s, k) \in Seq(S)
           /\ Len(List!Without(s, k)) = Len(s) - 1
           /\ \A i \in 1 .. Len(s) - 1 :
                 List!Without(s, k)[i] = IF i < k THEN s[i] ELSE s[i + 1]
  <1>0. PICK n \in Nat : n = Len(s) /\ k \in 1 .. n
    BY LenProperties
  <1>s. \A i \in 1 .. n : s[i] \in S
    BY <1>0, ElementOfSeq
  <1>1. PICK a : a = SubSeq(s, 1, k - 1)
    OBVIOUS
  <1>2. PICK b : b = SubSeq(s, k + 1, n)
    OBVIOUS
  <1>3. /\ a \in Seq(S) /\ Len(a) = k - 1
        /\ \A i \in 1 .. k - 1 : a[i] = s[i]
    <2>1. /\ \A i \in 1 .. k - 1 : s[i] \in S
          /\ k - 1 \in Int
      BY <1>0, <1>s
    <2>2. /\ a \in Seq(S)
          /\ Len(a) = IF 1 <= k - 1 THEN k - 1 - 1 + 1 ELSE 0
          /\ \A i \in 1 .. k - 1 - 1 + 1 : a[i] = s[1 + i - 1]
      BY <2>1, <1>1, SubSeqProperties
    <2> QED BY <2>2, <1>0, SMT
  <1>4. /\ b \in Seq(S) /\ Len(b) = n - k
        /\ \A i \in 1 .. n - k : b[i] = s[k + i]
    <2>1. /\ \A i \in k + 1 .. n : s[i] \in S
          /\ k + 1 \in Int /\ n \in Int
      BY <1>0, <1>s
    <2>2. /\ b \in Seq(S)
          /\ Len(b) = IF k + 1 <= n THEN n - (k + 1) + 1 ELSE 0
          /\ \A i \in 1 .. n - (k + 1) + 1 : b[i] = s[k + 1 + i - 1]
      BY <2>1, <1>2, SubSeqProperties
    <2>3. \A i \in 1 .. n - k : k + 1 + i - 1 = k + i /\ i \in 1 .. n - (k + 1) + 1
      BY <1>0
    <2> QED BY <2>2, <2>3, <1>0
  <1>5. PICK t : t = List!Without(s, k)
    OBVIOUS
  <1>r. t = a \o b
    BY <1>0, <1>1, <1>2, <1>5 DEF List!Without
  <1>6. /\ t \in Seq(S) /\ Len(t) = Len(a) + Len(b)
        /\ \A i \in 1 .. Len(a) + Len(b) :
              t[i] = IF i <= Len(a) THEN a[i] ELSE b[i - Len(a)]
    BY <1>3, <1>4, <1>r, ConcatProperties
  <1>7. ASSUME NEW i \in 1 .. n - 1 PROVE t[i] = IF i < k THEN s[i] ELSE s[i + 1]
    <2>1. i \in 1 .. Len(a) + Len(b) /\ Len(a) = k - 1
      BY <1>0, <1>3, <1>4
    <2>2. CASE i < k
      BY <2>1, <2>2, <1>0, <1>3, <1>6
    <2>3. CASE ~ (i < k)
      <3>1. t[i] = b[i - (k - 1)]
        <4>1. ~ (i <= Len(a))
          BY <2>1, <2>3, <1>0
        <4> QED BY <2>1, <4>1, <1>6
      <3>2. i - (k - 1) \in 1 .. n - k /\ k + (i - (k - 1)) = i + 1
        BY <2>3, <1>0
      <3> QED BY <3>1, <3>2, <2>3, <1>4
    <2> QED BY <2>2, <2>3
  <1>8. Len(t) = n - 1
    BY <1>0, <1>3, <1>4, <1>6
  <1> QED BY <1>0, <1>5, <1>6, <1>7, <1>8

(* A module stands in the list at one place, so the list without it is the *)
(* list without that place.                                                *)
LEMMA WithoutItemAt ==
    ASSUME NEW s \in Seq(Modules), NEW k \in DOMAIN s,
           \A i, j \in DOMAIN s : s[i] = s[j] => i = j
    PROVE  WithoutItem(s, s[k]) = List!Without(s, k)
  <1>1. (CHOOSE i \in DOMAIN s : s[i] = s[k]) = k
    OBVIOUS
  <1> QED BY <1>1 DEF WithoutItem, List!Without

LEMMA NodeFacts ==
    ASSUME TypeOK
    PROVE  /\ order \in Seq(Modules) /\ Len(order) \in Nat
           /\ DOMAIN order = 1 .. Len(order)
           /\ \A k \in 1 .. Len(order) : order[k] \in Modules /\ order[k] # Null
           /\ \A k \in 1 .. Len(order) : NodeAt(k) = order[k]
           /\ \A k \in Int : k \notin 1 .. Len(order) => NodeAt(k) = Null
  <1>1. order \in Seq(Modules)
    BY DEF TypeOK
  <1> QED BY <1>1, LenProperties, ElementOfSeq, NullAssumption DEF NodeAt

-----------------------------------------------------------------------------
LEMMA InitRegistry == InitObjects => RegistryInv
  <1> SUFFICES ASSUME Init PROVE RegistryInv
    BY DEF InitObjects
  <1>1. order = <<>> /\ Len(order) = 0 /\ DOMAIN order = {} /\ order \in Seq(Modules)
    BY EmptySeq, LenProperties DEF Init
  <1>2. TypeOK
    BY <1>1 DEF Init, TypeOK, OrNull
  <1> QED BY <1>1, <1>2, NodeFacts
       DEF Init, RegistryInv, Chain, NodeAt, LinkedInList, Linked, RemovalPlace,
           ClearingPlace, SearchPlace, HandlerTried, SafeUntilHandler

-----------------------------------------------------------------------------
(* Which operations may run when: an addition, and the start of a removal, *)
(* of a clearing or of a search, with no operation under way.              *)
LEMMA AddFirstKeeps ==
    ASSUME RegistryInv, NEW m \in Modules, AddFirst(m)
    PROVE  RegistryInv'
  <1> USE NullAssumption DEF RegistryInv
  <1>1. /\ Len(order) = 0 /\ order = <<>> /\ DOMAIN order = {}
        /\ op = "idle" /\ state[m] = "new"
    BY NodeFacts, EmptySeq, LenProperties DEF AddFirst, Chain, Unlocked
  <1>2. /\ order' \in Seq(Modules) /\ Len(order') = 1 /\ order'[1] = m
        /\ DOMAIN order' = {1}
    BY <1>1 DEF AddFirst
  <1>3. TypeOK'
    BY <1>1, <1>2 DEF TypeOK, AddFirst, OrNull, operation, call
  <1>4. Chain'
    <2>1. NodeAt(1)' = m /\ NodeAt(Len(order))' = m /\ NodeAt(2)' = Null
      BY <1>2 DEF NodeAt
    <2>2. head' = m /\ tail' = m /\ next'[m] = Null
      BY DEF AddFirst, TypeOK
    <2>3. \A k \in DOMAIN order' : k = 1 /\ k + 1 = 2 /\ order'[k] = m
      BY <1>2
    <2> QED BY <2>1, <2>2, <2>3 DEF Chain
  <1>5. LinkedInList'
    <2>1. \A x \in Modules : state[x] # "linked"
      BY <1>1 DEF LinkedInList, Linked
    <2>2. \A x \in Modules : state'[x] = "linked" <=> x = m
      BY <2>1 DEF AddFirst, TypeOK
    <2> QED BY <1>2, <2>2 DEF LinkedInList, Linked
  <1> QED BY <1>3, <1>4, <1>5
       DEF AddFirst, Unlocked, RemovalPlace, ClearingPlace, SearchPlace,
           HandlerTried, SafeUntilHandler, operation, call

LEMMA AddLastKeeps ==
    ASSUME RegistryInv, NEW m \in Modules, AddLast(m)
    PROVE  RegistryInv'
  <1> USE NullAssumption DEF RegistryInv
  <1>0. /\ op = "idle" /\ state[m] = "new" /\ m \notin {order[k] : k \in DOMAIN order}
    BY NodeFacts DEF AddLast, Unlocked, LinkedInList, Linked
  <1>1. /\ Len(order) # 0 /\ tail = order[Len(order)] /\ tail \in Modules
        /\ head = order[1]
    BY NodeFacts DEF AddLast, Chain
  <1>2. /\ order' \in Seq(Modules) /\ Len(order') = Len(order) + 1
        /\ DOMAIN order' = 1 .. Len(order) + 1 /\ order'[Len(order) + 1] = m
        /\ \A k \in 1 .. Len(order) : order'[k] = order[k]
    BY NodeFacts, AppendProperties, LenProperties DEF AddLast
  <1>3. TypeOK'
    <2>1. next' \in [Modules -> OrNull]
      BY <1>1 DEF AddLast, TypeOK, OrNull
    <2> QED BY <1>0, <1>2, <2>1 DEF TypeOK, AddLast, OrNull, operation, call
  <1>4. Chain'
    <2>1. \A j, k \in DOMAIN order' : order'[j] = order'[k] => j = k
      BY <1>0, <1>2, NodeFacts DEF Chain
    <2>2. /\ tail # m /\ next'[m] = Null /\ next'[tail] = m
          /\ \A x \in Modules : x # m /\ x # tail => next'[x] = next[x]
      <3>1. tail # m
        BY <1>0, <1>1, NodeFacts
      <3> QED BY <3>1, <1>1 DEF AddLast, TypeOK
    <2>3. ASSUME NEW k \in DOMAIN order' PROVE next'[order'[k]] = NodeAt(k + 1)'
      <3>1. CASE k = Len(order) + 1
        BY <3>1, <1>2, <2>2, NodeFacts DEF NodeAt
      <3>2. CASE k = Len(order)
        BY <3>2, <1>1, <1>2, <2>2, NodeFacts DEF NodeAt
      <3>3. CASE k \in 1 .. Len(order) - 1
        <4>1. order[k] # m /\ order[k] # tail /\ order[k] \in Modules
          BY <3>3, <1>0, <1>1, NodeFacts DEF Chain
        <4>2. next'[order'[k]] = next[order[k]]
          BY <4>1, <3>3, <1>2, <2>2, NodeFacts
        <4>3. next[order[k]] = order[k + 1]
          BY <3>3, NodeFacts DEF Chain
        <4> QED BY <4>2, <4>3, <3>3, <1>2, NodeFacts DEF NodeAt
      <3> QED BY <3>1, <3>2, <3>3, <1>2, NodeFacts
    <2>4. head' = NodeAt(1)' /\ tail' = NodeAt(Len(order))'
      BY <1>1, <1>2, NodeFacts DEF NodeAt, AddLast
    <2> QED BY <2>1, <2>3, <2>4 DEF Chain
  <1>5. LinkedInList'
    <2>1. \A x \in Modules : state'[x] = "linked" <=> x = m \/ state[x] = "linked"
      BY DEF AddLast, TypeOK
    <2>2. \A x \in Modules : state[x] = "linked" <=>
                              \E k \in DOMAIN order : order[k] = x
      BY <1>0 DEF LinkedInList, Linked
    <2>3. ASSUME NEW x
          PROVE  (\E k \in DOMAIN order' : order'[k] = x)
                   <=> x = m \/ \E k \in DOMAIN order : order[k] = x
      BY <1>2, NodeFacts
    <2> QED BY <2>1, <2>2, <2>3 DEF LinkedInList, Linked
  <1> QED BY <1>0, <1>3, <1>4, <1>5
       DEF AddLast, Unlocked, RemovalPlace, ClearingPlace, SearchPlace,
           HandlerTried, SafeUntilHandler, operation, call

(* Steps that leave the list alone, its modules' states too, keep what is  *)
(* said of the list alone.                                                 *)
LEMMA ListKept ==
    ASSUME Chain, UNCHANGED registry
    PROVE  /\ Chain'
           /\ \A k : NodeAt(k)' = NodeAt(k)
  BY DEF Chain, NodeAt, registry

(* Going on to the next module of the list, or past its end. *)
LEMMA NextNode ==
    ASSUME TypeOK, Chain, NEW k \in Places, NodeAt(k) # Null
    PROVE  /\ k \in 1 .. Len(order) /\ NodeAt(k) = order[k]
           /\ k + 1 \in Places /\ next[NodeAt(k)] = NodeAt(k + 1)
  BY NodeFacts DEF Places, Chain

LEMMA RemoveBeginKeeps ==
    ASSUME RegistryInv, NEW n \in Names, RemoveBegin(n)
    PROVE  RegistryInv'
  <1> USE DEF RegistryInv
  <1>1. Chain' /\ \A k : NodeAt(k)' = NodeAt(k)
    BY ListKept DEF RemoveBegin
  <1>2. TypeOK' /\ LinkedInList' /\ SearchPlace' /\ HandlerTried' /\ SafeUntilHandler'
    BY DEF RemoveBegin, Unlocked, TypeOK, LinkedInList, Linked, SearchPlace, SearchAt,
           Places, NodeAt, HandlerTried, SafeUntilHandler, registry, call, OrNull
  <1>3. 1 \in Places' /\ RemovalAt(1)'
    BY <1>1, NodeFacts DEF RemoveBegin, RemovalAt, Places, Chain, registry
  <1> QED BY <1>1, <1>2, <1>3 DEF RemovalPlace, ClearingPlace, RemoveBegin

LEMMA RemoveNextKeeps ==
    ASSUME RegistryInv, RemoveNext
    PROVE  RegistryInv'
  <1> USE DEF RegistryInv
  <1>1. Chain' /\ \A k : NodeAt(k)' = NodeAt(k)
    BY ListKept DEF RemoveNext
  <1>2. PICK k \in Places : RemovalAt(k)
    BY DEF RemoveNext, RemovalPlace
  <1>3. /\ k \in 1 .. Len(order) /\ current = order[k]
        /\ k + 1 \in Places /\ next[current] = NodeAt(k + 1)
    BY <1>2, NextNode DEF RemovalAt, RemoveNext
  <1>4. TypeOK'
    BY <1>3, NodeFacts DEF RemoveNext, TypeOK, registry, call, OrNull
  <1>5. RemovalAt(k + 1)'
    <2>1. \A j \in 1 .. k + 1 - 1 : NameOf[order[j]] # doomed
      BY <1>2, <1>3 DEF RemovalAt, RemoveNext
    <2>2. k + 1 - 1 = k /\ NodeAt(k) = current
      BY <1>2 DEF Places, RemovalAt
    <2> QED BY <1>1, <1>3, <2>1, <2>2 DEF RemovalAt, RemoveNext, registry
  <1>6. LinkedInList' /\ SearchPlace' /\ HandlerTried' /\ SafeUntilHandler'
    BY DEF RemoveNext, TypeOK, LinkedInList, Linked, SearchPlace, SearchAt,
           Places, NodeAt, HandlerTried, SafeUntilHandler, registry, call
  <1>7. RemovalPlace'
    BY <1>3, <1>5 DEF RemovalPlace, Places, RemoveNext, registry
  <1> QED BY <1>1, <1>4, <1>6, <1>7 DEF ClearingPlace, RemoveNext

LEMMA RemoveNoneKeeps ==
    ASSUME RegistryInv, RemoveNone
    PROVE  RegistryInv'
  <1> USE DEF RegistryInv
  <1>1. Chain'
    BY ListKept DEF RemoveNone
  <1> QED BY <1>1
       DEF RemoveNone, Done, TypeOK, LinkedInList, Linked, SearchPlace, SearchAt,
           Places, NodeAt, HandlerTried, SafeUntilHandler, registry, call, OrNull,
           RemovalPlace, ClearingPlace

LEMMA ClearBeginKeeps ==
    ASSUME RegistryInv, ClearBegin
    PROVE  RegistryInv'
  <1> USE DEF RegistryInv
  <1>1. Chain' /\ \A k : NodeAt(k)' = NodeAt(k)
    BY ListKept DEF ClearBegin
  <1>2. TypeOK' /\ SearchPlace' /\ HandlerTried' /\ SafeUntilHandler'
    BY DEF ClearBegin, Unlocked, TypeOK, SearchPlace, SearchAt, Chain,
           Places, NodeAt, HandlerTried, SafeUntilHandler, registry, call, OrNull
  <1>3. 1 \in Places' /\ ClearingAt(1)'
    BY <1>1, NodeFacts
       DEF ClearBegin, Unlocked, LinkedInList, Linked, ClearingAt, Places, Chain, registry
  <1> QED BY <1>1, <1>2, <1>3
       DEF RemovalPlace, ClearingPlace, LinkedInList, ClearBegin

LEMMA ClearNextKeeps ==
    ASSUME RegistryInv, ClearNext
    PROVE  RegistryInv'
  <1> USE DEF RegistryInv
  <1>1. PICK k \in Places : ClearingAt(k)
    BY DEF ClearNext, ClearingPlace
  <1>2. /\ k \in 1 .. Len(order) /\ current = order[k]
        /\ k + 1 \in Places /\ next[current] = NodeAt(k + 1)
    BY <1>1, NextNode DEF ClearingAt, ClearNext
  <1>3. Chain' /\ \A i : NodeAt(i)' = NodeAt(i)
    BY DEF Chain, NodeAt, ClearNext
  <1>4. TypeOK'
    BY <1>2, NodeFacts DEF ClearNext, TypeOK, call, OrNull
  <1>5. ASSUME NEW m \in Modules
        PROVE  Linked(m)' <=> \E j \in k + 1 .. Len(order) : order[j] = m
    <2>1. Linked(m)' <=> Linked(m) /\ m # order[k]
      BY <1>2, NodeFacts DEF Linked, ClearNext, TypeOK
    <2>2. Linked(m) <=> \E j \in k .. Len(order) : order[j] = m
      BY <1>1 DEF ClearingAt
    <2> QED BY <2>1, <2>2, <1>2, NodeFacts DEF Chain
  <1>6. ClearingPlace'
    <2>1. ClearingAt(k + 1)' /\ k + 1 \in Places'
      BY <1>2, <1>3, <1>5 DEF ClearingAt, ClearNext, Places
    <2> QED BY <2>1 DEF ClearingPlace
  <1> QED BY <1>3, <1>4, <1>6
       DEF ClearNext, TypeOK, LinkedInList, SearchPlace, HandlerTried,
           SafeUntilHandler, RemovalPlace, call

LEMMA ClearEndKeeps ==
    ASSUME RegistryInv, ClearEnd
    PROVE  RegistryInv'
  <1> USE DEF RegistryInv
  <1>1. PICK k \in Places : ClearingAt(k)
    BY DEF ClearEnd, ClearingPlace
  <1>2. k = Len(order) + 1
    BY <1>1, NodeFacts DEF ClearingAt, ClearEnd, Places
  <1>3. \A m \in Modules : ~Linked(m)
    <2>1. k .. Len(order) = {}
      BY <1>2, NodeFacts
    <2> QED BY <1>1, <2>1 DEF ClearingAt, Linked
  <1>4. order' = <<>> /\ order' \in Seq(Modules) /\ Len(order') = 0 /\ DOMAIN order' = {}
    BY EmptySeq, LenProperties DEF ClearEnd
  <1>5. TypeOK'
    BY <1>4 DEF ClearEnd, Done, TypeOK, call, OrNull
  <1>6. Chain' /\ LinkedInList'
    BY <1>3, <1>4 DEF Chain, NodeAt, LinkedInList, Linked, ClearEnd
  <1> QED BY <1>5, <1>6
       DEF ClearEnd, Done, TypeOK, SearchPlace, HandlerTried,
           SafeUntilHandler, RemovalPlace, ClearingPlace, call

(* The removal: what stood before the module keeps its place, what stood   *)
(* after it comes one place forward, and the pointers follow.              *)
LEMMA RemoveFoundCuts ==
    ASSUME RegistryInv, RemoveFound
    PROVE  \E k \in 1 .. Len(order) :
              /\ RemovalAt(k) /\ current = order[k]
              /\ order' = List!Without(order, k)
              /\ order' \in Seq(Modules) /\ Len(order') = Len(order) - 1
              /\ DOMAIN order' = 1 .. Len(order) - 1
              /\ \A i \in 1 .. Len(order) - 1 :
                    order'[i] = IF i < k THEN order[i] ELSE order[i + 1]
  <1> USE DEF RegistryInv
  <1>1. PICK k \in Places : RemovalAt(k)
    BY DEF RemoveFound, RemovalPlace
  <1>2. k \in 1 .. Len(order) /\ current = order[k] /\ k \in DOMAIN order
    BY <1>1, NextNode, NodeFacts DEF RemovalAt, RemoveFound
  <1>3. order' = List!Without(order, k)
    BY <1>2, NodeFacts, WithoutItemAt DEF RemoveFound, Chain
  <1>4. /\ order' \in Seq(Modules) /\ Len(order') = Len(order) - 1
        /\ \A i \in 1 .. Len(order) - 1 :
              order'[i] = IF i < k THEN order[i] ELSE order[i + 1]
    BY <1>2, <1>3, NodeFacts, WithoutAt
  <1>5. DOMAIN order' = 1 .. Len(order) - 1
    BY <1>4, LenProperties
  <1> QED BY <1>1, <1>2, <1>3, <1>4, <1>5

LEMMA RemoveFoundKeeps ==
    ASSUME RegistryInv, RemoveFound
    PROVE  RegistryInv'
  <1> USE NullAssumption DEF RegistryInv
  <1>1. PICK k \in 1 .. Len(order) :
              /\ RemovalAt(k) /\ current = order[k]
              /\ order' \in Seq(Modules) /\ Len(order') = Len(order) - 1
              /\ DOMAIN order' = 1 .. Len(order) - 1
              /\ \A i \in 1 .. Len(order) - 1 :
                    order'[i] = IF i < k THEN order[i] ELSE order[i + 1]
    BY RemoveFoundCuts
  <1>2. PICK n \in Nat : n = Len(order) /\ k \in 1 .. n
    BY NodeFacts
  <1>3. /\ current \in Modules /\ next[current] = NodeAt(k + 1)
        /\ prev = NodeAt(k - 1)
    BY <1>1, NodeFacts DEF Chain, RemovalAt
  <1>4. TypeOK'
    <2>1. next' \in [Modules -> OrNull] /\ head' \in OrNull /\ tail' \in OrNull
      <3>1. next[current] \in OrNull /\ prev \in OrNull
        BY <1>3 DEF TypeOK
      <3>2. CASE prev = Null
        BY <3>1, <3>2 DEF RemoveFound, TypeOK
      <3>3. CASE prev # Null
        BY <3>1, <3>3 DEF RemoveFound, TypeOK
      <3> QED BY <3>2, <3>3
    <2> QED BY <1>1, <1>3, <2>1 DEF RemoveFound, Done, TypeOK, OrNull, call
  <1>5. /\ \A i \in 1 .. n : i # k => order[i] # current
        /\ \A i, j \in 1 .. n : order[i] = order[j] => i = j
        /\ \A i \in 1 .. n : order[i] \in Modules /\ order[i] # Null
        /\ \A i \in 1 .. n - 1 : next[order[i]] = order[i + 1]
        /\ next[order[n]] = Null
    <2>1. /\ \A i, j \in 1 .. n : order[i] = order[j] => i = j
          /\ \A i \in 1 .. n : order[i] \in Modules /\ order[i] # Null
          /\ \A i \in 1 .. n : next[order[i]] = NodeAt(i + 1)
      BY <1>2, NodeFacts DEF Chain
    <2>2. /\ \A i \in 1 .. n - 1 : NodeAt(i + 1) = order[i + 1]
          /\ NodeAt(n + 1) = Null
      BY <1>2, NodeFacts
    <2> QED BY <1>1, <1>2, <2>1, <2>2
  <1>6. /\ k = 1 => prev = Null
        /\ k # 1 => prev = order[k - 1] /\ prev # Null /\ prev \in Modules
        /\ k = n => next[current] = Null
        /\ k # n => next[current] = order[k + 1]
    BY <1>1, <1>2, <1>3, <1>5, NodeFacts
  <1>7. \A i \in 1 .. n : i # k => next'[order[i]] = IF i = k - 1 THEN next[current]
                                                 ELSE next[order[i]]
    <2>1. CASE k = 1
      BY <2>1, <1>2, <1>6 DEF RemoveFound
    <2>2. CASE k # 1
      <3>1. next' = [next EXCEPT ![prev] = next[current]]
        BY <2>2, <1>6 DEF RemoveFound
      <3>2. ASSUME NEW i \in 1 .. n, i # k
            PROVE  order[i] = prev <=> i = k - 1
        <4>1. k - 1 \in 1 .. n
          BY <2>2, <1>2
        <4> QED BY <4>1, <3>2, <2>2, <1>5, <1>6
      <3> QED BY <3>1, <3>2, <1>5 DEF TypeOK
    <2> QED BY <2>1, <2>2
  <1>8. Chain'
    <2>1. head' = NodeAt(1)'
      <3>1. CASE k = 1
        BY <3>1, <1>1, <1>2, <1>6 DEF RemoveFound, NodeAt
      <3>2. CASE k # 1
        BY <3>2, <1>1, <1>2, <1>6, NodeFacts DEF RemoveFound, NodeAt, Chain
      <3> QED BY <3>1, <3>2
    <2>2. tail' = NodeAt(Len(order))'
      <3>1. CASE k = n
        BY <3>1, <1>1, <1>2, <1>6, NodeFacts DEF RemoveFound, NodeAt, Chain
      <3>2. CASE k # n
        BY <3>2, <1>1, <1>2, <1>5, NodeFacts DEF RemoveFound, NodeAt, Chain
      <3> QED BY <3>1, <3>2
    <2>3. ASSUME NEW i \in 1 .. n - 1 PROVE next'[order'[i]] = NodeAt(i + 1)'
      <3>1. CASE i < k - 1
        <4>1. /\ order'[i] = order[i] /\ order'[i + 1] = order[i + 1]
              /\ i \in 1 .. n /\ i # k /\ i # k - 1 /\ i + 1 \in DOMAIN order'
          BY <3>1, <1>1, <1>2
        <4>2. next'[order'[i]] = order[i + 1]
          BY <4>1, <1>5, <1>7
        <4> QED BY <4>1, <4>2 DEF NodeAt
      <3>2. CASE i = k - 1
        BY <3>2, <1>1, <1>2, <1>5, <1>6, <1>7 DEF NodeAt
      <3>3. CASE k <= i
        <4>1. /\ order'[i] = order[i + 1] /\ i + 1 \in 1 .. n
              /\ i + 1 # k /\ i + 1 # k - 1
          BY <3>3, <1>1, <1>2
        <4>2. next'[order'[i]] = next[order[i + 1]]
          BY <4>1, <1>7
        <4>3. CASE i + 1 = n
          BY <4>1, <4>2, <4>3, <1>1, <1>2, <1>5 DEF NodeAt
        <4>4. CASE i + 1 # n
          <5>1. i + 1 \in 1 .. n - 1 /\ ~ (i + 1 < k)
            BY <4>1, <4>4, <3>3, <1>2
          <5>2. order'[i + 1] = order[i + 1 + 1]
            BY <5>1, <1>1, <1>2
          <5> QED BY <5>1, <5>2, <4>2, <1>1, <1>2, <1>5 DEF NodeAt
        <4> QED BY <4>3, <4>4
      <3> QED BY <3>1, <3>2, <3>3, <1>2
    <2>4. \A i, j \in 1 .. n - 1 : order'[i] = order'[j] => i = j
      BY <1>1, <1>2, <1>5
    <2> QED BY <1>1, <1>2, <2>1, <2>2, <2>3, <2>4 DEF Chain
  <1>9. LinkedInList'
    <2>1. ASSUME NEW m \in Modules
          PROVE  (\E i \in 1 .. n : order[i] = m) /\ m # current
                   <=> \E i \in 1 .. n - 1 : order'[i] = m
      <3>1. ASSUME NEW i \in 1 .. n, order[i] = m, m # current
            PROVE  \E j \in 1 .. n - 1 : order'[j] = m
        <4>1. CASE i < k
          BY <4>1, <3>1, <1>1, <1>2
        <4>2. CASE i > k
          <5>1. i - 1 \in 1 .. n - 1 /\ ~ (i - 1 < k) /\ i - 1 + 1 = i
            BY <4>2, <1>2
          <5> QED BY <5>1, <3>1, <1>1, <1>2
        <4> QED BY <4>1, <4>2, <3>1, <1>1, <1>2
      <3>2. ASSUME NEW j \in 1 .. n - 1, order'[j] = m
            PROVE  (\E i \in 1 .. n : order[i] = m) /\ m # current
        BY <3>2, <1>1, <1>2, <1>5
      <3> QED BY <3>1, <3>2
    <2>2. \A m \in Modules : Linked(m) <=> \E i \in 1 .. n : order[i] = m
      BY <1>2, NodeFacts DEF LinkedInList, RemoveFound
    <2>3. \A m \in Modules : Linked(m)' <=> Linked(m) /\ m # current
      BY <1>3 DEF Linked, RemoveFound, TypeOK
    <2> QED BY <1>1, <1>2, <2>1, <2>2, <2>3 DEF LinkedInList
  <1> QED BY <1>4, <1>8, <1>9
       DEF RemoveFound, Done, TypeOK, SearchPlace, HandlerTried,
           SafeUntilHandler, RemovalPlace, ClearingPlace, call

-----------------------------------------------------------------------------
(* The search.  Until it has called a handler it has held the mutex, and   *)
(* the list is as it was: what it passed is not wanted, and what it is at  *)
(* is linked.                                                              *)
LEMMA SearchBeginKeeps ==
    ASSUME RegistryInv, Alive, NEW w \in SUBSET Modules, SearchBegin(w)
    PROVE  RegistryInv'
  <1> USE DEF RegistryInv
  <1>1. Chain' /\ LinkedInList'
    BY DEF SearchBegin, registry, operation, Chain, NodeAt, LinkedInList, Linked
  <1>2. TypeOK'
    BY DEF SearchBegin, Unlocked, TypeOK, registry, operation, OrNull
  <1>3. 1 \in Places' /\ SearchAt(1)'
    BY NodeFacts DEF SearchBegin, SearchAt, Places, NodeAt, Chain, registry
  <1> QED BY <1>1, <1>2, <1>3
       DEF SearchBegin, Unlocked, SearchPlace, HandlerTried, SafeUntilHandler,
           RemovalPlace, ClearingPlace, operation, Alive

LEMMA WalkNextKeeps ==
    ASSUME RegistryInv, WalkNext
    PROVE  RegistryInv'
  <1> USE DEF RegistryInv
  <1>1. Chain' /\ LinkedInList' /\ RemovalPlace' /\ ClearingPlace'
    <2>1. UNCHANGED registry /\ UNCHANGED operation
      BY DEF WalkNext
    <2>2. Chain' /\ \A k : NodeAt(k)' = NodeAt(k)
      BY <2>1, ListKept
    <2>3. /\ UNCHANGED <<order, state, op, doomed, current, prev>>
          /\ Places' = Places /\ \A m : Linked(m)' <=> Linked(m)
      BY <2>1 DEF registry, operation, Places, Linked
    <2>4. LinkedInList'
      BY <2>3 DEF LinkedInList
    <2>5. RemovalPlace'
      BY <2>2, <2>3 DEF RemovalPlace, RemovalAt
    <2>6. ClearingPlace'
      BY <2>2, <2>3 DEF ClearingPlace, ClearingAt
    <2> QED BY <2>2, <2>4, <2>5, <2>6
  <1>2. TypeOK'
    BY DEF WalkNext, TypeOK, registry, operation, OrNull
  <1>3. SearchPlace'
    <2> SUFFICES ASSUME tried = {} PROVE \E k \in Places : SearchAt(k)'
      BY DEF SearchPlace, WalkNext, Places, registry
    <2>1. PICK k \in Places : SearchAt(k)
      BY DEF WalkNext, SearchPlace
    <2>2. /\ k \in 1 .. Len(order) /\ module = order[k]
          /\ k + 1 \in Places /\ next[module] = NodeAt(k + 1)
      BY <2>1, NextNode DEF SearchAt, WalkNext
    <2>3. \A j \in 1 .. k + 1 - 1 : order[j] \notin wanted
      BY <2>1, <2>2 DEF SearchAt, WalkNext
    <2> QED BY <2>2, <2>3 DEF SearchAt, WalkNext, registry, NodeAt
  <1> QED BY <1>1, <1>2, <1>3 DEF WalkNext, HandlerTried, SafeUntilHandler

LEMMA WalkLinked ==
    ASSUME RegistryInv, search = "walk", module # Null, tried = {}
    PROVE  Linked(module)
  <1> USE DEF RegistryInv
  <1>1. PICK k \in Places : SearchAt(k)
    BY DEF SearchPlace
  <1>2. k \in 1 .. Len(order) /\ module = order[k]
    BY <1>1, NextNode DEF SearchAt
  <1> QED BY <1>2, NodeFacts DEF TypeOK, LinkedInList

LEMMA OtherWalkKeeps ==
    ASSUME RegistryInv, WalkCall \/ WalkDestroyed \/ WalkEnd \/ HandlerReturns
    PROVE  RegistryInv'
  <1> USE DEF RegistryInv
  <1>1. /\ UNCHANGED <<registry, operation, module, wanted>>
        /\ WalkDestroyed => UNCHANGED call
    BY DEF WalkCall, WalkDestroyed, Crash, WalkEnd, HandlerReturns, call
  <1>2. Chain' /\ LinkedInList' /\ RemovalPlace' /\ ClearingPlace'
    BY <1>1 DEF registry, operation, Chain, NodeAt, Places, LinkedInList, Linked,
                RemovalPlace, RemovalAt, ClearingPlace, ClearingAt
  <1>3. CASE WalkCall
    BY <1>1, <1>2, <1>3 DEF WalkCall, TypeOK, registry, operation, OrNull,
                            SearchPlace, HandlerTried, SafeUntilHandler
  <1>4. CASE WalkDestroyed
    <2>1. tried # {}
      BY <1>4, WalkLinked DEF WalkDestroyed
    <2> QED BY <1>2, <1>4, <2>1
         DEF WalkDestroyed, Crash, TypeOK, registry, operation, call, OrNull,
             SearchPlace, HandlerTried, SafeUntilHandler
  <1>5. CASE WalkEnd
    BY <1>1, <1>2, <1>5 DEF WalkEnd, TypeOK, registry, operation, OrNull,
                            SearchPlace, HandlerTried, SafeUntilHandler
  <1>6. CASE HandlerReturns
    <2>1. search' \in {"idle", "walk"} /\ tried # {} /\ op = "idle"
      BY <1>6 DEF HandlerReturns, HandlerTried
    <2> QED BY <1>1, <1>2, <1>6, <2>1
         DEF HandlerReturns, TypeOK, registry, operation, OrNull,
             SearchPlace, HandlerTried, SafeUntilHandler
  <1> QED BY <1>3, <1>4, <1>5, <1>6

LEMMA NextRegistry ==
    ASSUME RegistryInv, [NextObjects]_objects
    PROVE  RegistryInv'
  <1>1. CASE UNCHANGED vars
    <2> USE <1>1 DEF vars, registry, operation, call, RegistryInv
    <2>1. TypeOK' /\ Chain' /\ LinkedInList'
      BY DEF TypeOK, Chain, NodeAt, LinkedInList, Linked
    <2>2. RemovalPlace' /\ ClearingPlace'
      BY DEF Places, NodeAt, Linked, RemovalPlace, RemovalAt, ClearingPlace, ClearingAt
    <2>3. SearchPlace' /\ HandlerTried' /\ SafeUntilHandler'
      BY DEF Places, NodeAt, SearchPlace, SearchAt, HandlerTried, SafeUntilHandler
    <2> QED BY <2>1, <2>2, <2>3
  <1>2. CASE Addition
    BY <1>2, AddFirstKeeps, AddLastKeeps DEF Addition
  <1>3. CASE Removal
    BY <1>3, RemoveBeginKeeps, RemoveNextKeeps, RemoveFoundKeeps, RemoveNoneKeeps,
       ClearBeginKeeps, ClearNextKeeps, ClearEndKeeps DEF Removal
  <1>4. CASE Alive /\ Begin
    BY <1>4, SearchBeginKeeps DEF Begin, Call
  <1>5. CASE Walk
    BY <1>5, WalkNextKeeps, OtherWalkKeeps DEF Walk
  <1> QED BY <1>1, <1>2, <1>3, <1>4, <1>5 DEF NextObjects, objects

-----------------------------------------------------------------------------
(* Between two operations of dbus_server_add_module, _remove_module and    *)
(* _remove_all_modules the ends, the links and the states of the modules   *)
(* agree, and handle_method_call meets no destroyed module before it has   *)
(* called a handler.                                                       *)
THEOREM RegistryConsistent == ObjectsSpec => []Consistent
  <1>1. RegistryInv => Consistent
    <2> SUFFICES ASSUME RegistryInv PROVE Consistent
      OBVIOUS
    <2>1. order = <<>> <=> Len(order) = 0
      BY NodeFacts, EmptySeq DEF RegistryInv
    <2>2. Shape
      BY <2>1, NodeFacts DEF RegistryInv, Chain, Shape, NodeAt
    <2> QED BY <2>2 DEF RegistryInv, Consistent
  <1> QED BY <1>1, InitRegistry, NextRegistry, PTL DEF ObjectsSpec

(* A search that ends without having called a handler has passed the whole *)
(* list: "no such method" (server.c:223) is the truth about the registry.  *)
THEOREM NoMethodIsTrue == ObjectsSpec => NotFoundIsTrue
  <1> DEFINE Answer == search = "walk" /\ search' = "idle" /\ tried = {}
                         => \A m \in wanted : ~Linked(m)
  <1>1. ASSUME RegistryInv, [NextObjects]_objects
        PROVE  [Answer]_vars
    <2> SUFFICES ASSUME search = "walk", search' = "idle", tried = {},
                        NEW m \in wanted, Linked(m)
                 PROVE  FALSE
      OBVIOUS
    <2> USE DEF RegistryInv
    <2>1. ~UNCHANGED call /\ ~UNCHANGED vars
      BY <1>1 DEF vars, call
    <2>2. module = Null
      <3>1. CASE Addition \/ Removal
        BY <3>1, <2>1 DEF Addition, AddFirst, AddLast, Removal, RemoveBegin,
              RemoveNext, RemoveFound, RemoveNone, ClearBegin, ClearNext, ClearEnd
      <3>2. CASE Begin \/ Walk
        BY <3>2, <1>1, <2>1 DEF Begin, Call, SearchBegin, Walk, WalkNext, WalkCall,
              WalkDestroyed, Crash, WalkEnd, HandlerReturns
      <3> QED BY <3>1, <3>2, <1>1, <2>1 DEF NextObjects, objects
    <2>3. PICK k \in Places : SearchAt(k)
      BY <1>1 DEF SearchPlace
    <2>4. k = Len(order) + 1
      BY <1>1, <2>2, <2>3, NodeFacts DEF SearchAt, Places
    <2>5. m \in Modules /\ op # "clear"
      BY <1>1 DEF TypeOK
    <2>6. PICK j \in DOMAIN order : order[j] = m
      BY <1>1, <2>5 DEF LinkedInList
    <2>7. j \in 1 .. k - 1
      BY <1>1, <2>4, <2>6, NodeFacts
    <2> QED BY <2>3, <2>6, <2>7 DEF SearchAt
  <1> QED BY <1>1, InitRegistry, NextRegistry, PTL DEF ObjectsSpec, NotFoundIsTrue

(* The linked list implements the list it promises: an addition appends, a *)
(* removal takes out the first module of the name, a clearing empties it,  *)
(* and no other step is seen.                                              *)
THEOREM RegistryImplementsList == ObjectsSpec => ImplementsList
  <1>1. InitObjects => List!ListInit
    BY DEF InitObjects, Init, List!ListInit
  <1>2. ASSUME RegistryInv, [NextObjects]_objects
        PROVE  [List!ListNext]_order
    <2> USE DEF RegistryInv
    <2>1. CASE \E m \in Modules : AddFirst(m) \/ AddLast(m)
      <3>1. PICK m \in Modules : AddFirst(m) \/ AddLast(m)
        BY <2>1
      <3>2. ~List!Contains(m) /\ order' = Append(order, m)
        BY <1>2, <3>1 DEF AddFirst, AddLast, Unlocked, LinkedInList, Linked, List!Contains
      <3> QED BY <3>1, <3>2 DEF List!ListNext, List!Add
    <2>2. CASE RemoveFound
      <3>1. PICK k \in 1 .. Len(order) :
               RemovalAt(k) /\ current = order[k] /\ order' = List!Without(order, k)
        BY <1>2, <2>2, RemoveFoundCuts
      <3>2. doomed \in Names /\ k \in DOMAIN order
        BY <1>2, <2>2, NodeFacts DEF RemovalPlace, RemoveFound
      <3>3. List!IsFirstNamed(k, doomed)
        BY <2>2, <3>1 DEF List!IsFirstNamed, RemovalAt, RemoveFound
      <3> QED BY <3>1, <3>2, <3>3 DEF List!ListNext, List!RemoveFirst
    <2>3. CASE ClearEnd
      BY <2>3 DEF ClearEnd, List!ListNext, List!RemoveAll
    <2>4. CASE UNCHANGED order
      BY <2>4
    <2> QED BY <1>2, <2>1, <2>2, <2>3, <2>4
         DEF NextObjects, objects, Addition, Removal, RemoveBegin, RemoveNext, RemoveNone,
             ClearBegin, ClearNext, Begin, Call, SearchBegin, Walk, WalkNext, WalkCall,
             WalkDestroyed, Crash, WalkEnd, HandlerReturns, vars, registry
  <1> QED BY <1>1, <1>2, InitRegistry, NextRegistry, PTL
       DEF ObjectsSpec, ImplementsList, List!ListSpec

-----------------------------------------------------------------------------
(* Induction over a set of numbers, from the least of those outside it.    *)
LEMMA LeastOf ==
    ASSUME NEW T \in SUBSET Nat, T # {}
    PROVE  \E x \in T : \A y \in T : x <= y
<1>1. PICK R : R = OpToRel(<, Nat)
  OBVIOUS
<1>2. IsWellFoundedOn(R, Nat)
  BY <1>1, NatLessThanWellFounded
<1>3. \A x, y \in Nat : <<x, y>> \in R <=> x < y
  BY <1>1 DEF OpToRel
<1>4. PICK x \in T : \A y \in T : ~(<<y, x>> \in R)
  BY <1>2, WFMin
<1>5. ASSUME NEW y \in T PROVE x <= y
  <2>1. x \in Nat /\ y \in Nat /\ ~(y < x)
    BY <1>3, <1>4
  <2>q. QED BY <2>1
<1>q. QED BY <1>5

LEMMA Induction ==
    ASSUME NEW S, 0 \in S, \A n \in Nat : n \in S => n + 1 \in S
    PROVE  Nat \subseteq S
<1> SUFFICES ASSUME Nat \ S # {} PROVE FALSE
  OBVIOUS
<1>1. PICK x \in Nat \ S : \A y \in Nat \ S : x <= y
  BY LeastOf
<1>2. x # 0 /\ x - 1 \in Nat /\ x - 1 < x
  OBVIOUS
<1>3. x - 1 \in S
  BY <1>1, <1>2
<1>q. QED BY <1>2, <1>3

LEMMA InductionTo ==
    ASSUME NEW n \in Nat, NEW S, 0 \in S, \A k \in 1 .. n : k - 1 \in S => k \in S
    PROVE  0 .. n \subseteq S
<1>1. PICK R : R = {k \in Nat : k <= n => k \in S}
  OBVIOUS
<1>2. 0 \in R
  BY <1>1
<1>3. ASSUME NEW k \in Nat, k \in R PROVE k + 1 \in R
  <2>1. CASE k + 1 <= n
    <3>1. k + 1 \in 1 .. n /\ k + 1 - 1 = k /\ k \in S
      BY <1>1, <1>3, <2>1
    <3>q. QED BY <1>1, <3>1
  <2>2. CASE ~(k + 1 <= n)
    BY <1>1, <2>2
  <2>q. QED BY <2>1, <2>2
<1>4. Nat \subseteq R
  BY <1>2, <1>3, Induction
<1>5. ASSUME NEW k \in 0 .. n PROVE k \in S
  <2>1. k \in Nat /\ k <= n
    OBVIOUS
  <2>q. QED BY <1>1, <1>4, <2>1
<1>q. QED BY <1>5

-----------------------------------------------------------------------------
(* A fold of SequencesExt is a function of the indices it has yet to pass, *)
(* the last one first.  There is one, for h the operator as a function.    *)
Folds(g, n, h, base) ==
    g = [s \in SUBSET (1 .. n) |->
           IF s = {} THEN base ELSE h[<<Max(s), g[s \ {Max(s)}]>>]]

LEMMA MaxIs ==
    ASSUME NEW n \in Nat, NEW s \in SUBSET (1 .. n), n \in s
    PROVE  Max(s) = n
<1>1. \A x \in s : (\A y \in s : x >= y) => x = n
  OBVIOUS
<1>2. \A y \in s : n >= y
  OBVIOUS
<1>q. QED BY <1>1, <1>2 DEF Max

LEMMA MaxIn ==
    ASSUME NEW n \in Nat, NEW s \in SUBSET (1 .. n), s # {}
    PROVE  Max(s) \in s
<1>1. PICK T : T = {k \in Nat : \A y \in s : k >= y}
  OBVIOUS
<1>2. n \in T
  BY <1>1
<1>3. PICK x \in T : \A k \in T : x <= k
  <2>1. T \in SUBSET Nat /\ T # {}
    BY <1>1, <1>2
  <2>q. QED BY <2>1, LeastOf
<1>4. x \in s
  <2> SUFFICES ASSUME x \notin s PROVE FALSE
    OBVIOUS
  <2>1. \A y \in s : y \in 1 .. n /\ x >= y /\ x # y
    BY <1>1
  <2>2. PICK y \in s : TRUE
    OBVIOUS
  <2>3. x \in Nat /\ x - 1 \in Nat
    BY <1>1, <2>1, <2>2
  <2>4. \A z \in s : x - 1 >= z
    BY <2>1, <2>3
  <2>5. x - 1 \in T
    BY <1>1, <2>3, <2>4
  <2>q. QED BY <1>3, <2>3, <2>5
<1>5. \A y \in s : x >= y
  BY <1>1
<1>q. QED BY <1>4, <1>5 DEF Max

LEMMA FoldExists ==
    ASSUME NEW N \in Nat, NEW T, NEW base \in T, NEW h \in [(1 .. N) \X T -> T]
    PROVE  \E g \in [SUBSET (1 .. N) -> T] : Folds(g, N, h, base)
<1>1. PICK S : S = {n \in 0 .. N : \E g \in [SUBSET (1 .. n) -> T] : Folds(g, n, h, base)}
  OBVIOUS
<1>2. 0 \in S
  <2>1. PICK g : g = [s \in SUBSET (1 .. 0) |-> base]
    OBVIOUS
  <2>2. \A s \in SUBSET (1 .. 0) : s = {}
    OBVIOUS
  <2>3. Folds(g, 0, h, base)
    BY <2>1, <2>2 DEF Folds
  <2>4. g \in [SUBSET (1 .. 0) -> T] /\ 0 \in 0 .. N
    BY <2>1
  <2>q. QED BY <1>1, <2>3, <2>4
<1>3. ASSUME NEW m \in 1 .. N, m - 1 \in S
      PROVE  m \in S
  <2>0. PICK n \in Nat : n = m - 1 /\ m = n + 1
    OBVIOUS
  <2>1. PICK g \in [SUBSET (1 .. n) -> T] : Folds(g, n, h, base)
    BY <1>1, <1>3, <2>0
  <2>2. PICK f : f = [s \in SUBSET (1 .. n + 1) |->
                        IF n + 1 \in s THEN h[<<n + 1, g[s \ {n + 1}]>>] ELSE g[s]]
    OBVIOUS
  <2>3. ASSUME NEW s \in SUBSET (1 .. n + 1)
        PROVE  /\ f[s] = IF s = {} THEN base ELSE h[<<Max(s), f[s \ {Max(s)}]>>]
               /\ f[s] \in T
    <3>1. CASE n + 1 \in s
      <4>1. Max(s) = n + 1
        BY <3>1, MaxIs
      <4>2. s \ {n + 1} \in SUBSET (1 .. n)
        OBVIOUS
      <4>3. s \ {n + 1} \in SUBSET (1 .. n + 1)
        OBVIOUS
      <4>4. f[s \ {n + 1}] = g[s \ {n + 1}] /\ g[s \ {n + 1}] \in T
        BY <2>2, <4>2, <4>3
      <4>5. f[s] = h[<<n + 1, g[s \ {n + 1}]>>]
        BY <2>2, <3>1
      <4>6. f[s] \in T
        BY <2>0, <4>4, <4>5
      <4>q. QED BY <3>1, <4>1, <4>4, <4>5, <4>6
    <3>2. CASE n + 1 \notin s
      <4>1. /\ s \in SUBSET (1 .. n) /\ s \ {Max(s)} \in SUBSET (1 .. n + 1)
            /\ n + 1 \notin s \ {Max(s)}
        <5>1. \A x \in s : x \in 1 .. n
          BY <3>2
        <5>q. QED BY <3>2, <5>1
      <4>2. f[s] = g[s] /\ f[s \ {Max(s)}] = g[s \ {Max(s)}] /\ g[s] \in T
        BY <2>2, <3>2, <4>1
      <4>3. g[s] = IF s = {} THEN base ELSE h[<<Max(s), g[s \ {Max(s)}]>>]
        BY <2>1, <4>1 DEF Folds
      <4>q. QED BY <4>2, <4>3
    <3>q. QED BY <3>1, <3>2
  <2>f. DOMAIN f = SUBSET (1 .. n + 1) /\ f = [s \in SUBSET (1 .. n + 1) |-> f[s]]
    BY <2>2
  <2>4. Folds(f, n + 1, h, base)
    BY <2>3, <2>f DEF Folds
  <2>5. f \in [SUBSET (1 .. n + 1) -> T]
    BY <2>3, <2>f
  <2>q. QED BY <1>1, <2>0, <2>4, <2>5
<1>4. 0 .. N \subseteq S
  BY <1>2, <1>3, InductionTo
<1>5. N \in S
  BY <1>4
<1>q. QED BY <1>1, <1>5

(* The steps of a fold, from the first index on.                           *)
LEMMA FoldStep ==
    ASSUME NEW n \in Nat
    PROVE  /\ 1 .. 0 = {} /\ {} \in SUBSET (1 .. n)
           /\ \A k \in 1 .. n : /\ 1 .. k \in SUBSET (1 .. n) /\ 1 .. k # {}
                                /\ Max(1 .. k) = k
                                /\ (1 .. k) \ {k} = 1 .. k - 1
<1>1. ASSUME NEW k \in 1 .. n PROVE Max(1 .. k) = k
  BY MaxIs
<1>q. QED BY <1>1

-----------------------------------------------------------------------------
(* A constructor's calls leave a sequence of interfaces, whichever of them *)
(* are lost (module_add_interface, interface_add_method).                  *)
Calls == [add : {"interface"}, name : InterfaceNames, path : Paths]
            \cup [add : {"method"}, name : MethodNames]
Interfaces == [name : InterfaceNames, path : Paths, methods : Seq(MethodNames)]
InterfacesOK == interfaces \in [Modules -> Seq(Interfaces)]

LEMMA ApplyKeeps ==
    ASSUME NEW ifs \in Seq(Interfaces), NEW c \in Calls
    PROVE  Apply(ifs, c) \in Seq(Interfaces)
<1>1. CASE c \in [add : {"interface"}, name : InterfaceNames, path : Paths]
  <2>1. PICK i : i = [name |-> c.name, path |-> c.path, methods |-> <<>>]
    OBVIOUS
  <2>2. i \in Interfaces
    BY <1>1, <2>1 DEF Interfaces
  <2>3. Apply(ifs, c) = <<i>> \o ifs
    BY <1>1, <2>1 DEF Apply, AddInterface
  <2>q. QED BY <2>2, <2>3
<1>2. CASE c \in [add : {"method"}, name : MethodNames]
  <2>1. Apply(ifs, c) = [ifs EXCEPT ![1].methods = <<c.name>> \o @]
    BY <1>2 DEF Apply, AddMethod
  <2>2. CASE ifs = <<>>
    <3>1. Apply(ifs, c) = ifs
      BY <2>1, <2>2
    <3>q. QED BY <3>1
  <2>3. CASE ifs # <<>>
    <3>1. 1 \in DOMAIN ifs /\ ifs[1] \in Interfaces
      BY <2>3
    <3>2. PICK i : i = [ifs[1] EXCEPT !.methods = <<c.name>> \o @]
      OBVIOUS
    <3>3. <<c.name>> \o ifs[1].methods \in Seq(MethodNames)
      BY <1>2, <3>1 DEF Interfaces
    <3>4. i \in Interfaces
      BY <3>1, <3>2, <3>3 DEF Interfaces
    <3>5. Apply(ifs, c) = [ifs EXCEPT ![1] = i]
      BY <2>1, <3>1, <3>2
    <3>q. QED BY <3>1, <3>4, <3>5
  <2>q. QED BY <2>2, <2>3
<1>q. QED BY <1>1, <1>2 DEF Calls

LEMMA ConstructIsTyped ==
    ASSUME NEW calls \in Seq(Calls), NEW lost
    PROVE  Construct(calls, lost) \in Seq(Interfaces)
<1> DEFINE n == Len(calls)
           Takes(ifs, k) == IF k \in lost THEN ifs ELSE Apply(ifs, calls[k])
<1>0. n \in Nat /\ DOMAIN calls = 1 .. n /\ <<>> \in Seq(Interfaces)
  OBVIOUS
<1>1. \A k \in 1 .. n, ifs \in Seq(Interfaces) : Takes(ifs, k) \in Seq(Interfaces)
  BY ApplyKeeps
<1>2. PICK h : h = [p \in (1 .. n) \X Seq(Interfaces) |-> Takes(p[2], p[1])]
  OBVIOUS
<1>3. h \in [(1 .. n) \X Seq(Interfaces) -> Seq(Interfaces)]
  BY <1>1, <1>2
<1>4. PICK g \in [SUBSET (1 .. n) -> Seq(Interfaces)] : Folds(g, n, h, <<>>)
  BY <1>0, <1>3, FoldExists
<1> HIDE DEF n, Takes
<1>5. g = [s \in SUBSET (1 .. n) |->
             IF s = {} THEN <<>>
             ELSE Takes(g[s \ {Max(s)}], [k \in 1 .. n |-> k][Max(s)])]
  <2>1. ASSUME NEW s \in SUBSET (1 .. n), s # {}
        PROVE  h[<<Max(s), g[s \ {Max(s)}]>>]
                  = Takes(g[s \ {Max(s)}], [k \in 1 .. n |-> k][Max(s)])
    <3>1. Max(s) \in 1 .. n /\ g[s \ {Max(s)}] \in Seq(Interfaces)
      BY <1>0, <2>1, MaxIn
    <3>q. QED BY <1>2, <3>1
  <2>q. QED BY <1>4, <2>1 DEF Folds
<1>6. PICK f : /\ f = [s \in SUBSET (1 .. n) |->
                        IF s = {} THEN <<>>
                        ELSE Takes(f[s \ {Max(s)}], [k \in 1 .. n |-> k][Max(s)])]
               /\ Construct(calls, lost) = f[1 .. n]
  <2>1. Construct(calls, lost) =
           (CHOOSE f : f = [s \in SUBSET (1 .. n) |->
              IF s = {} THEN <<>>
              ELSE Takes(f[s \ {Max(s)}], [k \in 1 .. n |-> k][Max(s)])])[1 .. n]
    BY <1>0 DEF Construct, FoldLeftDomain, FoldLeft, MapThenFoldSet, Takes
  <2>q. QED BY <1>5, <2>1
<1>z. 0 \in 0 .. n /\ n \in 0 .. n
  BY <1>0
<1>7. f[1 .. 0] = <<>>
  <2>1. f[{}] = <<>>
    BY <1>6
  <2>q. QED BY <1>0, <2>1, FoldStep, Zenon
<1>8. ASSUME NEW k \in 1 .. n PROVE f[1 .. k] = Takes(f[1 .. k - 1], k)
  <2>1. /\ 1 .. k \in SUBSET (1 .. n) /\ 1 .. k # {} /\ Max(1 .. k) = k
        /\ (1 .. k) \ {k} = 1 .. k - 1
    BY <1>0, FoldStep
  <2>2. PICK s : s = 1 .. k
    OBVIOUS
  <2>3. f[s] = Takes(f[s \ {k}], [j \in 1 .. n |-> j][k])
    BY <1>6, <2>1, <2>2
  <2>q. QED BY <2>1, <2>2, <2>3
<1>9. PICK S : S = {k \in 0 .. n : f[1 .. k] \in Seq(Interfaces)}
  OBVIOUS
<1>10. 0 .. n \subseteq S
  <2>1. 0 \in S
    <3>1. f[1 .. 0] \in Seq(Interfaces)
      BY <1>0, <1>7, Zenon
    <3>q. QED BY <1>z, <1>9, <3>1, Zenon
  <2>2. \A k \in 1 .. n : k - 1 \in S => k \in S
    BY <1>0, <1>1, <1>8, <1>9 DEF Takes
  <2>q. QED BY <1>0, <2>1, <2>2, InductionTo
<1>11. n \in S
  BY <1>z, <1>10
<1>q. QED BY <1>6, <1>9, <1>11

-----------------------------------------------------------------------------
(* The overview: what has been seen so far, up to what there is room for.  *)
Nodes == UNION {{NodeOf[interfaces[m][k].path] : k \in DOMAIN interfaces[m]} :
                   m \in Modules}
Seen == {s \in SUBSET Nodes : IsFiniteSet(s) /\ Cardinality(s) <= MaxNodes}
Shown(s, node) == node \in s \cup {Null} \/ Cardinality(s) = MaxNodes

LEMMA SeeOne ==
    ASSUME NEW s \in Seen, NEW node \in Nodes
    PROVE  See(s, node) \in Seen /\ s \subseteq See(s, node) /\ Shown(See(s, node), node)
<1>0. /\ MaxNodes \in Nat /\ IsFiniteSet(s)
      /\ Cardinality(s) <= MaxNodes /\ Cardinality(s) \in Nat
  BY NodesAssumption, FS_CardinalityType DEF Seen
<1>1. CASE node = Null \/ Cardinality(s) >= MaxNodes
  <2>1. See(s, node) = s
    BY <1>1 DEF See
  <2>2. Shown(s, node)
    BY <1>0, <1>1 DEF Shown
  <2>q. QED BY <2>1, <2>2
<1>2. CASE ~(node = Null \/ Cardinality(s) >= MaxNodes)
  <2>1. See(s, node) = s \cup {node}
    BY <1>2 DEF See
  <2>2. /\ IsFiniteSet(s \cup {node})
        /\ Cardinality(s \cup {node}) = IF node \in s THEN Cardinality(s)
                                        ELSE Cardinality(s) + 1
    BY <1>0, FS_AddElement
  <2>3. Cardinality(s \cup {node}) <= MaxNodes
    BY <1>0, <1>2, <2>2
  <2>4. s \cup {node} \in Seen
    BY <2>2, <2>3 DEF Seen
  <2>q. QED BY <2>1, <2>4 DEF Shown
<1>q. QED BY <1>1, <1>2

(* What is shown stays shown.                                              *)
LEMMA ShownStays ==
    ASSUME NEW s \in Seen, NEW t \in Seen, s \subseteq t, NEW node, Shown(s, node)
    PROVE  Shown(t, node)
<1>1. CASE Cardinality(s) = MaxNodes
  <2>1. /\ IsFiniteSet(t) /\ Cardinality(t) <= MaxNodes /\ Cardinality(t) \in Nat
        /\ Cardinality(s) <= Cardinality(t) /\ MaxNodes \in Nat
    BY NodesAssumption, FS_CardinalityType, FS_Subset DEF Seen
  <2>q. QED BY <1>1, <2>1 DEF Shown
<1>2. CASE node \in s \cup {Null}
  BY <1>2 DEF Shown
<1>q. QED BY <1>1, <1>2 DEF Shown

(* A module's interfaces, and the modules of the list, are shown while     *)
(* there is room: each fold adds to what was seen before it.               *)
LEMMA SeeModuleShows ==
    ASSUME InterfacesOK, NEW seen \in Seen, NEW m \in Modules
    PROVE  /\ SeeModule(seen, m) \in Seen /\ seen \subseteq SeeModule(seen, m)
           /\ \A k \in DOMAIN interfaces[m] :
                 Shown(SeeModule(seen, m), NodeOf[interfaces[m][k].path])
<1> DEFINE n == Len(interfaces[m])
           Takes(s, k) == See(s, NodeOf[interfaces[m][k].path])
<1>0. n \in Nat /\ DOMAIN interfaces[m] = 1 .. n
  BY DEF InterfacesOK
<1>n. \A k \in 1 .. n : NodeOf[interfaces[m][k].path] \in Nodes
  BY <1>0 DEF Nodes
<1>1. \A k \in 1 .. n, s \in Seen : Takes(s, k) \in Seen
  BY <1>n, SeeOne
<1>2. PICK h : h = [p \in (1 .. n) \X Seen |-> Takes(p[2], p[1])]
  OBVIOUS
<1>3. h \in [(1 .. n) \X Seen -> Seen]
  BY <1>1, <1>2
<1>4. PICK g \in [SUBSET (1 .. n) -> Seen] : Folds(g, n, h, seen)
  BY <1>0, <1>3, FoldExists
<1> HIDE DEF n, Takes
<1>5. g = [s \in SUBSET (1 .. n) |->
             IF s = {} THEN seen ELSE Takes(g[s \ {Max(s)}], Max(s))]
  <2>1. ASSUME NEW s \in SUBSET (1 .. n), s # {}
        PROVE  h[<<Max(s), g[s \ {Max(s)}]>>] = Takes(g[s \ {Max(s)}], Max(s))
    <3>1. Max(s) \in 1 .. n /\ g[s \ {Max(s)}] \in Seen
      BY <1>0, <2>1, MaxIn
    <3>q. QED BY <1>2, <3>1
  <2>q. QED BY <1>4, <2>1 DEF Folds
<1>6. PICK f : /\ f = [s \in SUBSET (1 .. n) |->
                        IF s = {} THEN seen ELSE Takes(f[s \ {Max(s)}], Max(s))]
               /\ SeeModule(seen, m) = f[1 .. n]
  <2>1. SeeModule(seen, m) =
           (CHOOSE f : f = [s \in SUBSET (1 .. n) |->
              IF s = {} THEN seen ELSE Takes(f[s \ {Max(s)}], Max(s))])[1 .. n]
    BY <1>0 DEF SeeModule, FoldLeft, MapThenFoldSet, Takes
  <2>q. QED BY <1>5, <2>1
<1>z. 0 \in 0 .. n /\ n \in 0 .. n
  BY <1>0
<1>7. f[1 .. 0] = seen /\ 1 .. 0 = {}
  <2>1. f[{}] = seen
    BY <1>6
  <2>q. QED BY <1>0, <2>1, FoldStep, Zenon
<1>8. ASSUME NEW k \in 1 .. n PROVE f[1 .. k] = Takes(f[1 .. k - 1], k)
  <2>1. /\ 1 .. k \in SUBSET (1 .. n) /\ 1 .. k # {} /\ Max(1 .. k) = k
        /\ (1 .. k) \ {k} = 1 .. k - 1
    BY <1>0, FoldStep
  <2>2. PICK s : s = 1 .. k
    OBVIOUS
  <2>3. f[s] = Takes(f[s \ {k}], k)
    BY <1>6, <2>1, <2>2
  <2>q. QED BY <2>1, <2>2, <2>3
<1> DEFINE PassedTo(t, k) ==
       /\ t \in Seen /\ seen \subseteq t
       /\ \A j \in 1 .. k : Shown(t, NodeOf[interfaces[m][j].path])
<1>9. PICK S : S = {k \in 0 .. n : PassedTo(f[1 .. k], k)}
  OBVIOUS
<1>10. 0 .. n \subseteq S
  <2>1. 0 \in S
    <3>1. PassedTo(seen, 0)
      BY <1>0
    <3> HIDE DEF PassedTo
    <3>q. QED BY <1>z, <1>7, <1>9, <3>1
  <2>2. ASSUME NEW k \in 1 .. n, k - 1 \in S PROVE k \in S
    <3>1. PICK s : s = f[1 .. k - 1] /\ PassedTo(s, k - 1)
      BY <1>9, <2>2
    <3>2. PICK t : t = Takes(s, k) /\ t = f[1 .. k]
      BY <1>8, <3>1
    <3>3. PassedTo(t, k)
      <4>1. PICK node \in Nodes : node = NodeOf[interfaces[m][k].path]
        BY <1>n
      <4>2. t \in Seen /\ s \subseteq t /\ Shown(t, node) /\ s \in Seen
        BY <3>1, <3>2, <4>1, SeeOne DEF Takes
      <4>3. ASSUME NEW j \in 1 .. k PROVE Shown(t, NodeOf[interfaces[m][j].path])
        <5>1. CASE j = k
          BY <4>1, <4>2, <5>1
        <5>2. CASE j # k
          <6>1. j \in 1 .. k - 1
            BY <1>0, <5>2
          <6>q. QED BY <3>1, <4>2, <6>1, ShownStays
        <5>q. QED BY <5>1, <5>2
      <4>4. seen \subseteq t
        BY <3>1, <4>2
      <4>q. QED BY <4>2, <4>3, <4>4
    <3> HIDE DEF PassedTo
    <3>4. k \in 0 .. n
      BY <1>0
    <3>q. QED BY <1>9, <3>2, <3>3, <3>4
  <2>q. QED BY <1>0, <2>1, <2>2, InductionTo
<1>11. n \in S
  BY <1>z, <1>10
<1>12. PassedTo(SeeModule(seen, m), n)
  BY <1>6, <1>9, <1>11
<1>q. QED BY <1>0, <1>12

LEMMA OverviewShows ==
    ASSUME InterfacesOK, order \in Seq(Modules)
    PROVE  /\ Overview \in Seen
           /\ \A l \in DOMAIN order : \A k \in DOMAIN interfaces[order[l]] :
                 Shown(Overview, NodeOf[interfaces[order[l]][k].path])
<1> DEFINE n == Len(order)
           Takes(s, k) == SeeModule(s, order[k])
<1>0. n \in Nat /\ DOMAIN order = 1 .. n /\ {} \in Seen
  <2>1. IsFiniteSet({}) /\ Cardinality({}) = 0
    BY FS_EmptySet
  <2>q. QED BY <2>1, NodesAssumption DEF Seen
<1>n. \A k \in 1 .. n : order[k] \in Modules
  BY <1>0
<1>1. \A k \in 1 .. n, s \in Seen : Takes(s, k) \in Seen
  BY <1>n, SeeModuleShows
<1>2. PICK h : h = [p \in (1 .. n) \X Seen |-> Takes(p[2], p[1])]
  OBVIOUS
<1>3. h \in [(1 .. n) \X Seen -> Seen]
  BY <1>1, <1>2
<1>4. PICK g \in [SUBSET (1 .. n) -> Seen] : Folds(g, n, h, {})
  BY <1>0, <1>3, FoldExists
<1> HIDE DEF n, Takes
<1>5. g = [s \in SUBSET (1 .. n) |->
             IF s = {} THEN {} ELSE Takes(g[s \ {Max(s)}], Max(s))]
  <2>1. ASSUME NEW s \in SUBSET (1 .. n), s # {}
        PROVE  h[<<Max(s), g[s \ {Max(s)}]>>] = Takes(g[s \ {Max(s)}], Max(s))
    <3>1. Max(s) \in 1 .. n /\ g[s \ {Max(s)}] \in Seen
      BY <1>0, <2>1, MaxIn
    <3>q. QED BY <1>2, <3>1
  <2>q. QED BY <1>4, <2>1 DEF Folds
<1>6. PICK f : /\ f = [s \in SUBSET (1 .. n) |->
                        IF s = {} THEN {} ELSE Takes(f[s \ {Max(s)}], Max(s))]
               /\ Overview = f[1 .. n]
  <2>1. Overview =
           (CHOOSE f : f = [s \in SUBSET (1 .. n) |->
              IF s = {} THEN {} ELSE Takes(f[s \ {Max(s)}], Max(s))])[1 .. n]
    BY <1>0 DEF Overview, FoldLeft, MapThenFoldSet, Takes
  <2>q. QED BY <1>5, <2>1
<1>z. 0 \in 0 .. n /\ n \in 0 .. n
  BY <1>0
<1>7. f[1 .. 0] = {} /\ 1 .. 0 = {}
  <2>1. f[{}] = {}
    BY <1>6
  <2>q. QED BY <1>0, <2>1, FoldStep, Zenon
<1>8. ASSUME NEW k \in 1 .. n PROVE f[1 .. k] = Takes(f[1 .. k - 1], k)
  <2>1. /\ 1 .. k \in SUBSET (1 .. n) /\ 1 .. k # {} /\ Max(1 .. k) = k
        /\ (1 .. k) \ {k} = 1 .. k - 1
    BY <1>0, FoldStep
  <2>2. PICK s : s = 1 .. k
    OBVIOUS
  <2>3. f[s] = Takes(f[s \ {k}], k)
    BY <1>6, <2>1, <2>2
  <2>q. QED BY <2>1, <2>2, <2>3
<1> DEFINE PassedTo(t, k) ==
       t \in Seen /\ {} \subseteq t /\ \A j \in 1 .. k : 
          \A i \in DOMAIN interfaces[order[j]] :
             Shown(t, NodeOf[interfaces[order[j]][i].path])
<1>9. PICK S : S = {k \in 0 .. n : PassedTo(f[1 .. k], k)}
  OBVIOUS
<1>10. 0 .. n \subseteq S
  <2>1. 0 \in S
    <3>1. PassedTo({}, 0)
      BY <1>0
    <3> HIDE DEF PassedTo
    <3>q. QED BY <1>z, <1>7, <1>9, <3>1
  <2>2. ASSUME NEW k \in 1 .. n, k - 1 \in S PROVE k \in S
    <3>1. PICK s : s = f[1 .. k - 1] /\ PassedTo(s, k - 1)
      BY <1>9, <2>2
    <3>2. PICK t : t = Takes(s, k) /\ t = f[1 .. k]
      BY <1>8, <3>1
    <3>3. PassedTo(t, k)
      <4>1. PICK m \in Modules : m = order[k]
        BY <1>n
      <4>2. t \in Seen /\ s \subseteq t /\ s \in Seen
        BY <3>1, <3>2, <4>1, SeeModuleShows DEF Takes
      <4>3. ASSUME NEW j \in 1 .. k, NEW i \in DOMAIN interfaces[order[j]]
            PROVE  Shown(t, NodeOf[interfaces[order[j]][i].path])
        <5>1. CASE j = k
          <6>1. t = SeeModule(s, m)
            BY <3>2, <4>1 DEF Takes
          <6>q. QED BY <4>1, <4>2, <5>1, <6>1, SeeModuleShows
        <5>2. CASE j # k
          <6>1. j \in 1 .. k - 1
            BY <1>0, <5>2
          <6>2. Shown(s, NodeOf[interfaces[order[j]][i].path])
            BY <3>1, <6>1
          <6>q. QED BY <4>2, <6>2, ShownStays
        <5>q. QED BY <5>1, <5>2
      <4>q. QED BY <4>2, <4>3
    <3> HIDE DEF PassedTo
    <3>4. k \in 0 .. n
      BY <1>0
    <3>q. QED BY <1>9, <3>2, <3>3, <3>4
  <2>q. QED BY <1>0, <2>1, <2>2, InductionTo
<1>11. n \in S
  BY <1>z, <1>10
<1>12. PassedTo(Overview, n)
  BY <1>6, <1>9, <1>11
<1>q. QED BY <1>0, <1>12

-----------------------------------------------------------------------------
(* What the modules hold is settled by their constructors.                 *)
LEMMA InterfacesStart == InitObjects => InterfacesOK
<1> SUFFICES ASSUME InitObjects PROVE InterfacesOK
  OBVIOUS
<1>1. \A m \in Modules : ConstructorOf[m] \in Seq(Calls)
  BY ConstructorsAssumption DEF Calls
<1>2. PICK lost : interfaces = [m \in Modules |-> Construct(ConstructorOf[m], lost[m])]
  BY DEF InitObjects
<1>3. \A m \in Modules : Construct(ConstructorOf[m], lost[m]) \in Seq(Interfaces)
  BY <1>1, ConstructIsTyped
<1>q. QED BY <1>2, <1>3 DEF InterfacesOK

(* The module that describes a path is the first with an interface there.  *)
LEMMA FirstTells ==
    ASSUME order \in Seq(Modules), NEW path, Tells(path) # {}
    PROVE  /\ Min(Tells(path)) \in Tells(path)
           /\ \A k \in Tells(path) : Min(Tells(path)) <= k
<1>1. PICK T : T = Tells(path)
  OBVIOUS
<1>2. T \in SUBSET Nat
  BY <1>1 DEF Tells
<1>3. PICK x \in T : \A y \in T : x <= y
  BY <1>1, <1>2, LeastOf
<1>q. QED BY <1>1, <1>3 DEF Min

(* Introspect tells of a path what can be called there, and what can be    *)
(* called is told of, unless an older module is there too (server.c:147);  *)
(* and the overview names every path, or is full (server.c:116).           *)
THEOREM IntrospectionAgrees == ObjectsSpec => []IntrospectAgrees
<1>1. ASSUME RegistryInv, InterfacesOK
      PROVE  IntrospectAgrees
  <2>0. order \in Seq(Modules)
    BY <1>1 DEF RegistryInv, TypeOK
  <2>1. ASSUME NEW path \in Paths, NEW t \in Introspect(path).methods
        PROVE  \E k \in DOMAIN order : Has(order[k], t[1], t[2], path)
    <3>1. Tells(path) # {} /\ t \in Describe(order[Min(Tells(path))], path)
      BY <2>1 DEF Introspect
    <3>2. PICK k \in DOMAIN order : k = Min(Tells(path))
      BY <2>0, <3>1, FirstTells DEF Tells
    <3>3. PICK j \in At(order[k], path) : t \in Methods(interfaces[order[k]][j])
      BY <3>1, <3>2 DEF Describe
    <3>4. Has(order[k], t[1], t[2], path)
      BY <3>3 DEF At, Methods, Has
    <3>q. QED BY <3>4
  <2>2. ASSUME NEW k \in DOMAIN order, NEW o \in Offers(order[k])
        PROVE  /\ \/ <<o[1], o[2]>> \in Introspect(o[3]).methods
                  \/ \E j \in Tells(o[3]) : j < k
               /\ \/ NodeOf[o[3]] \in Overview \cup {Null}
                  \/ Cardinality(Overview) = MaxNodes
    <3>1. PICK j \in DOMAIN interfaces[order[k]] :
             LET i == interfaces[order[k]][j]
             IN  i.name = o[1] /\ i.path = o[3] /\ o[2] \in ToSet(i.methods)
      BY <2>2 DEF Offers, Has
    <3>2. k \in Tells(o[3]) /\ j \in At(order[k], o[3])
      BY <3>1 DEF Tells, At
    <3>3. CASE Min(Tells(o[3])) = k
      <4>1. <<o[1], o[2]>> \in Describe(order[k], o[3])
        BY <3>1, <3>2 DEF Describe, Methods
      <4>2. <<o[1], o[2]>> \in Introspect(o[3]).methods
        BY <3>2, <3>3, <4>1 DEF Introspect
      <4>q. QED BY <4>2, <3>1, <1>1, <2>0, OverviewShows DEF Shown
    <3>4. CASE Min(Tells(o[3])) # k
      <4>1. PICK l \in Tells(o[3]) : l = Min(Tells(o[3])) /\ l <= k
        BY <2>0, <3>2, FirstTells
      <4>2. l < k
        BY <2>0, <3>4, <4>1 DEF Tells
      <4>q. QED BY <4>1, <4>2, <3>1, <1>1, <2>0, OverviewShows DEF Shown
    <3>q. QED BY <3>3, <3>4
  <2>q. QED BY <2>1, <2>2 DEF IntrospectAgrees
<1>2. InterfacesOK /\ [NextObjects]_objects => InterfacesOK'
  BY DEF InterfacesOK, NextObjects, objects
<1>q. QED BY <1>1, <1>2, InitRegistry, NextRegistry, InterfacesStart, PTL DEF ObjectsSpec
=============================================================================
