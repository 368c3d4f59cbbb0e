------------------------- MODULE EventManagerProofs -------------------------
(***************************************************************************)
(* For every number of handles, devices, delays and periods: both lists    *)
(* of the event manager stay whole and the fire list in order, loop events *)
(* do not drift, events due together keep their order, the lists implement *)
(* the timers of EventTimers, and an update moves on with each callback.   *)
(***************************************************************************)
EXTENDS EventManager, FiniteSetTheorems, WellFoundedInduction, TLAPS

(* Every set of numbers has a least one. *)
LEMMA LeastElement ==
  ASSUME NEW T \in SUBSET Nat, T # {}
  PROVE  \E x \in T : \A y \in T : x <= y
<1> DEFINE R == {ss \in Nat \X Nat : ss[1] < ss[2]}
<1>1. IsWellFoundedOn(R, Nat)
  BY NatLessThanWellFounded DEF OpToRel
<1>2. PICK x \in T : \A y \in T : ~(<<y, x>> \in R)
  <2> HIDE DEF R
  <2> QED
    BY <1>1, WFMin
<1>3. ASSUME NEW y \in T
      PROVE  x <= y
  <2>1. ~(<<y, x>> \in R)
    BY <1>2
  <2> QED
    BY <2>1
<1> QED
  BY <1>3

(* Induction: a set with 0 and, with n, n + 1, has every number. *)
LEMMA SetInduction ==
  ASSUME NEW S, 0 \in S, \A n \in Nat : n \in S => n + 1 \in S
  PROVE  Nat \subseteq S
<1> DEFINE T == {n \in Nat : n \notin S}
<1>1. SUFFICES ASSUME T # {}
               PROVE  FALSE
  OBVIOUS
<1>2. PICK x \in T : \A y \in T : x <= y
  <2>1. T \in SUBSET Nat
    OBVIOUS
  <2> HIDE DEF T
  <2> QED
    BY <1>1, <2>1, LeastElement
<1>3. x # 0 /\ x \in Nat
  OBVIOUS
<1>4. x - 1 \in Nat /\ x - 1 \notin T
  BY <1>2, <1>3
<1> QED
  BY <1>3, <1>4

(* NULL is no slot. *)
LEMMA NullIsNoSlot == NULL \notin Slots
BY TimersAssumption, ManagerAssumption DEF Slots

----------------------------------------------------------------------------
(* The slots met from h along next are c[1] to c[n], each once. *)
Leads(ev, h, c, n) ==
  /\ \A i, j \in 1 .. n : c[i] = c[j] => i = j
  /\ h = IF n = 0 THEN NULL ELSE c[1]
  /\ \A i \in 1 .. n : ev[c[i]].next = IF i = n THEN NULL ELSE c[i + 1]

(* What Chain finds is the list that next leads along. *)
LEMMA ChainIsList ==
  ASSUME NEW ev, NEW h, NEW n \in 0 .. MaxEvent, NEW c \in [1 .. n -> Slots],
         Leads(ev, h, c, n)
  PROVE  Chain(ev, h) = c /\ Len(Chain(ev, h)) = n
<1> DEFINE Step(g) == [i \in 0 .. MaxEvent |->
                         IF i = 0 THEN h
                         ELSE IF g[i - 1] = NULL THEN NULL
                         ELSE ev[g[i - 1]].next]
           at == CHOOSE g : g = Step(g)
           met == [i \in 0 .. MaxEvent |-> IF i < n THEN c[i + 1] ELSE NULL]
<1>1. n \in Nat /\ MaxEvent \in Nat /\ n <= MaxEvent
  BY ManagerAssumption
<1>2. \A i \in 1 .. n : c[i] \in Slots /\ c[i] # NULL
  BY NullIsNoSlot
<1>3. met = Step(met)
  <2>1. ASSUME NEW i \in 0 .. MaxEvent
        PROVE  met[i] = Step(met)[i]
    <3>1. CASE i = 0
      BY <1>1, <3>1 DEF Leads
    <3>2. CASE i > 0 /\ i <= n
      <4>1. i \in 1 .. n /\ i - 1 \in 0 .. MaxEvent /\ i - 1 < n
        BY <1>1, <3>2
      <4>2. met[i - 1] = c[i] /\ c[i] # NULL
        BY <1>2, <4>1
      <4>3. Step(met)[i] = ev[c[i]].next
        BY <3>2, <4>2
      <4>4. met[i] = IF i = n THEN NULL ELSE c[i + 1]
        BY <1>1, <4>1
      <4> QED
        BY <4>1, <4>3, <4>4 DEF Leads
    <3>3. CASE i > n
      BY <1>1, <3>3
    <3> QED
      BY <1>1, <3>1, <3>2, <3>3
  <2> QED
    BY <2>1
<1>4. at = Step(at)
  <2> HIDE DEF Step, met
  <2> QED
    BY <1>3
<1>5. ASSUME NEW i \in 0 .. MaxEvent
      PROVE  at[i] = met[i]
  <2> DEFINE S == {k \in Nat : k <= MaxEvent => at[k] = met[k]}
  <2>1. 0 \in S
    <3>1. at[0] = Step(at)[0] /\ met[0] = Step(met)[0]
      BY <1>3, <1>4
    <3>2. Step(at)[0] = h /\ Step(met)[0] = h
      BY <1>1
    <3> QED
      BY <3>1, <3>2
  <2>2. ASSUME NEW k \in Nat, k \in S, k + 1 <= MaxEvent
        PROVE  at[k + 1] = met[k + 1]
    <3>1. at[k] = met[k] /\ k + 1 \in 0 .. MaxEvent /\ (k + 1) - 1 = k
          /\ k + 1 # 0
      BY <1>1, <2>2
    <3>2. at[k + 1] = Step(at)[k + 1] /\ met[k + 1] = Step(met)[k + 1]
      BY <1>3, <1>4
    <3>3. /\ Step(at)[k + 1] = IF at[k] = NULL THEN NULL ELSE ev[at[k]].next
          /\ Step(met)[k + 1] = IF met[k] = NULL THEN NULL ELSE ev[met[k]].next
      <4> HIDE DEF at, met
      <4> QED
        BY <3>1
    <3> QED
      BY <3>1, <3>2, <3>3
  <2>3. Nat \subseteq S
    <3>1. \A k \in Nat : k \in S => k + 1 \in S
      BY <2>2
    <3> HIDE DEF S
    <3> QED
      BY <2>1, <3>1, SetInduction
  <2>4. i \in S
    <3> HIDE DEF S
    <3> QED
      BY <1>1, <2>3
  <2> HIDE DEF at, met
  <2> QED
    BY <1>1, <2>4
<1>6. {i \in 0 .. MaxEvent : at[i] # NULL} = 0 .. n - 1
  <2>1. {i \in 0 .. MaxEvent : at[i] # NULL}
          = {i \in 0 .. MaxEvent : met[i] # NULL}
    <3> HIDE DEF at, met
    <3> QED
      BY <1>5
  <2>2. {i \in 0 .. MaxEvent : met[i] # NULL} = 0 .. n - 1
    BY <1>1, <1>2
  <2> QED
    BY <2>1, <2>2
<1>7. Cardinality(0 .. n - 1) = n
  BY <1>1, FS_Interval
<1>8. Chain(ev, h) = [i \in 1 .. n |-> at[i - 1]]
  <2> DEFINE len == Cardinality({i \in 0 .. MaxEvent : at[i] # NULL})
  <2>1. Chain(ev, h) = [i \in 1 .. len |-> at[i - 1]]
    BY DEF Chain
  <2>2. len = n
    <3> HIDE DEF at
    <3> QED
      BY <1>6, <1>7
  <2> HIDE DEF len, at
  <2> QED
    BY <2>1, <2>2
<1>9. [i \in 1 .. n |-> at[i - 1]] = c
  <2>1. ASSUME NEW i \in 1 .. n
        PROVE  at[i - 1] = c[i]
    <3>1. i - 1 \in 0 .. MaxEvent /\ i - 1 < n /\ (i - 1) + 1 = i
      BY <1>1
    <3>2. at[i - 1] = met[i - 1]
      BY <1>5, <3>1
    <3>3. met[i - 1] = c[i]
      BY <3>1
    <3> QED
      BY <3>2, <3>3
  <2> HIDE DEF at
  <2> QED
    BY <2>1
<1>10. Len(c) = n
  BY <1>1
<1> QED
  <2> HIDE DEF at
  <2> QED
    BY <1>8, <1>9, <1>10

(* The back pointers of a list are the inverse of its next pointers. *)
Backed(ev, c, n) ==
  \A i \in 1 .. n : ev[c[i]].prev = IF i = 1 THEN NULL ELSE c[i - 1]

Sorted(ev, c, n) ==
  \A i, j \in 1 .. n : i < j => ev[c[i]].expired <= ev[c[j]].expired

FireList(ev, h, c, n) == Leads(ev, h, c, n) /\ Backed(ev, c, n) /\ Sorted(ev, c, n)

Handle ==
  [device : Devices \cup {NULL}, expired : Nat, loop : Nat,
   accum : 0 .. Frac - 1, active : BOOLEAN,
   next : SlotOrNull, prev : SlotOrNull, born : Nat]

(* The list with s put in at place k, and with place k taken out. *)
Inserted(c, n, k, s) ==
  [i \in 1 .. n + 1 |-> IF i < k THEN c[i] ELSE IF i = k THEN s ELSE c[i - 1]]

Removed(c, n, k) == [i \in 1 .. n - 1 |-> IF i < k THEN c[i] ELSE c[i + 1]]

(* A list with a new slot in it is a list of slots, each once. *)
LEMMA InsertedType ==
  ASSUME NEW n \in Nat, NEW c \in [1 .. n -> Slots], NEW k \in 1 .. n + 1,
         NEW s \in Slots,
         \A i, j \in 1 .. n : c[i] = c[j] => i = j,
         \A i \in 1 .. n : c[i] # s
  PROVE  /\ Inserted(c, n, k, s) \in [1 .. n + 1 -> Slots]
         /\ \A i, j \in 1 .. n + 1 :
              Inserted(c, n, k, s)[i] = Inserted(c, n, k, s)[j] => i = j
<1> DEFINE d == Inserted(c, n, k, s)
<1>1. \A i \in 1 .. n + 1 : d[i] = IF i < k THEN c[i]
                                  ELSE IF i = k THEN s ELSE c[i - 1]
  BY DEF Inserted
<1>2. d \in [1 .. n + 1 -> Slots]
  BY DEF Inserted
<1>3. \A i \in 1 .. n + 1 : i < k => i \in 1 .. n
  OBVIOUS
<1>4. \A i \in 1 .. n + 1 : i > k => i - 1 \in 1 .. n
  OBVIOUS
<1>5. ASSUME NEW i \in 1 .. n + 1, NEW j \in 1 .. n + 1, d[i] = d[j]
      PROVE  i = j
  <2> HIDE DEF d
  <2>1. CASE i < k
    BY <1>1, <1>3, <1>4, <1>5, <2>1
  <2>2. CASE i = k
    BY <1>1, <1>3, <1>4, <1>5, <2>2
  <2>3. CASE i > k
    BY <1>1, <1>3, <1>4, <1>5, <2>3
  <2> QED
    BY <2>1, <2>2, <2>3
<1> QED
  BY <1>2, <1>5

(* A list with a slot taken out is a list of slots, each once, and not of *)
(* the slot taken out.                                                    *)
LEMMA RemovedType ==
  ASSUME NEW n \in Nat, NEW c \in [1 .. n -> Slots], NEW k \in 1 .. n,
         \A i, j \in 1 .. n : c[i] = c[j] => i = j
  PROVE  /\ Removed(c, n, k) \in [1 .. n - 1 -> Slots]
         /\ \A i, j \in 1 .. n - 1 :
              Removed(c, n, k)[i] = Removed(c, n, k)[j] => i = j
         /\ \A i \in 1 .. n - 1 : Removed(c, n, k)[i] # c[k]
<1> DEFINE d == Removed(c, n, k)
<1>1. \A i \in 1 .. n - 1 : d[i] = IF i < k THEN c[i] ELSE c[i + 1]
  BY DEF Removed
<1>2. d \in [1 .. n - 1 -> Slots]
  BY DEF Removed
<1>3. \A i \in 1 .. n - 1 : i \in 1 .. n /\ i + 1 \in 1 .. n
  OBVIOUS
<1> HIDE DEF d
<1>4. ASSUME NEW i \in 1 .. n - 1, NEW j \in 1 .. n - 1, d[i] = d[j]
      PROVE  i = j
  BY <1>1, <1>3, <1>4
<1>5. ASSUME NEW i \in 1 .. n - 1
      PROVE  d[i] # c[k]
  BY <1>1, <1>3
<1> QED
  BY <1>2, <1>4, <1>5 DEF d

(* A list without its head, and what is at its places. *)
LEMMA HeadRemoved ==
  ASSUME NEW p \in Nat \ {0}, NEW f \in [1 .. p -> Slots],
         \A i, j \in 1 .. p : f[i] = f[j] => i = j
  PROVE  /\ Removed(f, p, 1) \in [1 .. p - 1 -> Slots]
         /\ \A i \in 1 .. p - 1 : Removed(f, p, 1)[i] # f[1]
         /\ \A i \in 1 .. p - 1 : Removed(f, p, 1)[i] = f[i + 1]
<1>1. \A i \in 1 .. p - 1 : i + 1 \in 1 .. p /\ i + 1 # 1 /\ ~(i < 1)
  OBVIOUS
<1>2. \A i \in 1 .. p - 1 : Removed(f, p, 1)[i] = f[i + 1]
  BY <1>1 DEF Removed
<1>3. Removed(f, p, 1) \in [1 .. p - 1 -> Slots]
  BY <1>1 DEF Removed
<1>4. 1 \in 1 .. p
  OBVIOUS
<1> QED
  BY <1>1, <1>2, <1>3, <1>4

(* Pointers set around s as insert_event sets them lead along the list     *)
(* with s in it.                                                           *)
LEMMA SplicedIn ==
  ASSUME NEW ev, NEW g, NEW h, NEW hh, NEW n \in Nat,
         NEW c \in [1 .. n -> Slots], NEW k \in 1 .. n + 1, NEW s \in Slots,
         Leads(ev, h, c, n), Backed(ev, c, n), \A i \in 1 .. n : c[i] # s,
         g[s].next = IF k = n + 1 THEN NULL ELSE c[k],
         g[s].prev = IF k = 1 THEN NULL ELSE c[k - 1],
         \A i \in 1 .. n :
           /\ g[c[i]].next = IF i = k - 1 THEN s ELSE ev[c[i]].next
           /\ g[c[i]].prev = IF i = k THEN s ELSE ev[c[i]].prev,
         hh = IF k = 1 THEN s ELSE h
  PROVE  /\ Leads(g, hh, Inserted(c, n, k, s), n + 1)
         /\ Backed(g, Inserted(c, n, k, s), n + 1)
<1> DEFINE d == Inserted(c, n, k, s)
<1>1. \A i \in 1 .. n + 1 : d[i] = IF i < k THEN c[i]
                                  ELSE IF i = k THEN s ELSE c[i - 1]
  BY DEF Inserted
<1>2. \A i, j \in 1 .. n + 1 : d[i] = d[j] => i = j
  BY InsertedType DEF Leads
<1>3. \A i \in 1 .. n + 1 : i < k => i \in 1 .. n
  OBVIOUS
<1>4. \A i \in 1 .. n + 1 : i > k => i - 1 \in 1 .. n
  OBVIOUS
<1> HIDE DEF d
<1>5. hh = IF n + 1 = 0 THEN NULL ELSE d[1]
  BY <1>1, <1>3 DEF Leads
<1>6. ASSUME NEW i \in 1 .. n + 1
      PROVE  g[d[i]].next = IF i = n + 1 THEN NULL ELSE d[i + 1]
  <2>1. CASE i < k
    BY <1>1, <1>3, <2>1 DEF Leads
  <2>2. CASE i = k
    BY <1>1, <2>2
  <2>3. CASE i > k
    BY <1>1, <1>4, <2>3 DEF Leads
  <2> QED
    BY <2>1, <2>2, <2>3
<1>7. ASSUME NEW i \in 1 .. n + 1
      PROVE  g[d[i]].prev = IF i = 1 THEN NULL ELSE d[i - 1]
  <2>1. CASE i < k
    BY <1>1, <1>3, <2>1 DEF Backed
  <2>2. CASE i = k
    BY <1>1, <2>2
  <2>3. CASE i > k
    BY <1>1, <1>4, <2>3 DEF Backed
  <2> QED
    BY <2>1, <2>2, <2>3
<1> QED
  BY <1>2, <1>5, <1>6, <1>7 DEF Leads, Backed, d

(* Pointers set around place k as cancel_event sets them lead along the    *)
(* list without it.                                                        *)
LEMMA SplicedOut ==
  ASSUME NEW ev, NEW g, NEW h, NEW hh, NEW n \in Nat,
         NEW c \in [1 .. n -> Slots], NEW k \in 1 .. n,
         Leads(ev, h, c, n), Backed(ev, c, n),
         \A i \in 1 .. n : i # k =>
           /\ g[c[i]].next = IF i = k - 1 THEN ev[c[k]].next ELSE ev[c[i]].next
           /\ g[c[i]].prev = IF i = k + 1 THEN ev[c[k]].prev ELSE ev[c[i]].prev,
         hh = IF k = 1 THEN ev[c[k]].next ELSE h
  PROVE  /\ Leads(g, hh, Removed(c, n, k), n - 1)
         /\ Backed(g, Removed(c, n, k), n - 1)
<1> DEFINE d == Removed(c, n, k)
<1>1. \A i \in 1 .. n - 1 : d[i] = IF i < k THEN c[i] ELSE c[i + 1]
  BY DEF Removed
<1>2. \A i, j \in 1 .. n - 1 : d[i] = d[j] => i = j
  BY RemovedType DEF Leads
<1>3. \A i \in 1 .. n - 1 : i \in 1 .. n /\ i + 1 \in 1 .. n
  OBVIOUS
<1> HIDE DEF d
<1>4. hh = IF n - 1 = 0 THEN NULL ELSE d[1]
  BY <1>1, <1>3 DEF Leads
<1>5. ASSUME NEW i \in 1 .. n - 1
      PROVE  g[d[i]].next = IF i = n - 1 THEN NULL ELSE d[i + 1]
  <2>1. CASE i < k
    BY <1>1, <1>3, <2>1 DEF Leads
  <2>2. CASE i >= k
    BY <1>1, <1>3, <2>2 DEF Leads
  <2> QED
    BY <2>1, <2>2
<1>6. ASSUME NEW i \in 1 .. n - 1
      PROVE  g[d[i]].prev = IF i = 1 THEN NULL ELSE d[i - 1]
  <2>1. CASE i < k
    BY <1>1, <1>3, <2>1 DEF Backed
  <2>2. CASE i >= k
    BY <1>1, <1>3, <2>2 DEF Backed
  <2> QED
    BY <2>1, <2>2
<1> QED
  BY <1>2, <1>4, <1>5, <1>6 DEF Leads, Backed, d

(* All of an event but its place in a list. *)
SameTimer(e, g) ==
  /\ e.device = g.device
  /\ e.expired = g.expired
  /\ e.loop = g.loop
  /\ e.accum = g.accum
  /\ e.active = g.active
  /\ e.born = g.born

(* insert_event puts s behind all that expire no later, before the others, *)
(* and touches nothing but the pointers of the list.                       *)
LEMMA InsertKeeps ==
  ASSUME NEW ev \in [Slots -> Handle], NEW h, NEW n \in 0 .. MaxEvent,
         NEW c \in [1 .. n -> Slots], NEW s \in Slots,
         FireList(ev, h, c, n), \A i \in 1 .. n : c[i] # s
  PROVE  LET r == InsertEvent(ev, h, s)
         IN  \E k \in 1 .. n + 1 :
               /\ r.event \in [Slots -> Handle]
               /\ FireList(r.event, r.head, Inserted(c, n, k, s), n + 1)
               /\ \A x \in Slots : SameTimer(r.event[x], ev[x])
               /\ \A x \in Slots :
                    x # s /\ (\A i \in 1 .. n : c[i] # x) => r.event[x] = ev[x]
               /\ \A i \in 1 .. n : i < k <=> ev[c[i]].expired <= ev[s].expired
<1> DEFINE later == {i \in 1 .. n : ev[c[i]].expired > ev[s].expired}
           k == IF later = {} THEN n + 1 ELSE Min(later)
           after == IF k = n + 1 THEN NULL ELSE c[k]
           before == IF k = 1 THEN NULL ELSE c[k - 1]
           r == InsertEvent(ev, h, s)
           g == [x \in Slots |->
                   CASE x = s -> [ev[s] EXCEPT !.next = after,
                                               !.prev = before]
                     [] x = before -> [ev[x] EXCEPT !.next = s]
                     [] x = after -> [ev[x] EXCEPT !.prev = s]
                     [] OTHER -> ev[x]]
<1>1. n \in Nat /\ n <= MaxEvent /\ MaxEvent \in Nat
  BY ManagerAssumption
<1>2. \A x \in Slots : ev[x] \in Handle /\ ev[x].expired \in Nat
  <2>1. ASSUME NEW x \in Slots
        PROVE  ev[x] \in Handle
    OBVIOUS
  <2> QED
    BY <2>1 DEF Handle
<1>3. /\ k \in 1 .. n + 1
      /\ \A i \in 1 .. n : i < k => ev[c[i]].expired <= ev[s].expired
      /\ k # n + 1 => ev[c[k]].expired > ev[s].expired
  <2>1. CASE later = {}
    BY <1>1, <1>2, <2>1
  <2>2. CASE later # {}
    <3>1. \E x \in later : \A y \in later : x <= y
      <4>1. later \in SUBSET Nat
        OBVIOUS
      <4> HIDE DEF later
      <4> QED
        BY <2>2, <4>1, LeastElement
    <3>2. Min(later) \in later /\ \A y \in later : Min(later) <= y
      <4> HIDE DEF later
      <4> QED
        BY <3>1 DEF Min
    <3>3. k \in later /\ \A y \in later : k <= y
      BY <2>2, <3>2
    <3> HIDE DEF k
    <3> QED
      BY <1>1, <1>2, <3>3
  <2> QED
    BY <2>1, <2>2
<1>4. \A i \in 1 .. n : i < k <=> ev[c[i]].expired <= ev[s].expired
  <2> HIDE DEF k
  <2>1. ASSUME NEW i \in 1 .. n, ~(i < k)
        PROVE  ev[c[i]].expired > ev[s].expired
    <3>1. k \in 1 .. n /\ (k = i \/ k < i)
      BY <1>1, <1>3, <2>1
    <3>2. ev[c[k]].expired <= ev[c[i]].expired
      BY <1>2, <3>1 DEF FireList, Sorted
    <3>3. /\ ev[c[k]].expired \in Nat /\ ev[c[i]].expired \in Nat
          /\ ev[s].expired \in Nat /\ ev[c[k]].expired > ev[s].expired
      BY <1>1, <1>2, <1>3, <3>1
    <3> QED
      BY <3>2, <3>3
  <2> QED
    BY <1>2, <1>3, <2>1
<1>5. Chain(ev, h) = c /\ Len(c) = n
  BY ChainIsList DEF FireList
<1>6. /\ after \in Slots \cup {NULL} /\ before \in Slots \cup {NULL}
      /\ after # s /\ before # s
      /\ after # NULL => after # before
  <2> HIDE DEF k
  <2>1. \A i, j \in 1 .. n : c[i] = c[j] => i = j
    BY DEF FireList, Leads
  <2> QED
    BY <1>1, <1>3, <2>1, NullIsNoSlot
<1>7. r.event = g /\ r.head = (IF k = 1 THEN s ELSE h)
  <2> DEFINE L(ch) == {i \in DOMAIN ch : GoesBehind(ev[ch[i]], ev[s])}
             A(ch) == IF L(ch) = {} THEN NULL ELSE ch[Min(L(ch))]
             B(ch) == CASE A(ch) # NULL -> ev[A(ch)].prev
                        [] ch # <<>> /\ A(ch) = NULL -> ch[Len(ch)]
                        [] OTHER -> NULL
             R(a, b) == [head |-> IF b = NULL THEN s ELSE h,
                         event |-> [x \in Slots |->
                            CASE x = s -> [ev[s] EXCEPT !.next = a,
                                                        !.prev = b]
                              [] x = b -> [ev[x] EXCEPT !.next = s]
                              [] x = a -> [ev[x] EXCEPT !.prev = s]
                              [] OTHER -> ev[x]]]
  <2>1. r = R(A(c), B(c))
    BY <1>5 DEF InsertEvent
  <2>2. L(c) = later
    BY DEF GoesBehind
  <2>3. A(c) = after
    <3>1. CASE later = {}
      BY <2>2, <3>1
    <3>2. CASE later # {}
      <4>1. k = Min(later) /\ A(c) = c[Min(later)]
        BY <2>2, <3>2
      <4>2. k # n + 1
        <5>1. k \in 1 .. n
          <6>1. \E x \in later : \A y \in later : x <= y
            <7>1. later \in SUBSET Nat
              OBVIOUS
            <7> HIDE DEF later
            <7> QED
              BY <3>2, <7>1, LeastElement
          <6>2. Min(later) \in later
            <7> HIDE DEF later
            <7> QED
              BY <6>1 DEF Min
          <6> QED
            BY <4>1, <6>2
        <5> QED
          BY <1>1, <5>1
      <4> HIDE DEF k
      <4> QED
        BY <4>1, <4>2
    <3> QED
      BY <3>1, <3>2
  <2>4. B(c) = before
    <3> HIDE DEF A, k
    <3>1. CASE k # n + 1
      <4>1. A(c) = c[k] /\ k \in 1 .. n
        BY <1>1, <1>3, <2>3, <3>1
      <4>2. A(c) # NULL
        BY <4>1, NullIsNoSlot
      <4>3. ev[c[k]].prev = before
        BY <4>1 DEF FireList, Backed
      <4> QED
        BY <4>1, <4>2, <4>3
    <3>2. CASE k = n + 1 /\ n # 0
      <4>1. A(c) = NULL /\ c # <<>>
        BY <1>1, <2>3, <3>2, <1>5
      <4>2. before = c[n]
        BY <1>1, <3>2
      <4> QED
        BY <1>5, <4>1, <4>2
    <3>3. CASE k = n + 1 /\ n = 0
      BY <1>1, <1>5, <2>3, <3>3
    <3> QED
      BY <3>1, <3>2, <3>3
  <2>5. (before = NULL) <=> (k = 1)
    <3> HIDE DEF k
    <3> QED
      BY <1>1, <1>3, NullIsNoSlot
  <2> HIDE DEF A, B, k, r, after, before
  <2>6. r = R(after, before)
    BY <2>1, <2>3, <2>4
  <2> QED
    BY <2>5, <2>6
<1> HIDE DEF k
<1>8. /\ g \in [Slots -> Handle]
      /\ \A x \in Slots : SameTimer(g[x], ev[x])
  <2> HIDE DEF after, before
  <2>1. ASSUME NEW x \in Slots
        PROVE  g[x] \in Handle /\ SameTimer(g[x], ev[x])
    <3>1. ev[x] \in Handle
      OBVIOUS
    <3>2. \/ g[x] = [ev[x] EXCEPT !.next = after, !.prev = before]
          \/ g[x] = [ev[x] EXCEPT !.next = s]
          \/ g[x] = [ev[x] EXCEPT !.prev = s]
          \/ g[x] = ev[x]
      BY <1>6, NullIsNoSlot
    <3> HIDE DEF g
    <3> QED
      BY <1>6, <3>1, <3>2 DEF Handle, SlotOrNull, SameTimer
  <2> QED
    BY <2>1
<1>9. \A x \in Slots :
        x # s /\ (\A i \in 1 .. n : c[i] # x) => g[x] = ev[x]
  BY <1>1, <1>3, NullIsNoSlot
<1>10. \A i, j \in 1 .. n : c[i] = c[j] => i = j
  BY DEF FireList, Leads
<1>11. /\ g[s].next = after /\ g[s].prev = before
       /\ \A i \in 1 .. n :
            /\ g[c[i]].next = IF i = k - 1 THEN s ELSE ev[c[i]].next
            /\ g[c[i]].prev = IF i = k THEN s ELSE ev[c[i]].prev
  <2>1. g[s].next = after /\ g[s].prev = before
    <3> HIDE DEF after, before
    <3>1. ev[s] \in Handle
      OBVIOUS
    <3>2. g[s] = [ev[s] EXCEPT !.next = after, !.prev = before]
      BY <1>6
    <3> HIDE DEF g
    <3> QED
      BY <3>1, <3>2 DEF Handle
  <2>2. ASSUME NEW i \in 1 .. n
        PROVE  /\ g[c[i]].next = IF i = k - 1 THEN s ELSE ev[c[i]].next
               /\ g[c[i]].prev = IF i = k THEN s ELSE ev[c[i]].prev
    <3>1. c[i] \in Slots /\ c[i] # s /\ ev[c[i]] \in Handle /\ c[i] # NULL
      BY NullIsNoSlot
    <3>2. c[i] = before <=> i = k - 1
      BY <1>1, <1>3, <1>10, <3>1
    <3>3. c[i] = after <=> i = k
      BY <1>1, <1>3, <1>10, <3>1
    <3>4. i = k - 1 => i # k
      BY <1>3
    <3>5. g[c[i]] = CASE i = k - 1 -> [ev[c[i]] EXCEPT !.next = s]
                      [] i = k -> [ev[c[i]] EXCEPT !.prev = s]
                      [] OTHER -> ev[c[i]]
      <4> HIDE DEF after, before
      <4> QED
        BY <3>1, <3>2, <3>3, <3>4
    <3> HIDE DEF g
    <3> QED
      BY <3>1, <3>4, <3>5 DEF Handle
  <2> QED
    BY <2>1, <2>2
<1>12. /\ Leads(g, IF k = 1 THEN s ELSE h, Inserted(c, n, k, s), n + 1)
       /\ Backed(g, Inserted(c, n, k, s), n + 1)
  <2> HIDE DEF g
  <2> QED
    BY <1>1, <1>3, <1>11, SplicedIn DEF FireList
<1>13. Sorted(g, Inserted(c, n, k, s), n + 1)
  <2> DEFINE d == Inserted(c, n, k, s)
  <2>1. \A i \in 1 .. n + 1 : d[i] = IF i < k THEN c[i]
                                    ELSE IF i = k THEN s ELSE c[i - 1]
    BY DEF Inserted
  <2>2. \A i \in 1 .. n + 1 : d[i] \in Slots
    BY <1>1, <1>3, <1>10, InsertedType
  <2>3. \A x \in Slots : g[x].expired = ev[x].expired
    BY <1>8 DEF SameTimer
  <2> HIDE DEF d, g
  <2>4. ASSUME NEW i \in 1 .. n + 1, NEW j \in 1 .. n + 1, i < j
        PROVE  ev[d[i]].expired <= ev[d[j]].expired
    <3>1. CASE j < k
      <4>1. i \in 1 .. n /\ j \in 1 .. n /\ i < k
        BY <1>1, <1>3, <2>4, <3>1
      <4>2. d[i] = c[i] /\ d[j] = c[j]
        BY <2>1, <3>1, <4>1
      <4> QED
        BY <2>4, <4>1, <4>2 DEF FireList, Sorted
    <3>2. CASE j = k
      BY <1>1, <1>4, <2>1, <2>4, <3>2
    <3>3. CASE j > k /\ i < k
      <4>1. i \in 1 .. n /\ j - 1 \in 1 .. n /\ i < j /\ i <= j - 1
        BY <1>1, <2>4, <3>3
      <4>2. d[i] = c[i] /\ d[j] = c[j - 1]
        BY <1>3, <2>1, <3>3
      <4> QED
        BY <1>2, <4>1, <4>2 DEF FireList, Sorted
    <3>4. CASE j > k /\ i = k
      <4>1. j - 1 \in 1 .. n /\ ~(j - 1 < k)
        BY <1>1, <1>3, <3>4
      <4>2. d[i] = s /\ d[j] = c[j - 1]
        BY <1>3, <2>1, <3>4
      <4> QED
        BY <1>2, <1>4, <4>1, <4>2
    <3>5. CASE j > k /\ i > k
      <4>1. i - 1 \in 1 .. n /\ j - 1 \in 1 .. n /\ i - 1 < j - 1
        BY <1>1, <1>3, <2>4, <3>5
      <4>2. d[i] = c[i - 1] /\ d[j] = c[j - 1]
        BY <1>3, <2>1, <3>5
      <4> QED
        BY <4>1, <4>2 DEF FireList, Sorted
    <3> QED
      BY <1>3, <3>1, <3>2, <3>3, <3>4, <3>5
  <2> QED
    BY <2>2, <2>3, <2>4 DEF Sorted, d
<1> HIDE DEF g, r
<1> QED
  BY <1>3, <1>4, <1>7, <1>8, <1>9, <1>12, <1>13 DEF FireList, r

(* A slot pushed on the free stack leads to what was its top. *)
LEMMA PushedLeads ==
  ASSUME NEW ev, NEW g, NEW h, NEW p \in Nat, NEW f \in [1 .. p -> Slots],
         NEW s \in Slots, Leads(ev, h, f, p), \A i \in 1 .. p : f[i] # s,
         g[s].next = h, \A i \in 1 .. p : g[f[i]].next = ev[f[i]].next
  PROVE  Leads(g, s, Inserted(f, p, 1, s), p + 1)
<1> DEFINE d == Inserted(f, p, 1, s)
<1>1. \A i \in 1 .. p + 1 : d[i] = IF i = 1 THEN s ELSE f[i - 1]
  BY DEF Inserted
<1>2. \A i, j \in 1 .. p + 1 : d[i] = d[j] => i = j
  BY InsertedType DEF Leads
<1> HIDE DEF d
<1>3. ASSUME NEW i \in 1 .. p + 1
      PROVE  g[d[i]].next = IF i = p + 1 THEN NULL ELSE d[i + 1]
  <2>1. CASE i = 1
    BY <1>1, <2>1 DEF Leads
  <2>2. CASE i > 1
    BY <1>1, <2>2 DEF Leads
  <2> QED
    BY <2>1, <2>2
<1> QED
  BY <1>1, <1>2, <1>3 DEF Leads, d

(* Without its top the free stack is led to by the top's next. *)
LEMMA PoppedLeads ==
  ASSUME NEW ev, NEW g, NEW h, NEW p \in Nat \ {0}, NEW f \in [1 .. p -> Slots],
         Leads(ev, h, f, p),
         \A i \in 2 .. p : g[f[i]].next = ev[f[i]].next
  PROVE  Leads(g, ev[h].next, Removed(f, p, 1), p - 1)
<1> DEFINE d == Removed(f, p, 1)
<1>1. \A i \in 1 .. p - 1 : d[i] = f[i + 1]
  BY DEF Removed
<1>2. \A i, j \in 1 .. p - 1 : d[i] = d[j] => i = j
  <2>1. p \in Nat /\ 1 \in 1 .. p
    OBVIOUS
  <2>2. \A i, j \in 1 .. p : f[i] = f[j] => i = j
    BY DEF Leads
  <2> HIDE DEF Leads
  <2> QED
    BY <2>1, <2>2, RemovedType
<1> HIDE DEF d
<1>3. \A i \in 1 .. p - 1 : g[d[i]].next = IF i = p - 1 THEN NULL ELSE d[i + 1]
  BY <1>1 DEF Leads
<1>4. ev[h].next = IF p - 1 = 0 THEN NULL ELSE d[1]
  BY <1>1 DEF Leads
<1> QED
  BY <1>2, <1>3, <1>4 DEF Leads, d

(* cancel_event takes one slot out of the fire list, makes it the top of   *)
(* the free stack, and touches nothing else but pointers of the fire list. *)
LEMMA UnlinkKeeps ==
  ASSUME NEW m, m.event \in [Slots -> Handle], m.free \in SlotOrNull,
         NEW n \in Nat, NEW c \in [1 .. n -> Slots], NEW k \in 1 .. n,
         FireList(m.event, m.fire, c, n)
  PROVE  LET r == Unlink(m, c[k])
         IN  /\ r.event \in [Slots -> Handle]
             /\ FireList(r.event, r.fire, Removed(c, n, k), n - 1)
             /\ r.free = c[k]
             /\ r.event[c[k]] = FreeHandle(m.free)
             /\ \A x \in Slots \ {c[k]} : SameTimer(r.event[x], m.event[x])
             /\ \A x \in Slots :
                  (\A i \in 1 .. n : c[i] # x) => r.event[x] = m.event[x]
<1> DEFINE s == c[k]
           ev == m.event
           after == ev[s].next
           before == ev[s].prev
           r == Unlink(m, s)
           g == [x \in Slots |->
                   CASE x = s -> FreeHandle(m.free)
                     [] x # s /\ x = before -> [ev[x] EXCEPT !.next = after]
                     [] x # s /\ x = after -> [ev[x] EXCEPT !.prev = before]
                     [] OTHER -> ev[x]]
<1>1. /\ r.event = g /\ r.free = s
      /\ r.fire = IF before = NULL THEN after ELSE m.fire
  BY DEF Unlink
<1>2. /\ s \in Slots
      /\ after = IF k = n THEN NULL ELSE c[k + 1]
      /\ before = IF k = 1 THEN NULL ELSE c[k - 1]
  BY DEF FireList, Leads, Backed
<1>3. \A i, j \in 1 .. n : c[i] = c[j] => i = j
  BY DEF FireList, Leads
<1>4. /\ after \in SlotOrNull /\ before \in SlotOrNull
      /\ after # NULL => after # before
  <2> HIDE DEF after, before
  <2> QED
    BY <1>2, <1>3, NullIsNoSlot DEF SlotOrNull
<1>5. FreeHandle(m.free) \in Handle
  BY TimersAssumption DEF FreeHandle, Handle, SlotOrNull
<1>6. ASSUME NEW x \in Slots
      PROVE  g[x] \in Handle /\ (x # s => SameTimer(g[x], ev[x]))
  <2> HIDE DEF after, before, s
  <2>1. ev[x] \in Handle
    OBVIOUS
  <2>2. \/ x = s /\ g[x] = FreeHandle(m.free)
        \/ x # s /\ g[x] = [ev[x] EXCEPT !.next = after]
        \/ x # s /\ g[x] = [ev[x] EXCEPT !.prev = before]
        \/ x # s /\ g[x] = ev[x]
    BY <1>4, NullIsNoSlot
  <2> HIDE DEF g, ev
  <2> QED
    BY <1>4, <1>5, <2>1, <2>2 DEF Handle, SameTimer
<1>7. g[s] = FreeHandle(m.free)
  BY <1>2
<1>8. \A x \in Slots : (\A i \in 1 .. n : c[i] # x) => g[x] = ev[x]
  <2> HIDE DEF after, before
  <2> QED
    BY <1>2, NullIsNoSlot
<1>9. ASSUME NEW i \in 1 .. n, i # k
      PROVE  /\ g[c[i]].next = IF i = k - 1 THEN after ELSE ev[c[i]].next
             /\ g[c[i]].prev = IF i = k + 1 THEN before ELSE ev[c[i]].prev
  <2>1. c[i] \in Slots /\ c[i] # s /\ ev[c[i]] \in Handle /\ c[i] # NULL
    BY <1>3, <1>9, NullIsNoSlot
  <2>2. /\ c[i] = before <=> i = k - 1
        /\ c[i] = after <=> i = k + 1
    <3> HIDE DEF after, before
    <3> QED
      BY <1>2, <1>3, <2>1
  <2>3. /\ i = k - 1 => g[c[i]] = [ev[c[i]] EXCEPT !.next = after]
        /\ i = k + 1 => g[c[i]] = [ev[c[i]] EXCEPT !.prev = before]
        /\ i # k - 1 /\ i # k + 1 => g[c[i]] = ev[c[i]]
    <3> HIDE DEF after, before, s
    <3> QED
      BY <2>1, <2>2
  <2> HIDE DEF g, after, before
  <2> QED
    BY <2>1, <2>3 DEF Handle
<1>10. r.fire = IF k = 1 THEN after ELSE m.fire
  <2> HIDE DEF r, after, before
  <2> QED
    BY <1>1, <1>2, NullIsNoSlot
<1>11. /\ Leads(g, r.fire, Removed(c, n, k), n - 1)
       /\ Backed(g, Removed(c, n, k), n - 1)
  <2> HIDE DEF g, r
  <2> QED
    BY <1>9, <1>10, SplicedOut DEF FireList
<1>12. Sorted(g, Removed(c, n, k), n - 1)
  <2> DEFINE d == Removed(c, n, k)
  <2>1. \A i \in 1 .. n - 1 : d[i] = IF i < k THEN c[i] ELSE c[i + 1]
    BY DEF Removed
  <2>2. \A i \in 1 .. n - 1 : d[i] \in Slots /\ d[i] # s
    BY <1>3, RemovedType
  <2>3. \A x \in Slots : x # s => g[x].expired = ev[x].expired
    BY <1>6 DEF SameTimer
  <2>4. \A i, j \in 1 .. n - 1 : i < j => ev[d[i]].expired <= ev[d[j]].expired
    <3> HIDE DEF d
    <3> QED
      BY <2>1 DEF FireList, Sorted
  <2> HIDE DEF d, g, ev, s
  <2> QED
    BY <2>2, <2>3, <2>4 DEF Sorted, d
<1>13. g \in [Slots -> Handle]
  BY <1>6
<1> HIDE DEF g, r
<1> QED
  BY <1>1, <1>6, <1>7, <1>8, <1>11, <1>12, <1>13 DEF FireList, r

(* Both lists at once: c is the fire list, n long, and f the free stack,   *)
(* and each slot is in the one that its active says.                       *)
Listed(ev, fire, free, c, f, n) ==
  /\ FireList(ev, fire, c, n)
  /\ Leads(ev, free, f, MaxEvent - n)
  /\ \A i \in 1 .. n : ev[c[i]].active
  /\ \A i \in 1 .. MaxEvent - n : ~ev[f[i]].active
  /\ \A s \in Slots : \/ \E i \in 1 .. n : c[i] = s
                      \/ \E i \in 1 .. MaxEvent - n : f[i] = s
  /\ \A s \in Slots : ~ev[s].active => ev[s] = FreeHandle(ev[s].next)

Whole(ev, fire, free) ==
  /\ ev \in [Slots -> Handle]
  /\ \E n \in 0 .. MaxEvent :
       \E c \in [1 .. n -> Slots], f \in [1 .. MaxEvent - n -> Slots] :
         Listed(ev, fire, free, c, f, n)

(* The heads of whole lists are slots, or NULL. *)
LEMMA WholeHeads ==
  ASSUME NEW ev, NEW fire, NEW free, Whole(ev, fire, free)
  PROVE  fire \in SlotOrNull /\ free \in SlotOrNull
<1>1. PICK n \in 0 .. MaxEvent :
        \E c \in [1 .. n -> Slots], f \in [1 .. MaxEvent - n -> Slots] :
          Listed(ev, fire, free, c, f, n)
  BY DEF Whole
<1>2. PICK c \in [1 .. n -> Slots], f \in [1 .. MaxEvent - n -> Slots] :
        Listed(ev, fire, free, c, f, n)
  BY <1>1
<1> QED
  BY <1>2, ManagerAssumption DEF Listed, FireList, Leads, SlotOrNull

(* A slot that is in neither list, once filed, leaves both whole. *)
LEMMA FilingKeeps ==
  ASSUME NEW ev \in [Slots -> Handle], NEW fire, NEW free,
         NEW n \in 0 .. MaxEvent - 1, NEW c \in [1 .. n -> Slots],
         NEW f \in [1 .. MaxEvent - (n + 1) -> Slots], NEW s \in Slots,
         FireList(ev, fire, c, n), Leads(ev, free, f, MaxEvent - (n + 1)),
         \A i \in 1 .. n : c[i] # s /\ ev[c[i]].active,
         \A i \in 1 .. MaxEvent - (n + 1) : ~ev[f[i]].active,
         ev[s].active,
         \A x \in Slots \ {s} : \/ \E i \in 1 .. n : c[i] = x
                                \/ \E i \in 1 .. MaxEvent - (n + 1) : f[i] = x,
         \A x \in Slots : ~ev[x].active => ev[x] = FreeHandle(ev[x].next)
  PROVE  LET r == InsertEvent(ev, fire, s)
         IN  \E k \in 1 .. n + 1 :
               /\ r.event \in [Slots -> Handle]
               /\ Inserted(c, n, k, s) \in [1 .. n + 1 -> Slots]
               /\ Listed(r.event, r.head, free, Inserted(c, n, k, s), f, n + 1)
               /\ \A x \in Slots : SameTimer(r.event[x], ev[x])
               /\ \A i \in 1 .. n : i < k <=> ev[c[i]].expired <= ev[s].expired
<1> DEFINE r == InsertEvent(ev, fire, s)
           p == MaxEvent - (n + 1)
<1>1. n \in 0 .. MaxEvent /\ n \in Nat /\ p \in Nat
  BY ManagerAssumption
<1>2. PICK k \in 1 .. n + 1 :
        /\ r.event \in [Slots -> Handle]
        /\ FireList(r.event, r.head, Inserted(c, n, k, s), n + 1)
        /\ \A x \in Slots : SameTimer(r.event[x], ev[x])
        /\ \A x \in Slots :
             x # s /\ (\A i \in 1 .. n : c[i] # x) => r.event[x] = ev[x]
        /\ \A i \in 1 .. n : i < k <=> ev[c[i]].expired <= ev[s].expired
  <2>1. FireList(ev, fire, c, n) /\ \A i \in 1 .. n : c[i] # s
    OBVIOUS
  <2> HIDE DEF p, r
  <2>2. \E k \in 1 .. n + 1 :
          /\ r.event \in [Slots -> Handle]
          /\ FireList(r.event, r.head, Inserted(c, n, k, s), n + 1)
          /\ \A x \in Slots : SameTimer(r.event[x], ev[x])
          /\ \A x \in Slots :
               x # s /\ (\A i \in 1 .. n : c[i] # x) => r.event[x] = ev[x]
          /\ \A i \in 1 .. n : i < k <=> ev[c[i]].expired <= ev[s].expired
    BY <1>1, <2>1, InsertKeeps, Zenon DEF r
  <2> QED
    BY <2>2
<1> DEFINE d == Inserted(c, n, k, s)
<1>3. d \in [1 .. n + 1 -> Slots]
  <2>1. \A i, j \in 1 .. n : c[i] = c[j] => i = j
    BY DEF FireList, Leads
  <2> QED
    BY <1>1, <2>1, InsertedType
<1>4. \A i \in 1 .. n + 1 : d[i] = IF i < k THEN c[i]
                                  ELSE IF i = k THEN s ELSE c[i - 1]
  BY DEF Inserted
<1> HIDE DEF d, r
<1>5. \A x \in Slots : r.event[x].active = ev[x].active
  BY <1>2 DEF SameTimer
<1>6. \A i \in 1 .. p : f[i] \in Slots /\ r.event[f[i]] = ev[f[i]]
  BY <1>1, <1>2
<1>7. \A i \in 1 .. n + 1 : ev[d[i]].active
  BY <1>1, <1>4
<1>8. ASSUME NEW x \in Slots
      PROVE  \/ \E i \in 1 .. n + 1 : d[i] = x
             \/ \E i \in 1 .. p : f[i] = x
  <2>1. CASE x = s
    <3>1. d[k] = s
      BY <1>4
    <3> QED
      BY <2>1, <3>1
  <2>2. ASSUME NEW i \in 1 .. n, c[i] = x
        PROVE  \E j \in 1 .. n + 1 : d[j] = x
    <3>1. CASE i < k
      BY <1>1, <1>4, <2>2, <3>1
    <3>2. CASE i >= k
      <4>1. i + 1 \in 1 .. n + 1 /\ ~(i + 1 < k) /\ i + 1 # k /\ (i + 1) - 1 = i
        BY <1>1, <3>2
      <4>2. d[i + 1] = c[i]
        BY <1>4, <4>1
      <4> QED
        BY <2>2, <4>1, <4>2
    <3> QED
      BY <1>1, <3>1, <3>2
  <2> QED
    BY <2>1, <2>2
<1>9. Leads(r.event, free, f, p)
  BY <1>6 DEF Leads
<1>10. \A x \in Slots : ~r.event[x].active => r.event[x] = FreeHandle(r.event[x].next)
  <2>1. ASSUME NEW x \in Slots, ~ev[x].active
        PROVE  r.event[x] = ev[x]
    <3>1. x # s /\ \A i \in 1 .. n : c[i] # x
      BY <2>1
    <3> QED
      BY <1>2, <3>1
  <2> QED
    BY <1>5, <2>1
<1>11. Listed(r.event, r.head, free, d, f, n + 1)
  BY <1>2, <1>3, <1>5, <1>6, <1>7, <1>8, <1>9, <1>10 DEF Listed, d
<1> QED
  BY <1>2, <1>3, <1>11 DEF d, r

(* An active slot is at a place of the fire list; unlinked, it leaves both *)
(* lists whole.                                                            *)
LEMMA CancelKeeps ==
  ASSUME NEW m, m.event \in [Slots -> Handle],
         NEW n \in 0 .. MaxEvent, NEW c \in [1 .. n -> Slots],
         NEW f \in [1 .. MaxEvent - n -> Slots],
         Listed(m.event, m.fire, m.free, c, f, n),
         NEW s \in Slots, m.event[s].active
  PROVE  LET r == Unlink(m, s)
         IN  \E k \in 1 .. n :
               /\ c[k] = s
               /\ r.event \in [Slots -> Handle]
               /\ n - 1 \in 0 .. MaxEvent
               /\ Removed(c, n, k) \in [1 .. n - 1 -> Slots]
               /\ Inserted(f, MaxEvent - n, 1, s)
                    \in [1 .. MaxEvent - (n - 1) -> Slots]
               /\ Listed(r.event, r.fire, r.free, Removed(c, n, k),
                         Inserted(f, MaxEvent - n, 1, s), n - 1)
               /\ r.event[s] = FreeHandle(m.free)
               /\ \A x \in Slots \ {s} : SameTimer(r.event[x], m.event[x])
<1> DEFINE r == Unlink(m, s)
           p == MaxEvent - n
<1>1. n \in Nat /\ p \in Nat /\ p + 1 = MaxEvent - (n - 1)
  BY ManagerAssumption
<1>2. PICK k \in 1 .. n : c[k] = s
  BY DEF Listed
<1>3. m.free \in SlotOrNull
  BY <1>1 DEF Listed, Leads, SlotOrNull
<1>4. /\ r.event \in [Slots -> Handle]
      /\ FireList(r.event, r.fire, Removed(c, n, k), n - 1)
      /\ r.free = s
      /\ r.event[s] = FreeHandle(m.free)
      /\ \A x \in Slots \ {s} : SameTimer(r.event[x], m.event[x])
      /\ \A x \in Slots :
           (\A i \in 1 .. n : c[i] # x) => r.event[x] = m.event[x]
  <2>1. FireList(m.event, m.fire, c, n)
    BY DEF Listed
  <2> HIDE DEF Listed
  <2> QED
    <3> DEFINE q == Unlink(m, c[k])
    <3>1. /\ q.event \in [Slots -> Handle]
          /\ FireList(q.event, q.fire, Removed(c, n, k), n - 1)
          /\ q.free = c[k]
          /\ q.event[c[k]] = FreeHandle(m.free)
          /\ \A x \in Slots \ {c[k]} : SameTimer(q.event[x], m.event[x])
          /\ \A x \in Slots :
               (\A i \in 1 .. n : c[i] # x) => q.event[x] = m.event[x]
      <4> HIDE DEF p, q, r
      <4> QED
        BY <1>1, <1>3, <2>1, UnlinkKeeps DEF q
    <3> QED
      BY <1>2, <3>1
<1> DEFINE d == Removed(c, n, k)
           e == Inserted(f, p, 1, s)
<1>5. \A i, j \in 1 .. n : c[i] = c[j] => i = j
  BY DEF Listed, FireList, Leads
<1>6. \A i, j \in 1 .. p : f[i] = f[j] => i = j
  BY DEF Listed, Leads
<1>7. \A i \in 1 .. p : f[i] \in Slots /\ f[i] # s /\ \A j \in 1 .. n : c[j] # f[i]
  BY <1>1 DEF Listed
<1>8. d \in [1 .. n - 1 -> Slots] /\ \A i \in 1 .. n - 1 : d[i] # s
  BY <1>1, <1>2, <1>5, RemovedType
<1>9. e \in [1 .. p + 1 -> Slots]
  <2>1. 1 \in 1 .. p + 1
    BY <1>1
  <2> HIDE DEF Listed
  <2> QED
    BY <1>1, <1>6, <1>7, <2>1, InsertedType
<1>10. \A i \in 1 .. n - 1 : d[i] = IF i < k THEN c[i] ELSE c[i + 1]
  BY DEF Removed
<1>11. \A i \in 1 .. p + 1 : e[i] = IF i = 1 THEN s ELSE f[i - 1]
  BY <1>1 DEF Inserted
<1> HIDE DEF d, e, r
<1>12. \A i \in 1 .. p : r.event[f[i]] = m.event[f[i]]
  BY <1>4, <1>7
<1>13. r.event[s].next = m.free /\ r.event[s].active = FALSE
  BY <1>4 DEF FreeHandle
<1>14. Leads(r.event, r.free, e, p + 1)
  <2>1. Leads(m.event, m.free, f, p)
    BY DEF Listed
  <2>2. \A i \in 1 .. p : r.event[f[i]].next = m.event[f[i]].next
    BY <1>12
  <2>3. p \in Nat /\ f \in [1 .. p -> Slots]
    BY <1>1
  <2> HIDE DEF p, Listed
  <2>4. Leads(r.event, s, Inserted(f, p, 1, s), p + 1)
    BY <1>7, <1>13, <2>1, <2>2, <2>3, PushedLeads
  <2> QED
    BY <1>4, <2>4 DEF e
<1>15. \A i \in 1 .. n - 1 : r.event[d[i]].active
  <2>1. \A i \in 1 .. n - 1 : m.event[d[i]].active
    BY <1>1, <1>10 DEF Listed
  <2> QED
    BY <1>4, <1>8, <2>1 DEF SameTimer
<1>16. \A i \in 1 .. p + 1 : ~r.event[e[i]].active
  <2>1. \A i \in 1 .. p : ~m.event[f[i]].active
    BY DEF Listed
  <2>2. \A i \in 1 .. p + 1 : i # 1 => i - 1 \in 1 .. p
    BY <1>1
  <2>3. \A i \in 1 .. p : ~r.event[f[i]].active
    BY <1>12, <2>1
  <2> HIDE DEF p, Listed
  <2> QED
    BY <1>11, <1>13, <2>2, <2>3
<1>17. ASSUME NEW x \in Slots
       PROVE  \/ \E i \in 1 .. n - 1 : d[i] = x
              \/ \E i \in 1 .. p + 1 : e[i] = x
  <2>1. CASE x = s
    BY <1>1, <1>11, <2>1
  <2>2. ASSUME NEW i \in 1 .. n, c[i] = x, x # s
        PROVE  \E j \in 1 .. n - 1 : d[j] = x
    <3>1. CASE i < k
      BY <1>1, <1>10, <2>2, <3>1
    <3>2. CASE i > k
      <4>1. i - 1 \in 1 .. n - 1 /\ ~(i - 1 < k) /\ (i - 1) + 1 = i
        BY <1>1, <3>2
      <4>2. d[i - 1] = c[i]
        BY <1>10, <4>1
      <4> QED
        BY <2>2, <4>1, <4>2
    <3> QED
      BY <1>2, <2>2, <3>1, <3>2
  <2>3. ASSUME NEW i \in 1 .. p, f[i] = x
        PROVE  \E j \in 1 .. p + 1 : e[j] = x
    <3>1. i + 1 \in 1 .. p + 1 /\ i + 1 # 1 /\ (i + 1) - 1 = i
      BY <1>1
    <3>2. e[i + 1] = f[i]
      BY <1>11, <3>1
    <3> QED
      BY <2>3, <3>1, <3>2
  <2> QED
    BY <2>1, <2>2, <2>3 DEF Listed
<1>18. ASSUME NEW x \in Slots, ~r.event[x].active
       PROVE  r.event[x] = FreeHandle(r.event[x].next)
  <2>1. CASE x = s
    BY <1>4, <1>13, <2>1
  <2>2. CASE x # s
    <3>1. ~m.event[x].active
      BY <1>4, <1>18, <2>2 DEF SameTimer
    <3>2. \A i \in 1 .. n : c[i] # x
      BY <3>1 DEF Listed
    <3>3. r.event[x] = m.event[x]
      BY <1>4, <3>2
    <3> QED
      BY <3>1, <3>3 DEF Listed
  <2> QED
    BY <2>1, <2>2
<1>19. Listed(r.event, r.fire, r.free, d, e, n - 1)
  <2> HIDE DEF p, Leads, FireList
  <2>1. FireList(r.event, r.fire, d, n - 1)
    BY <1>4 DEF d
  <2>2. Leads(r.event, r.free, e, MaxEvent - (n - 1))
    BY <1>1, <1>14
  <2>3. \A i \in 1 .. MaxEvent - (n - 1) : ~r.event[e[i]].active
    BY <1>1, <1>16
  <2>4. \A x \in Slots : \/ \E i \in 1 .. n - 1 : d[i] = x
                         \/ \E i \in 1 .. MaxEvent - (n - 1) : e[i] = x
    BY <1>1, <1>17
  <2> QED
    BY <1>15, <1>18, <2>1, <2>2, <2>3, <2>4 DEF Listed
<1>20. n - 1 \in 0 .. MaxEvent
  BY <1>2, ManagerAssumption
<1>21. e \in [1 .. MaxEvent - (n - 1) -> Slots]
  BY <1>1, <1>9
<1> HIDE DEF Listed
<1> QED
  BY <1>2, <1>4, <1>8, <1>19, <1>20, <1>21 DEF d, e, r

----------------------------------------------------------------------------
(* The inductive invariant: whole lists, no event behind the clock, no     *)
(* loop event off its periods.                                             *)
NoneOverdue ==
  /\ \A s \in Slots : event[s].active => eventClocks <= event[s].expired
  /\ goal # NULL => eventClocks <= goal

UpdateTypes ==
  /\ eventClocks \in Nat
  /\ goal \in Nat \cup {NULL}
  /\ calling \in Devices \cup {NULL}

ManagerInv ==
  /\ Whole(event, firstFireEvent, firstFreeEvent)
  /\ UpdateTypes
  /\ NoneOverdue
  /\ LoopsDoNotDrift

(* r is ahead of s in the list. *)
Ahead(c, n, r, s) == \E i, j \in 1 .. n : i < j /\ c[i] = r /\ c[j] = s

(* A slot put in leaves the order of the others. *)
LEMMA InsertedOrder ==
  ASSUME NEW n \in Nat, NEW c, NEW k \in 1 .. n + 1, NEW s, NEW x, NEW y,
         Ahead(c, n, x, y)
  PROVE  Ahead(Inserted(c, n, k, s), n + 1, x, y)
<1> DEFINE d == Inserted(c, n, k, s)
<1>1. \A i \in 1 .. n + 1 : d[i] = IF i < k THEN c[i]
                                  ELSE IF i = k THEN s ELSE c[i - 1]
  BY DEF Inserted
<1>2. PICK i \in 1 .. n, j \in 1 .. n : i < j /\ c[i] = x /\ c[j] = y
  BY DEF Ahead
<1> DEFINE a == IF i < k THEN i ELSE i + 1
           b == IF j < k THEN j ELSE j + 1
<1>3. a \in 1 .. n + 1 /\ b \in 1 .. n + 1 /\ a < b
  BY <1>2
<1>4. d[a] = x
  <2>1. CASE i < k
    BY <1>1, <1>2, <2>1
  <2>2. CASE i >= k
    BY <1>1, <1>2, <2>2
  <2> QED
    BY <2>1, <2>2
<1>5. d[b] = y
  <2>1. CASE j < k
    BY <1>1, <1>2, <2>1
  <2>2. CASE j >= k
    BY <1>1, <1>2, <2>2
  <2> QED
    BY <2>1, <2>2
<1> HIDE DEF a, b, d
<1> QED
  BY <1>3, <1>4, <1>5 DEF Ahead, d

(* So does a slot taken out. *)
LEMMA RemovedOrder ==
  ASSUME NEW n \in Nat, NEW c, NEW k \in 1 .. n, NEW x, NEW y,
         Ahead(c, n, x, y), x # c[k], y # c[k]
  PROVE  Ahead(Removed(c, n, k), n - 1, x, y)
<1> DEFINE d == Removed(c, n, k)
<1>1. \A i \in 1 .. n - 1 : d[i] = IF i < k THEN c[i] ELSE c[i + 1]
  BY DEF Removed
<1>2. PICK i \in 1 .. n, j \in 1 .. n : i < j /\ c[i] = x /\ c[j] = y
  BY DEF Ahead
<1> DEFINE a == IF i < k THEN i ELSE i - 1
           b == IF j < k THEN j ELSE j - 1
<1>3. i # k /\ j # k
  BY <1>2
<1>4. a \in 1 .. n - 1 /\ b \in 1 .. n - 1 /\ a < b
  BY <1>2, <1>3
<1>5. d[a] = x
  <2>1. CASE i < k
    BY <1>1, <1>2, <1>4, <2>1
  <2>2. CASE i > k
    BY <1>1, <1>2, <1>4, <2>2
  <2> QED
    BY <1>3, <2>1, <2>2
<1>6. d[b] = y
  <2>1. CASE j < k
    BY <1>1, <1>2, <1>4, <2>1
  <2>2. CASE j > k
    BY <1>1, <1>2, <1>4, <2>2
  <2> QED
    BY <1>3, <2>1, <2>2
<1> HIDE DEF a, b, d
<1> QED
  BY <1>4, <1>5, <1>6 DEF Ahead, d

(* A slot put in is behind those ahead of its place. *)
LEMMA InsertedBehind ==
  ASSUME NEW n \in Nat, NEW c, NEW k \in 1 .. n + 1, NEW s,
         NEW i \in 1 .. n, i < k
  PROVE  Ahead(Inserted(c, n, k, s), n + 1, c[i], s)
<1> DEFINE d == Inserted(c, n, k, s)
<1>1. d[i] = c[i] /\ d[k] = s
  BY DEF Inserted
<1>2. i \in 1 .. n + 1
  OBVIOUS
<1> HIDE DEF d
<1> QED
  BY <1>1, <1>2 DEF Ahead, d

(* The position of a slot in a list that has each slot once. *)
LEMMA PositionIs ==
  ASSUME NEW n \in Nat, NEW c \in [1 .. n -> Slots],
         \A i, j \in 1 .. n : c[i] = c[j] => i = j,
         NEW i \in 1 .. n
  PROVE  Position(c, c[i]) = i
<1>1. DOMAIN c = 1 .. n
  OBVIOUS
<1>2. Position(c, c[i]) \in 1 .. n /\ c[Position(c, c[i])] = c[i]
  BY <1>1 DEF Position
<1> QED
  BY <1>2

(* Ahead in the list is what Position compares. *)
LEMMA AheadIsPosition ==
  ASSUME NEW n \in Nat, NEW c \in [1 .. n -> Slots],
         \A i, j \in 1 .. n : c[i] = c[j] => i = j,
         NEW a \in 1 .. n, NEW b \in 1 .. n
  PROVE  Ahead(c, n, c[a], c[b]) <=> Position(c, c[a]) < Position(c, c[b])
<1>1. Position(c, c[a]) = a /\ Position(c, c[b]) = b
  BY PositionIs
<1> QED
  BY <1>1 DEF Ahead

----------------------------------------------------------------------------
(* The lists before and after a step: c, f, n and d, g, q. *)
Relisted(c, f, n, d, g, q) ==
  /\ n \in 0 .. MaxEvent
  /\ c \in [1 .. n -> Slots]
  /\ f \in [1 .. MaxEvent - n -> Slots]
  /\ Listed(event, firstFireEvent, firstFreeEvent, c, f, n)
  /\ q \in 0 .. MaxEvent
  /\ d \in [1 .. q -> Slots]
  /\ g \in [1 .. MaxEvent - q -> Slots]
  /\ Listed(event', firstFireEvent', firstFreeEvent', d, g, q)

(* register_event takes the top of the free stack and files it behind all *)
(* that expire no later.                                                  *)
LEMMA RegisterEffect ==
  ASSUME Whole(event, firstFireEvent, firstFreeEvent), eventClocks \in Nat,
         NEW d \in Devices, NEW clock \in Nat, NEW loop \in Nat,
         NEW accum \in 0 .. Frac - 1, Register(d, clock, loop, accum)
  PROVE  LET s == firstFreeEvent
         IN  /\ s \in Slots /\ ~event[s].active
             /\ event' \in [Slots -> Handle]
             /\ event'[s].device = d
             /\ event'[s].expired = eventClocks + clock
             /\ event'[s].loop = loop
             /\ event'[s].accum = accum
             /\ event'[s].active
             /\ event'[s].born = (IF loop = 0 THEN 0 ELSE eventClocks)
             /\ \A x \in Slots \ {s} : SameTimer(event'[x], event[x])
             /\ \E n \in Nat : \E c, f : \E k \in 1 .. n + 1 :
                  /\ Relisted(c, f, n, Inserted(c, n, k, s),
                              Removed(f, MaxEvent - n, 1), n + 1)
                  /\ \A i \in 1 .. n :
                       i < k <=> event[c[i]].expired <= eventClocks + clock
<1> DEFINE s == firstFreeEvent
           ev == [event EXCEPT ![s] =
                    [@ EXCEPT !.active = TRUE, !.device = d,
                              !.expired = eventClocks + clock,
                              !.loop = loop, !.accum = accum,
                              !.born = IF loop = 0 THEN 0 ELSE eventClocks]]
           filed == InsertEvent(ev, firstFireEvent, s)
<1>1. /\ s # NULL
      /\ firstFreeEvent' = event[s].next
      /\ event' = filed.event
      /\ firstFireEvent' = filed.head
  BY DEF Register
<1>2. event \in [Slots -> Handle]
  BY DEF Whole
<1>3. PICK n \in 0 .. MaxEvent :
        \E c \in [1 .. n -> Slots], f \in [1 .. MaxEvent - n -> Slots] :
          Listed(event, firstFireEvent, firstFreeEvent, c, f, n)
  BY DEF Whole
<1>4. PICK c \in [1 .. n -> Slots], f \in [1 .. MaxEvent - n -> Slots] :
        Listed(event, firstFireEvent, firstFreeEvent, c, f, n)
  BY <1>3
<1> DEFINE p == MaxEvent - n
           fs == Removed(f, p, 1)
<1>5. p \in Nat /\ n \in Nat
  BY ManagerAssumption
<1>6. p # 0 /\ s = f[1]
  BY <1>1, <1>4, <1>5 DEF Listed, Leads
<1>7. /\ p \in Nat \ {0} /\ 1 \in 1 .. p /\ n \in 0 .. MaxEvent - 1
      /\ p - 1 = MaxEvent - (n + 1) /\ s \in Slots
      /\ n + 1 \in 0 .. MaxEvent
  BY <1>5, <1>6, ManagerAssumption
<1>8. ~event[s].active
  BY <1>4, <1>6, <1>7 DEF Listed
<1>9. event[s] \in Handle
  BY <1>2, <1>7
<1> HIDE DEF s, filed
<1>10. /\ ev[s].device = d /\ ev[s].expired = eventClocks + clock
       /\ ev[s].loop = loop /\ ev[s].accum = accum /\ ev[s].active = TRUE
       /\ ev[s].born = (IF loop = 0 THEN 0 ELSE eventClocks)
       /\ ev[s].next = event[s].next /\ ev[s].prev = event[s].prev
       /\ ev[s] \in Handle
  <2> DEFINE e == event[s]
             born == IF loop = 0 THEN 0 ELSE eventClocks
  <2>1. ev[s] = [e EXCEPT !.active = TRUE, !.device = d,
                          !.expired = eventClocks + clock,
                          !.loop = loop, !.accum = accum, !.born = born]
    BY <1>2, <1>7
  <2>2. eventClocks + clock \in Nat /\ born \in Nat
    OBVIOUS
  <2>3. e \in Handle
    BY <1>9
  <2> HIDE DEF e, ev, born
  <2>4. /\ ev[s].device = d /\ ev[s].expired = eventClocks + clock
        /\ ev[s].loop = loop /\ ev[s].accum = accum /\ ev[s].active = TRUE
        /\ ev[s].born = born /\ ev[s].next = e.next /\ ev[s].prev = e.prev
    BY <2>1, <2>3 DEF Handle
  <2>5. ev[s] \in Handle
    BY <2>1, <2>2, <2>3 DEF Handle
  <2> QED
    BY <2>4, <2>5 DEF e, born
<1>11. \A x \in Slots : x # s => ev[x] = event[x]
  BY <1>2, <1>7
<1>12. ev \in [Slots -> Handle]
  <2>1. \A x \in Slots : ev[x] \in Handle
    BY <1>2, <1>10, <1>11
  <2>2. ev = [x \in Slots |-> ev[x]]
    BY <1>2
  <2> HIDE DEF ev
  <2> QED
    BY <2>1, <2>2
<1> HIDE DEF ev, p
<1>13. \A i \in 1 .. n : c[i] \in Slots /\ c[i] # s /\ event[c[i]].active
  BY <1>4, <1>8 DEF Listed
<1>14. \A i, j \in 1 .. p : f[i] = f[j] => i = j
  BY <1>4 DEF Listed, Leads, p
<1>15. f \in [1 .. p -> Slots]
  BY DEF p
<1>16. /\ fs \in [1 .. p - 1 -> Slots]
       /\ \A i \in 1 .. p - 1 : fs[i] # s
  <2>1. /\ Removed(f, p, 1) \in [1 .. p - 1 -> Slots]
        /\ \A i \in 1 .. p - 1 : Removed(f, p, 1)[i] # f[1]
    BY <1>7, <1>14, <1>15, HeadRemoved
  <2> QED
    BY <1>6, <2>1
<1>17. \A i \in 1 .. p - 1 : fs[i] = f[i + 1]
  BY <1>7 DEF Removed
<1> HIDE DEF fs
<1>18. FireList(ev, firstFireEvent, c, n)
  <2>1. \A i \in 1 .. n : ev[c[i]] = event[c[i]]
    BY <1>11, <1>13
  <2>2. FireList(event, firstFireEvent, c, n)
    BY <1>4 DEF Listed
  <2> QED
    BY <2>1, <2>2 DEF FireList, Leads, Backed, Sorted
<1>19. Leads(ev, event[s].next, fs, p - 1)
  <2>1. Leads(event, s, f, p)
    BY <1>4 DEF Listed, p, s
  <2>2. \A i \in 2 .. p : ev[f[i]].next = event[f[i]].next
    <3>1. ASSUME NEW i \in 2 .. p
          PROVE  f[i] \in Slots /\ f[i] # s
      <4>1. i \in 1 .. p /\ i # 1
        BY <1>5
      <4>2. f[i] # f[1]
        BY <1>7, <1>14, <4>1
      <4> QED
        BY <1>6, <1>15, <4>1, <4>2
    <3> QED
      BY <1>11, <3>1
  <2> QED
    BY <1>7, <1>15, <2>1, <2>2, PoppedLeads DEF fs
<1>20. \A i \in 1 .. p - 1 : ~ev[fs[i]].active
  BY <1>4, <1>5, <1>11, <1>16, <1>17 DEF Listed, p
<1>21. ASSUME NEW x \in Slots \ {s}
       PROVE  \/ \E i \in 1 .. n : c[i] = x
              \/ \E i \in 1 .. p - 1 : fs[i] = x
  <2>1. ASSUME NEW i \in 1 .. p, f[i] = x
        PROVE  \E j \in 1 .. p - 1 : fs[j] = x
    <3>1. i # 1
      BY <1>6, <2>1
    <3>2. i - 1 \in 1 .. p - 1 /\ (i - 1) + 1 = i
      BY <1>5, <3>1
    <3>3. fs[i - 1] = f[i]
      BY <1>17, <3>2
    <3> QED
      BY <2>1, <3>2, <3>3
  <2> QED
    BY <1>4, <2>1 DEF Listed, p
<1>22. \A x \in Slots : ~ev[x].active => ev[x] = FreeHandle(ev[x].next)
  BY <1>4, <1>10, <1>11 DEF Listed
<1>23. PICK k \in 1 .. n + 1 :
         /\ filed.event \in [Slots -> Handle]
         /\ Inserted(c, n, k, s) \in [1 .. n + 1 -> Slots]
         /\ Listed(filed.event, filed.head, event[s].next,
                   Inserted(c, n, k, s), fs, n + 1)
         /\ \A x \in Slots : SameTimer(filed.event[x], ev[x])
         /\ \A i \in 1 .. n : i < k <=> ev[c[i]].expired <= ev[s].expired
  <2> DEFINE next == event[s].next
  <2>1. fs \in [1 .. MaxEvent - (n + 1) -> Slots]
    BY <1>7, <1>16
  <2>2. Leads(ev, next, fs, MaxEvent - (n + 1))
    BY <1>7, <1>19
  <2>3. \A i \in 1 .. n : c[i] # s /\ ev[c[i]].active
    BY <1>11, <1>13
  <2>4. \A i \in 1 .. MaxEvent - (n + 1) : ~ev[fs[i]].active
    BY <1>7, <1>20
  <2>5. \A x \in Slots \ {s} : \/ \E i \in 1 .. n : c[i] = x
                               \/ \E i \in 1 .. MaxEvent - (n + 1) : fs[i] = x
    BY <1>7, <1>21
  <2>6. ev[s].active
    BY <1>10
  <2> HIDE DEF next
  <2>7. LET r == InsertEvent(ev, firstFireEvent, s)
        IN  \E k \in 1 .. n + 1 :
              /\ r.event \in [Slots -> Handle]
              /\ Inserted(c, n, k, s) \in [1 .. n + 1 -> Slots]
              /\ Listed(r.event, r.head, next, Inserted(c, n, k, s), fs, n + 1)
              /\ \A x \in Slots : SameTimer(r.event[x], ev[x])
              /\ \A i \in 1 .. n : i < k <=> ev[c[i]].expired <= ev[s].expired
    BY <1>7, <1>12, <1>18, <1>22, <2>1, <2>2, <2>3, <2>4, <2>5, <2>6,
       FilingKeeps
  <2> QED
    BY <2>7 DEF filed, next
<1>24. Relisted(c, f, n, Inserted(c, n, k, s), fs, n + 1)
  <2>1. Listed(event', firstFireEvent', firstFreeEvent',
               Inserted(c, n, k, s), fs, n + 1)
    BY <1>1, <1>23
  <2>2. fs \in [1 .. MaxEvent - (n + 1) -> Slots]
    BY <1>7, <1>16
  <2> QED
    BY <1>4, <1>7, <1>23, <2>1, <2>2 DEF Relisted
<1>25. \A i \in 1 .. n : i < k <=> event[c[i]].expired <= eventClocks + clock
  BY <1>10, <1>11, <1>13, <1>23
<1>26. /\ event'[s].device = d
       /\ event'[s].expired = eventClocks + clock
       /\ event'[s].loop = loop
       /\ event'[s].accum = accum
       /\ event'[s].active
       /\ event'[s].born = (IF loop = 0 THEN 0 ELSE eventClocks)
  BY <1>1, <1>7, <1>10, <1>23 DEF SameTimer
<1>27. \A x \in Slots \ {s} : SameTimer(event'[x], event[x])
  BY <1>1, <1>11, <1>23 DEF SameTimer
<1>28. event' \in [Slots -> Handle]
  BY <1>1, <1>23
<1> QED
  BY <1>5, <1>7, <1>8, <1>24, <1>25, <1>26, <1>27, <1>28 DEF s, fs, p

(* A step that unlinks an active slot takes it out of the fire list. *)
LEMMA UnlinkEffect ==
  ASSUME Whole(event, firstFireEvent, firstFreeEvent),
         NEW s \in Slots, event[s].active, SetLists(Unlink(Lists, s))
  PROVE  /\ event' \in [Slots -> Handle]
         /\ event'[s] = FreeHandle(firstFreeEvent)
         /\ \A x \in Slots \ {s} : SameTimer(event'[x], event[x])
         /\ \E n \in Nat : \E c, f : \E k \in 1 .. n :
              /\ c[k] = s
              /\ Relisted(c, f, n, Removed(c, n, k),
                          Inserted(f, MaxEvent - n, 1, s), n - 1)
<1> DEFINE m == Lists
           r == Unlink(m, s)
<1>1. /\ m.event = event /\ m.fire = firstFireEvent /\ m.free = firstFreeEvent
  BY DEF Lists
<1>2. event' = r.event /\ firstFireEvent' = r.fire /\ firstFreeEvent' = r.free
  BY DEF SetLists
<1>3. PICK n \in 0 .. MaxEvent :
        \E c \in [1 .. n -> Slots], f \in [1 .. MaxEvent - n -> Slots] :
          Listed(event, firstFireEvent, firstFreeEvent, c, f, n)
  BY DEF Whole
<1>4. PICK c \in [1 .. n -> Slots], f \in [1 .. MaxEvent - n -> Slots] :
        Listed(event, firstFireEvent, firstFreeEvent, c, f, n)
  BY <1>3
<1>5. n \in Nat
  BY ManagerAssumption
<1> HIDE DEF m
<1>6. PICK k \in 1 .. n :
        /\ c[k] = s
        /\ r.event \in [Slots -> Handle]
        /\ n - 1 \in 0 .. MaxEvent
        /\ Removed(c, n, k) \in [1 .. n - 1 -> Slots]
        /\ Inserted(f, MaxEvent - n, 1, s)
             \in [1 .. MaxEvent - (n - 1) -> Slots]
        /\ Listed(r.event, r.fire, r.free, Removed(c, n, k),
                  Inserted(f, MaxEvent - n, 1, s), n - 1)
        /\ r.event[s] = FreeHandle(m.free)
        /\ \A x \in Slots \ {s} : SameTimer(r.event[x], m.event[x])
  <2>1. m.event \in [Slots -> Handle] /\ m.event[s].active
    BY <1>1 DEF Whole
  <2>2. Listed(m.event, m.fire, m.free, c, f, n)
    BY <1>1, <1>4
  <2> QED
    BY <2>1, <2>2, CancelKeeps
<1>7. Relisted(c, f, n, Removed(c, n, k),
               Inserted(f, MaxEvent - n, 1, s), n - 1)
  BY <1>2, <1>4, <1>6 DEF Relisted
<1> HIDE DEF r
<1>8. /\ event' \in [Slots -> Handle]
      /\ event'[s] = FreeHandle(firstFreeEvent)
      /\ \A x \in Slots \ {s} : SameTimer(event'[x], event[x])
  BY <1>1, <1>2, <1>6
<1> QED
  BY <1>5, <1>6, <1>7, <1>8

(* The head of the fire list is due first. *)
LEMMA HeadIsFirst ==
  ASSUME Whole(event, firstFireEvent, firstFreeEvent), firstFireEvent # NULL
  PROVE  /\ firstFireEvent \in Slots
         /\ event[firstFireEvent] \in Handle
         /\ event[firstFireEvent].active
         /\ event[firstFireEvent].prev = NULL
         /\ \A x \in Slots : event[x].active =>
              event[firstFireEvent].expired <= event[x].expired
<1>1. PICK n \in 0 .. MaxEvent :
        \E c \in [1 .. n -> Slots], f \in [1 .. MaxEvent - n -> Slots] :
          Listed(event, firstFireEvent, firstFreeEvent, c, f, n)
  BY DEF Whole
<1>2. PICK c \in [1 .. n -> Slots], f \in [1 .. MaxEvent - n -> Slots] :
        Listed(event, firstFireEvent, firstFreeEvent, c, f, n)
  BY <1>1
<1>3. n \in Nat /\ n # 0 /\ 1 \in 1 .. n /\ firstFireEvent = c[1]
  BY <1>2, ManagerAssumption DEF Listed, FireList, Leads
<1>4. \A x \in Slots : event[x] \in Handle /\ event[x].expired \in Nat
  <2>1. \A x \in Slots : event[x] \in Handle
    BY DEF Whole
  <2> QED
    BY <2>1 DEF Handle
<1>5. event[c[1]].active /\ event[c[1]].prev = NULL
  BY <1>2, <1>3 DEF Listed, FireList, Backed
<1>6. ASSUME NEW x \in Slots, event[x].active
      PROVE  event[c[1]].expired <= event[x].expired
  <2>1. PICK i \in 1 .. n : c[i] = x
    BY <1>2, <1>6 DEF Listed
  <2>2. CASE i = 1
    BY <1>3, <1>4, <2>1, <2>2
  <2>3. CASE i # 1
    <3>1. 1 < i
      BY <1>3, <2>3
    <3> QED
      BY <1>2, <1>3, <2>1, <3>1 DEF Listed, FireList, Sorted
  <2> QED
    BY <2>2, <2>3
<1> QED
  BY <1>3, <1>4, <1>5, <1>6

(* The head of the fire list that is no loop event is freed as a cancelled *)
(* one is.                                                                 *)
LEMMA FireOnceUnlinks ==
  ASSUME Whole(event, firstFireEvent, firstFreeEvent),
         FireHead, event[firstFireEvent].loop = 0
  PROVE  SetLists(Unlink(Lists, firstFireEvent))
<1> DEFINE s == firstFireEvent
           e == event[s]
           freed == [[r \in Slots |->
                        IF r = e.next THEN [event[r] EXCEPT !.prev = NULL]
                        ELSE event[r]] EXCEPT ![s] = FreeHandle(firstFreeEvent)]
           r == Unlink(Lists, s)
<1>1. s \in Slots /\ e.prev = NULL
  BY HeadIsFirst DEF FireHead, HeadIsDue
<1>2. event' = freed /\ firstFireEvent' = e.next /\ firstFreeEvent' = s
  BY DEF FireHead
<1>3. r.event = [x \in Slots |->
                   CASE x = s -> FreeHandle(firstFreeEvent)
                     [] x # s /\ x = e.prev -> [event[x] EXCEPT !.next = e.next]
                     [] x # s /\ x = e.next -> [event[x] EXCEPT !.prev = e.prev]
                     [] OTHER -> event[x]]
      /\ r.fire = (IF e.prev = NULL THEN e.next ELSE firstFireEvent)
      /\ r.free = s
  BY DEF Unlink, Lists
<1>4. r.event = freed
  <2> HIDE DEF e, s, r
  <2>1. ASSUME NEW x \in Slots
        PROVE  r.event[x] = freed[x]
    <3>1. x # NULL
      BY NullIsNoSlot
    <3> QED
      BY <1>1, <1>3, <3>1
  <2>2. /\ r.event = [x \in Slots |-> r.event[x]]
        /\ freed = [x \in Slots |-> freed[x]]
    BY <1>3
  <2> HIDE DEF freed
  <2> QED
    BY <2>1, <2>2
<1> HIDE DEF freed, r
<1> QED
  BY <1>1, <1>2, <1>3, <1>4 DEF SetLists, r

(* Counting a period on from the last expiry. *)
LEMMA RearmedType ==
  ASSUME NEW e \in Handle
  PROVE  /\ Rearmed(e) \in Handle
         /\ Rearmed(e).expired * Frac + Rearmed(e).accum
              = e.expired * Frac + e.accum + e.loop
         /\ e.expired <= Rearmed(e).expired
         /\ Rearmed(e).device = e.device
         /\ Rearmed(e).loop = e.loop
         /\ Rearmed(e).active = e.active
         /\ Rearmed(e).born = e.born
         /\ Rearmed(e).next = e.next
<1> DEFINE total == e.accum + e.loop
           whole == total \div Frac
           part == total % Frac
<1>1. e.accum \in Nat /\ e.loop \in Nat /\ e.expired \in Nat /\ total \in Nat
  BY TimersAssumption DEF Handle
<1>2. /\ whole \in Nat /\ part \in 0 .. Frac - 1
      /\ total = whole * Frac + part
  <2> HIDE DEF total
  <2> QED
    BY <1>1, TimersAssumption
<1>3. Rearmed(e) = [e EXCEPT !.expired = e.expired + whole, !.accum = part]
  BY DEF Rearmed, Handle
<1> HIDE DEF whole, part
<1>4. /\ Rearmed(e).expired = e.expired + whole
      /\ Rearmed(e).accum = part
      /\ Rearmed(e).device = e.device
      /\ Rearmed(e).loop = e.loop
      /\ Rearmed(e).active = e.active
      /\ Rearmed(e).born = e.born
      /\ Rearmed(e).next = e.next
  BY <1>3 DEF Handle
<1>5. e.expired + whole \in Nat
  BY <1>1, <1>2
<1>6. Rearmed(e) \in Handle
  BY <1>2, <1>3, <1>5 DEF Handle
<1>7. (e.expired + whole) * Frac + part = e.expired * Frac + e.accum + e.loop
  <2>1. (e.expired + whole) * Frac = e.expired * Frac + whole * Frac
    BY <1>1, <1>2, TimersAssumption
  <2> QED
    BY <1>1, <1>2, <2>1, TimersAssumption
<1> QED
  BY <1>1, <1>2, <1>4, <1>6, <1>7

(* The head of the fire list that is a loop event is counted on and filed  *)
(* again, behind all that expire no later than it now does.                *)
LEMMA FireLoopEffect ==
  ASSUME Whole(event, firstFireEvent, firstFreeEvent),
         FireHead, event[firstFireEvent].loop # 0
  PROVE  LET s == firstFireEvent
             e == Rearmed(event[s])
         IN  /\ event' \in [Slots -> Handle]
             /\ SameTimer(event'[s], e)
             /\ \A x \in Slots \ {s} : SameTimer(event'[x], event[x])
             /\ \E n \in Nat : \E c, f : \E k \in 1 .. n :
                  /\ 1 \in 1 .. n /\ c[1] = s
                  /\ Relisted(c, f, n, Inserted(Removed(c, n, 1), n - 1, k, s),
                              f, n)
                  /\ \A i \in 1 .. n - 1 :
                       i < k <=> event[Removed(c, n, 1)[i]].expired <= e.expired
<1> DEFINE s == firstFireEvent
           e == Rearmed(event[s])
           rest == event[s].next
           popped == [x \in Slots |->
                        IF x = rest THEN [event[x] EXCEPT !.prev = NULL]
                        ELSE event[x]]
           ev == [popped EXCEPT ![s] = Rearmed(@)]
           filed == InsertEvent(ev, rest, s)
<1>1. /\ s # NULL
      /\ event' = filed.event /\ firstFireEvent' = filed.head
      /\ firstFreeEvent' = firstFreeEvent
  BY DEF FireHead, HeadIsDue
<1>2. /\ s \in Slots /\ event[s] \in Handle /\ event[s].active
      /\ event \in [Slots -> Handle]
  BY <1>1, HeadIsFirst DEF Whole
<1>3. PICK n \in 0 .. MaxEvent :
        \E c \in [1 .. n -> Slots], f \in [1 .. MaxEvent - n -> Slots] :
          Listed(event, firstFireEvent, firstFreeEvent, c, f, n)
  BY DEF Whole
<1>4. PICK c \in [1 .. n -> Slots], f \in [1 .. MaxEvent - n -> Slots] :
        Listed(event, firstFireEvent, firstFreeEvent, c, f, n)
  BY <1>3
<1> DEFINE cs == Removed(c, n, 1)
           p == n - 1
<1>5. /\ n \in Nat \ {0} /\ 1 \in 1 .. n /\ s = c[1]
      /\ p \in 0 .. MaxEvent - 1 /\ p \in Nat /\ p + 1 = n
  BY <1>1, <1>4, ManagerAssumption DEF Listed, FireList, Leads
<1>6. \A i, j \in 1 .. n : c[i] = c[j] => i = j
  BY <1>4 DEF Listed, FireList, Leads
<1>7. /\ cs \in [1 .. p -> Slots]
      /\ \A i \in 1 .. p : cs[i] # s
      /\ \A i \in 1 .. p : cs[i] = c[i + 1]
  <2> HIDE DEF cs, s
  <2> QED
    BY <1>5, <1>6, HeadRemoved DEF cs
<1>8. rest # s /\ rest \in SlotOrNull
  <2>1. rest = IF n = 1 THEN NULL ELSE c[2]
    BY <1>4, <1>5 DEF Listed, FireList, Leads
  <2> HIDE DEF rest, s
  <2> QED
    BY <1>5, <1>6, <2>1, NullIsNoSlot, <1>2 DEF SlotOrNull
<1>9. /\ e \in Handle /\ e.next = rest /\ e.active = event[s].active
      /\ e.device = event[s].device /\ e.loop = event[s].loop
      /\ e.born = event[s].born
  <2> HIDE DEF s
  <2> QED
    BY <1>2, RearmedType
<1> HIDE DEF s, e, cs
<1>10. ev[s] = e
  <2>1. popped[s] = event[s]
    BY <1>2, <1>8
  <2> HIDE DEF popped
  <2>2. s \in DOMAIN popped
    BY <1>2 DEF popped
  <2> QED
    BY <2>1, <2>2 DEF e
<1>11. \A x \in Slots : x # s =>
         ev[x] = IF x = rest THEN [event[x] EXCEPT !.prev = NULL] ELSE event[x]
  OBVIOUS
<1>12. ev = [x \in Slots |-> ev[x]]
  OBVIOUS
<1> HIDE DEF ev, rest, p
<1>13. \A x \in Slots : /\ ev[x] \in Handle
                        /\ x # s => SameTimer(ev[x], event[x])
                        /\ x # s => ev[x].next = event[x].next
                        /\ x # s /\ x # rest => ev[x] = event[x]
                        /\ x # s /\ x = rest => ev[x].prev = NULL
  <2>1. ASSUME NEW x \in Slots
        PROVE  /\ ev[x] \in Handle
               /\ x # s => SameTimer(ev[x], event[x])
               /\ x # s => ev[x].next = event[x].next
               /\ x # s /\ x # rest => ev[x] = event[x]
               /\ x # s /\ x = rest => ev[x].prev = NULL
    <3>1. event[x] \in Handle
      BY <1>2
    <3>2. CASE x = s
      BY <1>9, <1>10, <3>2
    <3>3. CASE x # s /\ x = rest
      <4>1. ev[x] = [event[x] EXCEPT !.prev = NULL]
        BY <1>11, <3>3
      <4> QED
        BY <3>1, <3>3, <4>1 DEF Handle, SameTimer, SlotOrNull
    <3>4. CASE x # s /\ x # rest
      BY <1>11, <3>1, <3>4 DEF SameTimer
    <3> QED
      BY <3>2, <3>3, <3>4
  <2> QED
    BY <2>1
<1>14. ev \in [Slots -> Handle]
  BY <1>12, <1>13
<1>15. \A i \in 1 .. n : c[i] \in Slots /\ event[c[i]].active
  BY <1>4 DEF Listed
<1>16. FireList(ev, rest, cs, p)
  <2>1. Leads(event, s, c, n) /\ Backed(event, c, n) /\ Sorted(event, c, n)
    BY <1>4 DEF Listed, FireList, s
  <2>2. ASSUME NEW i \in 1 .. p
        PROVE  /\ i + 1 \in 1 .. n
               /\ ev[cs[i]].next = event[c[i + 1]].next
               /\ ev[cs[i]].expired = event[c[i + 1]].expired
               /\ cs[i] = rest <=> i = 1
               /\ ev[cs[i]].prev = IF i = 1 THEN NULL ELSE event[c[i + 1]].prev
    <3>1. i + 1 \in 1 .. n /\ i + 1 # 1
      BY <1>5
    <3>2. cs[i] = c[i + 1] /\ cs[i] \in Slots /\ cs[i] # s
      BY <1>7, <3>1
    <3>3. n # 1 /\ rest = c[2] /\ 2 \in 1 .. n
      BY <1>5, <2>1, <3>1 DEF Leads, rest
    <3>4. cs[i] = rest <=> i = 1
      BY <1>6, <3>1, <3>2, <3>3
    <3> QED
      BY <1>13, <3>1, <3>2, <3>4 DEF SameTimer
  <2>3. rest = IF p = 0 THEN NULL ELSE cs[1]
    BY <1>5, <1>7, <2>1 DEF Leads, rest
  <2>4. \A i, j \in 1 .. p : cs[i] = cs[j] => i = j
    BY <1>5, <1>6, <1>7
  <2>5. \A i \in 1 .. p : ev[cs[i]].next = IF i = p THEN NULL ELSE cs[i + 1]
    BY <1>5, <1>7, <2>1, <2>2 DEF Leads
  <2>6. \A i \in 1 .. p : ev[cs[i]].prev = IF i = 1 THEN NULL ELSE cs[i - 1]
    <3>1. ASSUME NEW i \in 1 .. p, i # 1
          PROVE  event[c[i + 1]].prev = cs[i - 1]
      <4>1. i + 1 \in 1 .. n /\ i + 1 # 1 /\ i - 1 \in 1 .. p
            /\ (i - 1) + 1 = i /\ (i + 1) - 1 = i
        BY <1>5, <3>1
      <4>2. event[c[i + 1]].prev = c[i]
        BY <2>1, <4>1 DEF Backed
      <4> QED
        BY <1>7, <4>1, <4>2
    <3> QED
      BY <2>2, <3>1
  <2>7. \A i, j \in 1 .. p : i < j => ev[cs[i]].expired <= ev[cs[j]].expired
    BY <1>5, <2>1, <2>2 DEF Sorted
  <2> QED
    BY <2>3, <2>4, <2>5, <2>6, <2>7 DEF FireList, Leads, Backed, Sorted
<1>17. \A i \in 1 .. p : cs[i] # s /\ ev[cs[i]].active
  <2>1. \A i \in 1 .. p : cs[i] \in Slots /\ cs[i] # s /\ event[cs[i]].active
    BY <1>5, <1>7, <1>15
  <2> QED
    BY <1>13, <2>1 DEF SameTimer
<1>18. \A i \in 1 .. MaxEvent - n :
         f[i] \in Slots /\ f[i] # s /\ ~event[f[i]].active
         /\ ev[f[i]] = event[f[i]]
  <2>1. ASSUME NEW i \in 1 .. MaxEvent - n
        PROVE  /\ f[i] \in Slots /\ f[i] # s /\ ~event[f[i]].active
               /\ f[i] # rest
    <3>1. f[i] \in Slots /\ ~event[f[i]].active
      BY <1>4 DEF Listed
    <3>2. rest = NULL \/ \E j \in 1 .. n : c[j] = rest
      BY <1>4, <1>5 DEF Listed, FireList, Leads, rest, s
    <3> QED
      BY <1>2, <1>15, <3>1, <3>2, NullIsNoSlot
  <2> QED
    BY <1>13, <2>1
<1>19. Leads(ev, firstFreeEvent, f, MaxEvent - n)
  <2>1. Leads(event, firstFreeEvent, f, MaxEvent - n)
    BY <1>4 DEF Listed
  <2> QED
    BY <1>18, <2>1 DEF Leads
<1>20. ASSUME NEW x \in Slots \ {s}
       PROVE  \/ \E i \in 1 .. p : cs[i] = x
              \/ \E i \in 1 .. MaxEvent - n : f[i] = x
  <2>1. ASSUME NEW i \in 1 .. n, c[i] = x
        PROVE  \E j \in 1 .. p : cs[j] = x
    <3>1. i # 1
      BY <1>5, <2>1
    <3>2. i - 1 \in 1 .. p /\ (i - 1) + 1 = i
      BY <1>5, <3>1
    <3>3. cs[i - 1] = c[i]
      BY <1>7, <3>2
    <3> QED
      BY <2>1, <3>2, <3>3
  <2> QED
    BY <1>4, <2>1 DEF Listed
<1>21. \A x \in Slots : ~ev[x].active => ev[x] = FreeHandle(ev[x].next)
  <2>1. ASSUME NEW x \in Slots, ~ev[x].active
        PROVE  ev[x] = FreeHandle(ev[x].next)
    <3>1. x # s /\ ~event[x].active
      BY <1>2, <1>9, <1>10, <1>13, <2>1 DEF SameTimer
    <3>2. \E i \in 1 .. MaxEvent - n : f[i] = x
      BY <1>4, <3>1 DEF Listed
    <3>3. ev[x] = event[x]
      BY <1>18, <3>2
    <3> QED
      BY <1>4, <3>1, <3>3 DEF Listed
  <2> QED
    BY <2>1
<1>22. ev[s].active
  BY <1>2, <1>9, <1>10
<1>23. PICK k \in 1 .. n :
         /\ filed.event \in [Slots -> Handle]
         /\ Inserted(cs, p, k, s) \in [1 .. n -> Slots]
         /\ Listed(filed.event, filed.head, firstFreeEvent,
                   Inserted(cs, p, k, s), f, n)
         /\ \A x \in Slots : SameTimer(filed.event[x], ev[x])
         /\ \A i \in 1 .. p : i < k <=> ev[cs[i]].expired <= ev[s].expired
  <2>1. f \in [1 .. MaxEvent - (p + 1) -> Slots]
    BY <1>5
  <2>2. Leads(ev, firstFreeEvent, f, MaxEvent - (p + 1))
    BY <1>5, <1>19
  <2>3. \A i \in 1 .. MaxEvent - (p + 1) : ~ev[f[i]].active
    BY <1>5, <1>18
  <2>4. \A x \in Slots \ {s} : \/ \E i \in 1 .. p : cs[i] = x
                               \/ \E i \in 1 .. MaxEvent - (p + 1) : f[i] = x
    BY <1>5, <1>20
  <2>5. LET r == InsertEvent(ev, rest, s)
        IN  \E k \in 1 .. p + 1 :
              /\ r.event \in [Slots -> Handle]
              /\ Inserted(cs, p, k, s) \in [1 .. p + 1 -> Slots]
              /\ Listed(r.event, r.head, firstFreeEvent, Inserted(cs, p, k, s), f, p + 1)
              /\ \A x \in Slots : SameTimer(r.event[x], ev[x])
              /\ \A i \in 1 .. p : i < k <=> ev[cs[i]].expired <= ev[s].expired
    <3>1. s \in Slots /\ p \in 0 .. MaxEvent - 1 /\ cs \in [1 .. p -> Slots]
      BY <1>2, <1>5, <1>7
    <3> HIDE DEF filed
    <3> QED
      BY <1>14, <1>16, <1>17, <1>21, <1>22, <2>1, <2>2, <2>3, <2>4, <3>1,
         FilingKeeps
  <2> QED
    BY <1>5, <2>5
<1> HIDE DEF filed
<1>24. Relisted(c, f, n, Inserted(cs, p, k, s), f, n)
  <2>1. Listed(event', firstFireEvent', firstFreeEvent',
               Inserted(cs, p, k, s), f, n)
    BY <1>1, <1>23
  <2> QED
    BY <1>4, <1>23, <2>1 DEF Relisted
<1>25. \A i \in 1 .. p : i < k <=> event[cs[i]].expired <= e.expired
  BY <1>7, <1>10, <1>13, <1>23 DEF SameTimer
<1>26. SameTimer(event'[s], e)
  BY <1>1, <1>2, <1>10, <1>23
<1>27. \A x \in Slots \ {s} : SameTimer(event'[x], event[x])
  BY <1>1, <1>13, <1>23 DEF SameTimer
<1>28. event' \in [Slots -> Handle]
  BY <1>1, <1>23
<1>29. n \in Nat
  BY <1>5
<1> QED
  BY <1>5, <1>24, <1>25, <1>26, <1>27, <1>28, <1>29 DEF s, e, cs, p

----------------------------------------------------------------------------
(* One turn of the loop of EVENT::reset. *)
Sweep(m, s) ==
  IF m.event[s].active /\ m.event[s].loop = 0 THEN Unlink(m, s) ELSE m

(* The lists after the first k turns are g[k]. *)
Sweeps(g, m, k) ==
  g = [i \in 0 .. k |-> IF i = 0 THEN m ELSE Sweep(g[i - 1], i - 1)]

(* The loop has a course, however long it is. *)
LEMMA SweepsExist ==
  ASSUME NEW m, NEW k \in Nat
  PROVE  \E g : Sweeps(g, m, k)
<1> DEFINE S == {n \in Nat : \E g : Sweeps(g, m, n)}
<1>1. 0 \in S
  <2> DEFINE g == [i \in 0 .. 0 |-> m]
  <2>1. Sweeps(g, m, 0)
    BY DEF Sweeps
  <2> QED
    BY <2>1
<1>2. ASSUME NEW n \in Nat, n \in S
      PROVE  n + 1 \in S
  <2>1. PICK g : Sweeps(g, m, n)
    BY <1>2
  <2> DEFINE h == [i \in 0 .. n + 1 |-> IF i <= n THEN g[i]
                                        ELSE Sweep(g[n], n)]
  <2>2. \A i \in 0 .. n : g[i] = IF i = 0 THEN m ELSE Sweep(g[i - 1], i - 1)
    <3> DEFINE F == [i \in 0 .. n |-> IF i = 0 THEN m
                                      ELSE Sweep(g[i - 1], i - 1)]
    <3>1. g = F
      BY <2>1 DEF Sweeps
    <3>2. \A i \in 0 .. n : F[i] = IF i = 0 THEN m ELSE Sweep(g[i - 1], i - 1)
      OBVIOUS
    <3> HIDE DEF F
    <3> QED
      BY <3>1, <3>2
  <2>3. ASSUME NEW i \in 0 .. n + 1
        PROVE  h[i] = IF i = 0 THEN m ELSE Sweep(h[i - 1], i - 1)
    <3>1. CASE i = 0
      BY <2>2, <3>1
    <3>2. CASE i > 0 /\ i <= n
      <4>1. i \in 0 .. n /\ i - 1 \in 0 .. n /\ i # 0
        BY <3>2
      <4>2. h[i] = g[i] /\ h[i - 1] = g[i - 1]
        BY <4>1
      <4> HIDE DEF h
      <4> QED
        BY <2>2, <4>1, <4>2
    <3>3. CASE i = n + 1
      <4>1. h[n] = g[n] /\ h[n + 1] = Sweep(g[n], n) /\ (n + 1) - 1 = n
        OBVIOUS
      <4> HIDE DEF h
      <4> QED
        BY <3>3, <4>1
    <3> QED
      BY <3>1, <3>2, <3>3
  <2>4. Sweeps(h, m, n + 1)
    <3>1. h = [i \in 0 .. n + 1 |-> h[i]]
      OBVIOUS
    <3> HIDE DEF h
    <3> QED
      BY <2>3, <3>1 DEF Sweeps
  <2> HIDE DEF h
  <2> QED
    BY <2>4
<1>3. Nat \subseteq S
  <2>1. \A n \in Nat : n \in S => n + 1 \in S
    BY <1>2
  <2> HIDE DEF S
  <2> QED
    BY <1>1, <2>1, SetInduction
<1> QED
  BY <1>3

(* A timer that would fire once and stands before slot k. *)
SweptAway(ev, k, x) == x < k /\ ev[x].active /\ ev[x].loop = 0

(* What the first k turns have done to whole lists c and f. *)
SweptTo(m, c, n, r, k) ==
  /\ r.event \in [Slots -> Handle]
  /\ \E q \in 0 .. MaxEvent :
       \E d \in [1 .. q -> Slots], g \in [1 .. MaxEvent - q -> Slots] :
         /\ Listed(r.event, r.fire, r.free, d, g, q)
         /\ \A x, y \in Slots :
              /\ ~SweptAway(m.event, k, x) /\ ~SweptAway(m.event, k, y)
              /\ Ahead(c, n, x, y)
              => Ahead(d, q, x, y)
  /\ \A x \in Slots : IF SweptAway(m.event, k, x)
                      THEN ~r.event[x].active
                      ELSE SameTimer(r.event[x], m.event[x])

(* A turn of the loop does its part. *)
LEMMA SweepStep ==
  ASSUME NEW m, NEW n, NEW c, m.event \in [Slots -> Handle],
         NEW r, NEW k \in Slots, SweptTo(m, c, n, r, k)
  PROVE  SweptTo(m, c, n, Sweep(r, k), k + 1)
<1> DEFINE t == Sweep(r, k)
<1>1. k \in Nat
  BY ManagerAssumption DEF Slots
<1>2. \A x \in Slots : x \in Nat /\ (x < k + 1 <=> x < k \/ x = k)
  BY <1>1, ManagerAssumption DEF Slots
<1>3. r.event \in [Slots -> Handle]
  BY DEF SweptTo
<1>4. ~SweptAway(m.event, k, k)
  BY <1>1 DEF SweptAway
<1>5. SameTimer(r.event[k], m.event[k])
  BY <1>4 DEF SweptTo
<1>6. CASE ~(r.event[k].active /\ r.event[k].loop = 0)
  <2>1. t = r
    BY <1>6 DEF Sweep
  <2>2. \A x \in Slots : SweptAway(m.event, k + 1, x) <=> SweptAway(m.event, k, x)
    BY <1>2, <1>5, <1>6 DEF SweptAway, SameTimer
  <2> HIDE DEF t
  <2> QED
    BY <2>1, <2>2 DEF SweptTo, t
<1>7. CASE r.event[k].active /\ r.event[k].loop = 0
  <2>1. t = Unlink(r, k)
    BY <1>7 DEF Sweep
  <2>2. \A x \in Slots :
          SweptAway(m.event, k + 1, x) <=> SweptAway(m.event, k, x) \/ x = k
    BY <1>2, <1>5, <1>7 DEF SweptAway, SameTimer
  <2>3. PICK q \in 0 .. MaxEvent :
          \E d \in [1 .. q -> Slots], g \in [1 .. MaxEvent - q -> Slots] :
            /\ Listed(r.event, r.fire, r.free, d, g, q)
            /\ \A x, y \in Slots :
                 /\ ~SweptAway(m.event, k, x) /\ ~SweptAway(m.event, k, y)
                 /\ Ahead(c, n, x, y)
                 => Ahead(d, q, x, y)
    BY DEF SweptTo
  <2>4. PICK d \in [1 .. q -> Slots], g \in [1 .. MaxEvent - q -> Slots] :
            /\ Listed(r.event, r.fire, r.free, d, g, q)
            /\ \A x, y \in Slots :
                 /\ ~SweptAway(m.event, k, x) /\ ~SweptAway(m.event, k, y)
                 /\ Ahead(c, n, x, y)
                 => Ahead(d, q, x, y)
    BY <2>3
  <2> HIDE DEF t
  <2>5. PICK j \in 1 .. q :
          /\ d[j] = k
          /\ t.event \in [Slots -> Handle]
          /\ q - 1 \in 0 .. MaxEvent
          /\ Removed(d, q, j) \in [1 .. q - 1 -> Slots]
          /\ Inserted(g, MaxEvent - q, 1, k)
               \in [1 .. MaxEvent - (q - 1) -> Slots]
          /\ Listed(t.event, t.fire, t.free, Removed(d, q, j),
                    Inserted(g, MaxEvent - q, 1, k), q - 1)
          /\ t.event[k] = FreeHandle(r.free)
          /\ \A x \in Slots \ {k} : SameTimer(t.event[x], r.event[x])
    <3> DEFINE u == Unlink(r, k)
    <3>1. \E j \in 1 .. q :
            /\ d[j] = k
            /\ u.event \in [Slots -> Handle]
            /\ q - 1 \in 0 .. MaxEvent
            /\ Removed(d, q, j) \in [1 .. q - 1 -> Slots]
            /\ Inserted(g, MaxEvent - q, 1, k)
                 \in [1 .. MaxEvent - (q - 1) -> Slots]
            /\ Listed(u.event, u.fire, u.free, Removed(d, q, j),
                      Inserted(g, MaxEvent - q, 1, k), q - 1)
            /\ u.event[k] = FreeHandle(r.free)
            /\ \A x \in Slots \ {k} : SameTimer(u.event[x], r.event[x])
      BY <1>3, <1>7, <2>4, CancelKeeps
    <3> QED
      BY <2>1, <3>1
  <2> DEFINE dd == Removed(d, q, j)
             gg == Inserted(g, MaxEvent - q, 1, k)
  <2>6. ASSUME NEW x \in Slots, NEW y \in Slots,
               ~SweptAway(m.event, k + 1, x), ~SweptAway(m.event, k + 1, y),
               Ahead(c, n, x, y)
        PROVE  Ahead(dd, q - 1, x, y)
    <3>1. x # k /\ y # k /\ Ahead(d, q, x, y)
      BY <2>2, <2>4, <2>6
    <3>2. q \in Nat
      BY ManagerAssumption
    <3> QED
      BY <2>5, <3>1, <3>2, RemovedOrder
  <2>7. ASSUME NEW x \in Slots
        PROVE  IF SweptAway(m.event, k + 1, x)
               THEN ~t.event[x].active
               ELSE SameTimer(t.event[x], m.event[x])
    <3>1. CASE x = k
      BY <2>2, <2>5, <3>1 DEF FreeHandle
    <3>2. CASE x # k
      <4>1. SameTimer(t.event[x], r.event[x])
        BY <2>5, <3>2
      <4>2. IF SweptAway(m.event, k, x) THEN ~r.event[x].active
            ELSE SameTimer(r.event[x], m.event[x])
        BY DEF SweptTo
      <4> QED
        BY <2>2, <3>2, <4>1, <4>2 DEF SameTimer
    <3> QED
      BY <3>1, <3>2
  <2> HIDE DEF dd, gg
  <2>8. /\ dd \in [1 .. q - 1 -> Slots]
        /\ gg \in [1 .. MaxEvent - (q - 1) -> Slots]
        /\ Listed(t.event, t.fire, t.free, dd, gg, q - 1)
    BY <2>5 DEF dd, gg
  <2>9. SweptTo(m, c, n, t, k + 1)
    BY <2>5, <2>6, <2>7, <2>8 DEF SweptTo
  <2> QED
    BY <2>9 DEF t
<1> QED
  BY <1>6, <1>7

(* EVENT::reset cancels what would fire once, keeps the loop events and    *)
(* their order.                                                            *)
LEMMA ResetEffect ==
  ASSUME Whole(event, firstFireEvent, firstFreeEvent), Reset
  PROVE  /\ event' \in [Slots -> Handle]
         /\ \A x \in Slots : IF event[x].active /\ event[x].loop = 0
                             THEN ~event'[x].active
                             ELSE SameTimer(event'[x], event[x])
         /\ \E n, q \in Nat : \E c, f, d, g :
              /\ Relisted(c, f, n, d, g, q)
              /\ \A x, y \in Slots :
                   /\ ~(event[x].active /\ event[x].loop = 0)
                   /\ ~(event[y].active /\ event[y].loop = 0)
                   /\ Ahead(c, n, x, y)
                   => Ahead(d, q, x, y)
<1> DEFINE m == Lists
           Step(g) == [i \in 0 .. MaxEvent |->
                         IF i = 0 THEN m ELSE Sweep(g[i - 1], i - 1)]
           swept == CHOOSE g : g = Step(g)
<1>1. SetLists(swept[MaxEvent])
  BY DEF Reset, Sweep
<1>2. MaxEvent \in Nat /\ MaxEvent > 0
  BY ManagerAssumption
<1> HIDE DEF m
<1>3. swept = Step(swept)
  <2>1. \E g : g = Step(g)
    <3>1. PICK g : Sweeps(g, m, MaxEvent)
      BY <1>2, SweepsExist
    <3>2. g = Step(g)
      BY <3>1 DEF Sweeps
    <3> HIDE DEF Step
    <3> QED
      BY <3>2
  <2> HIDE DEF Step
  <2> QED
    BY <2>1
<1>4. \A i \in 0 .. MaxEvent :
        swept[i] = IF i = 0 THEN m ELSE Sweep(swept[i - 1], i - 1)
  <2> HIDE DEF swept
  <2>1. \A i \in 0 .. MaxEvent :
          Step(swept)[i] = IF i = 0 THEN m ELSE Sweep(swept[i - 1], i - 1)
    OBVIOUS
  <2> HIDE DEF Step
  <2> QED
    BY <1>3, <2>1
<1> HIDE DEF swept
<1>5. /\ m.event = event /\ m.fire = firstFireEvent /\ m.free = firstFreeEvent
      /\ event \in [Slots -> Handle]
  BY DEF Lists, Whole, m
<1>6. PICK n \in 0 .. MaxEvent :
        \E c \in [1 .. n -> Slots], f \in [1 .. MaxEvent - n -> Slots] :
          Listed(event, firstFireEvent, firstFreeEvent, c, f, n)
  BY DEF Whole
<1>7. PICK c \in [1 .. n -> Slots], f \in [1 .. MaxEvent - n -> Slots] :
        Listed(event, firstFireEvent, firstFreeEvent, c, f, n)
  BY <1>6
<1> DEFINE S == {k \in Nat : k <= MaxEvent => SweptTo(m, c, n, swept[k], k)}
<1>8. 0 \in S
  <2>1. swept[0] = m
    BY <1>2, <1>4
  <2>2. \A x \in Slots : ~SweptAway(m.event, 0, x)
    BY ManagerAssumption DEF SweptAway, Slots
  <2>3. \A x \in Slots : SameTimer(m.event[x], m.event[x])
    BY DEF SameTimer
  <2>4. SweptTo(m, c, n, m, 0)
    BY <1>5, <1>7, <2>2, <2>3 DEF SweptTo
  <2> QED
    BY <2>1, <2>4
<1>9. ASSUME NEW k \in Nat, k \in S, k + 1 <= MaxEvent
      PROVE  SweptTo(m, c, n, swept[k + 1], k + 1)
  <2>1. k \in Slots /\ k + 1 \in 0 .. MaxEvent /\ k + 1 # 0 /\ (k + 1) - 1 = k
    BY <1>2, <1>9 DEF Slots
  <2>2. SweptTo(m, c, n, swept[k], k)
    BY <1>2, <1>9
  <2>3. swept[k + 1] = Sweep(swept[k], k)
    BY <1>4, <2>1
  <2>4. SweptTo(m, c, n, Sweep(swept[k], k), k + 1)
    BY <1>5, <2>1, <2>2, SweepStep
  <2> QED
    BY <2>3, <2>4
<1>10. SweptTo(m, c, n, swept[MaxEvent], MaxEvent)
  <2>1. \A k \in Nat : k \in S => k + 1 \in S
    BY <1>9
  <2>2. Nat \subseteq S
    <3> HIDE DEF S
    <3> QED
      BY <1>8, <2>1, SetInduction
  <2> QED
    BY <1>2, <2>2
<1> DEFINE r == swept[MaxEvent]
<1> HIDE DEF S, r
<1>11. /\ event' = r.event /\ firstFireEvent' = r.fire
       /\ firstFreeEvent' = r.free
  BY <1>1 DEF SetLists, r
<1>12. SweptTo(m, c, n, r, MaxEvent)
  BY <1>10 DEF r
<1>13. \A x \in Slots : SweptAway(event, MaxEvent, x)
                          <=> event[x].active /\ event[x].loop = 0
  BY ManagerAssumption DEF SweptAway, Slots
<1>14. PICK q \in 0 .. MaxEvent :
         \E d \in [1 .. q -> Slots], g \in [1 .. MaxEvent - q -> Slots] :
           /\ Listed(r.event, r.fire, r.free, d, g, q)
           /\ \A x, y \in Slots :
                /\ ~SweptAway(m.event, MaxEvent, x)
                /\ ~SweptAway(m.event, MaxEvent, y)
                /\ Ahead(c, n, x, y)
                => Ahead(d, q, x, y)
  BY <1>12 DEF SweptTo
<1>15. PICK d \in [1 .. q -> Slots], g \in [1 .. MaxEvent - q -> Slots] :
           /\ Listed(r.event, r.fire, r.free, d, g, q)
           /\ \A x, y \in Slots :
                /\ ~SweptAway(m.event, MaxEvent, x)
                /\ ~SweptAway(m.event, MaxEvent, y)
                /\ Ahead(c, n, x, y)
                => Ahead(d, q, x, y)
  BY <1>14
<1>16. Relisted(c, f, n, d, g, q)
  BY <1>7, <1>11, <1>15 DEF Relisted
<1>17. \A x, y \in Slots :
         /\ ~(event[x].active /\ event[x].loop = 0)
         /\ ~(event[y].active /\ event[y].loop = 0)
         /\ Ahead(c, n, x, y)
         => Ahead(d, q, x, y)
  BY <1>5, <1>13, <1>15
<1>18. /\ event' \in [Slots -> Handle]
       /\ \A x \in Slots : IF event[x].active /\ event[x].loop = 0
                           THEN ~event'[x].active
                           ELSE SameTimer(event'[x], event[x])
  BY <1>5, <1>11, <1>12, <1>13 DEF SweptTo
<1>19. n \in Nat /\ q \in Nat
  BY ManagerAssumption
<1> QED
  BY <1>16, <1>17, <1>18, <1>19

----------------------------------------------------------------------------
(* What div and mod are. *)
LEMMA Division ==
  ASSUME NEW a \in Int, NEW p \in Int, p > 0
  PROVE  \E q \in Int, r \in 0 .. p - 1 :
           q = a \div p /\ r = a % p /\ a = p * q + r
<1> DEFINE q == a \div p
           r == a % p
<1>1. a = q * p + r
  OBVIOUS
<1>2. q \in Int /\ r \in 0 .. p - 1
  OBVIOUS
<1> HIDE DEF q, r
<1>3. q \in Int /\ r \in 0 .. p - 1 /\ a = p * q + r
  BY <1>1, <1>2
<1> QED
  BY <1>3 DEF q, r

(* A multiple of p leaves no rest. *)
LEMMA MultipleHasNoRest ==
  ASSUME NEW p \in Nat \ {0}, NEW q \in Int, NEW y \in Int,
         NEW r \in 0 .. p - 1, p * q = p * y + r
  PROVE  r = 0
<1> DEFINE z == q - y
<1>1. z \in Int /\ r = p * z
  OBVIOUS
<1> HIDE DEF z
<1>2. CASE z >= 1
  <2>1. p * z >= p
    BY <1>1, <1>2
  <2> QED
    BY <1>1, <2>1
<1>3. CASE z <= -1
  <2>1. p * z <= -p
    BY <1>1, <1>3
  <2> QED
    BY <1>1, <2>1
<1>4. CASE z = 0
  BY <1>1, <1>4
<1> QED
  BY <1>1, <1>2, <1>3, <1>4

(* A whole number of periods and one more. *)
LEMMA PeriodsAdd ==
  ASSUME NEW a \in Int, NEW p \in Nat \ {0}, a % p = 0
  PROVE  (a + p) % p = 0
<1> DEFINE x == a + p
<1>1. PICK q \in Int, s \in 0 .. p - 1 :
        q = a \div p /\ s = a % p /\ a = p * q + s
  <2>1. p \in Int /\ p > 0
    OBVIOUS
  <2> QED
    BY <2>1, Division
<1>2. PICK y \in Int, r \in 0 .. p - 1 :
        y = x \div p /\ r = x % p /\ x = p * y + r
  <2>1. p \in Int /\ p > 0 /\ x \in Int
    OBVIOUS
  <2> HIDE DEF x
  <2> QED
    BY <2>1, Division
<1>3. s = 0
  BY <1>1
<1>4. p * (q + 1) = p * y + r
  <2>1. a = p * q + s /\ a + p = p * y + r
    BY <1>1, <1>2
  <2> QED
    BY <1>3, <2>1
<1>5. r = 0
  <2>1. q + 1 \in Int
    OBVIOUS
  <2> QED
    BY <1>4, <2>1, MultipleHasNoRest
<1> QED
  BY <1>2, <1>5

(* One period is a whole number of periods. *)
LEMMA PeriodItself ==
  ASSUME NEW p \in Nat \ {0}
  PROVE  p % p = 0
<1>1. 0 % p = 0
  OBVIOUS
<1> QED
  BY <1>1, PeriodsAdd

(* What a loop event of slot s is past its registration, in 1/Frac clock. *)
Age(e) == (e.expired - e.born) * Frac + e.accum

OnPeriods(e) == e.active /\ e.loop # 0 => Age(e) % e.loop = 0

(* LoopsDoNotDrift, slot by slot. *)
LEMMA DriftIsOnPeriods ==
  LoopsDoNotDrift <=> \A s \in Slots : OnPeriods(event[s])
BY DEF LoopsDoNotDrift, OnPeriods, Age

(* The same timer is on its periods. *)
LEMMA SameIsOnPeriods ==
  ASSUME NEW e, NEW g, SameTimer(e, g), OnPeriods(g)
  PROVE  OnPeriods(e)
BY DEF SameTimer, OnPeriods, Age

(* New lists that are whole. *)
LEMMA RelistedIsWhole ==
  ASSUME NEW c, NEW f, NEW n, NEW d, NEW g, NEW q,
         Relisted(c, f, n, d, g, q), event' \in [Slots -> Handle]
  PROVE  Whole(event', firstFireEvent', firstFreeEvent')
BY DEF Relisted, Whole

(* At power-on every slot is free, in the order of the slots. *)
LEMMA ManagerInit == Init => ManagerInv
<1> SUFFICES ASSUME Init
             PROVE  ManagerInv
  OBVIOUS
<1> DEFINE c == [i \in 1 .. 0 |-> 0]
           f == [i \in 1 .. MaxEvent |-> i - 1]
<1>1. MaxEvent \in Nat \ {0} /\ NULL \notin Int
  BY ManagerAssumption, TimersAssumption
<1>2. event = [s \in Slots |->
                 FreeHandle(IF s + 1 < MaxEvent THEN s + 1 ELSE NULL)]
  BY DEF Init
<1>3. ASSUME NEW s \in Slots
      PROVE  /\ event[s] = FreeHandle(IF s + 1 < MaxEvent THEN s + 1 ELSE NULL)
             /\ event[s].next = (IF s + 1 < MaxEvent THEN s + 1 ELSE NULL)
             /\ event[s].active = FALSE
             /\ event[s] \in Handle
  <2> DEFINE x == IF s + 1 < MaxEvent THEN s + 1 ELSE NULL
  <2>1. event[s] = FreeHandle(x)
    BY <1>2
  <2>2. x \in SlotOrNull
    BY <1>1 DEF SlotOrNull, Slots
  <2> HIDE DEF x
  <2>3. FreeHandle(x) \in Handle /\ FreeHandle(x).next = x
        /\ FreeHandle(x).active = FALSE
    BY <2>2, TimersAssumption DEF FreeHandle, Handle, SlotOrNull
  <2> QED
    BY <2>1, <2>3 DEF x
<1>4. f \in [1 .. MaxEvent -> Slots] /\ c \in [1 .. 0 -> Slots]
  BY <1>1 DEF Slots
<1>5. \A i \in 1 .. MaxEvent : f[i] = i - 1 /\ f[i] \in Slots
  BY <1>1 DEF Slots
<1> HIDE DEF f, c
<1>6. Leads(event, firstFreeEvent, f, MaxEvent)
  <2>1. firstFreeEvent = 0
    BY DEF Init
  <2>2. ASSUME NEW i \in 1 .. MaxEvent
        PROVE  event[f[i]].next = IF i = MaxEvent THEN NULL ELSE f[i + 1]
    <3>1. event[f[i]].next = IF f[i] + 1 < MaxEvent THEN f[i] + 1 ELSE NULL
      BY <1>3, <1>5
    <3> QED
      BY <1>1, <1>5, <3>1
  <2> QED
    BY <1>1, <1>5, <2>1, <2>2 DEF Leads
<1>7. FireList(event, firstFireEvent, c, 0)
  BY DEF Init, FireList, Leads, Backed, Sorted
<1>8. \A s \in Slots : s + 1 \in 1 .. MaxEvent /\ f[s + 1] = s
  BY <1>1, <1>5 DEF Slots
<1>9. \A s \in Slots : event[s] = FreeHandle(event[s].next)
  BY <1>3
<1>10. MaxEvent - 0 = MaxEvent /\ 0 \in 0 .. MaxEvent
  BY <1>1
<1>11. Listed(event, firstFireEvent, firstFreeEvent, c, f, 0)
  <2>1. \A i \in 1 .. MaxEvent : ~event[f[i]].active
    BY <1>3, <1>5
  <2>2. \A s \in Slots : \E i \in 1 .. MaxEvent : f[i] = s
    BY <1>8
  <2> QED
    BY <1>6, <1>7, <1>9, <1>10, <2>1, <2>2 DEF Listed
<1>12. event \in [Slots -> Handle]
  <2>1. event = [s \in Slots |-> event[s]]
    BY <1>2
  <2> QED
    BY <1>3, <2>1
<1>13. Whole(event, firstFireEvent, firstFreeEvent)
  BY <1>4, <1>10, <1>11, <1>12 DEF Whole
<1>14. UpdateTypes /\ NoneOverdue
  BY <1>3 DEF Init, UpdateTypes, NoneOverdue
<1>15. LoopsDoNotDrift
  BY <1>3 DEF LoopsDoNotDrift
<1> QED
  BY <1>13, <1>14, <1>15 DEF ManagerInv

(* Registering files an event at or ahead of the clock, a loop event one   *)
(* period ahead.                                                           *)
LEMMA RegisterKeepsInv ==
  ASSUME ManagerInv, NEW d \in Devices, NEW clock \in Nat, NEW loop \in Nat,
         NEW accum \in 0 .. Frac - 1, Register(d, clock, loop, accum),
         loop # 0 => clock * Frac + accum = loop
  PROVE  ManagerInv'
<1> DEFINE s == firstFreeEvent
<1>1. Whole(event, firstFireEvent, firstFreeEvent) /\ eventClocks \in Nat
  BY DEF ManagerInv, UpdateTypes
<1>2. /\ s \in Slots
      /\ event' \in [Slots -> Handle]
      /\ event'[s].expired = eventClocks + clock
      /\ event'[s].loop = loop
      /\ event'[s].accum = accum
      /\ event'[s].born = (IF loop = 0 THEN 0 ELSE eventClocks)
      /\ \A x \in Slots \ {s} : SameTimer(event'[x], event[x])
      /\ \E n \in Nat : \E c, f : \E k \in 1 .. n + 1 :
           Relisted(c, f, n, Inserted(c, n, k, s),
                    Removed(f, MaxEvent - n, 1), n + 1)
  BY <1>1, RegisterEffect
<1> HIDE DEF s
<1>3. UNCHANGED <<eventClocks, goal, calling>>
  BY DEF Register
<1>4. Whole(event', firstFireEvent', firstFreeEvent')
  BY <1>2, RelistedIsWhole
<1>5. NoneOverdue'
  <2>1. ASSUME NEW x \in Slots, event'[x].active
        PROVE  eventClocks <= event'[x].expired
    <3>1. CASE x = s
      BY <1>1, <1>2, <3>1
    <3>2. CASE x # s
      BY <1>2, <2>1, <3>2 DEF ManagerInv, NoneOverdue, SameTimer
    <3> QED
      BY <3>1, <3>2
  <2> QED
    BY <1>3, <2>1 DEF ManagerInv, NoneOverdue
<1>6. LoopsDoNotDrift'
  <2>1. OnPeriods(event'[s])
    <3>1. SUFFICES ASSUME loop # 0
                   PROVE  Age(event'[s]) % loop = 0
      BY <1>2 DEF OnPeriods
    <3>2. Age(event'[s]) = ((eventClocks + clock) - eventClocks) * Frac + accum
      BY <1>2, <3>1 DEF Age
    <3>3. (eventClocks + clock) - eventClocks = clock
      BY <1>1
    <3>4. Age(event'[s]) = loop
      BY <3>1, <3>2, <3>3
    <3> QED
      BY <3>1, <3>4, PeriodItself
  <2>2. \A x \in Slots : OnPeriods(event'[x])
    BY <1>2, <2>1, SameIsOnPeriods, DriftIsOnPeriods DEF ManagerInv
  <2> QED
    BY <2>2 DEF LoopsDoNotDrift, OnPeriods, Age
<1> QED
  BY <1>3, <1>4, <1>5, <1>6 DEF ManagerInv, UpdateTypes

(* A free slot is on no period. *)
LEMMA FreeIsOnPeriods ==
  ASSUME NEW e, ~e.active
  PROVE  OnPeriods(e)
BY DEF OnPeriods

(* A cancel frees its slot and leaves the other timers as they were.       *)
LEMMA CancelKeepsInv ==
  ASSUME ManagerInv, NEW d \in Devices, NEW s \in Slots, CancelEvent(d, s)
  PROVE  ManagerInv'
<1>1. Whole(event, firstFireEvent, firstFreeEvent) /\ event[s].active
  BY DEF ManagerInv, CancelEvent
<1>2. /\ event' \in [Slots -> Handle]
      /\ event'[s] = FreeHandle(firstFreeEvent)
      /\ \A x \in Slots \ {s} : SameTimer(event'[x], event[x])
      /\ \E n \in Nat : \E c, f : \E k \in 1 .. n :
           /\ c[k] = s
           /\ Relisted(c, f, n, Removed(c, n, k),
                       Inserted(f, MaxEvent - n, 1, s), n - 1)
  <2>1. SetLists(Unlink(Lists, s))
    BY DEF CancelEvent
  <2> QED
    BY <1>1, <2>1, UnlinkEffect
<1>3. UNCHANGED <<eventClocks, goal, calling>>
  BY DEF CancelEvent
<1>4. Whole(event', firstFireEvent', firstFreeEvent')
  BY <1>2, RelistedIsWhole
<1>5. event'[s].active = FALSE
  BY <1>2 DEF FreeHandle
<1>6. NoneOverdue'
  BY <1>2, <1>3, <1>5 DEF ManagerInv, NoneOverdue, SameTimer
<1>7. LoopsDoNotDrift'
  <2>1. ASSUME NEW x \in Slots
        PROVE  OnPeriods(event'[x])
    <3>1. CASE x = s
      BY <1>5, <3>1 DEF OnPeriods
    <3>2. CASE x # s
      BY <1>2, <3>2, SameIsOnPeriods, DriftIsOnPeriods DEF ManagerInv
    <3> QED
      BY <3>1, <3>2
  <2> QED
    BY <2>1 DEF LoopsDoNotDrift, OnPeriods, Age
<1> QED
  BY <1>3, <1>4, <1>6, <1>7 DEF ManagerInv, UpdateTypes

(* A reset leaves the loop events as they were. *)
LEMMA ResetKeepsInv ==
  ASSUME ManagerInv, Reset
  PROVE  ManagerInv'
<1>1. Whole(event, firstFireEvent, firstFreeEvent)
  BY DEF ManagerInv
<1>2. /\ event' \in [Slots -> Handle]
      /\ \A x \in Slots : IF event[x].active /\ event[x].loop = 0
                          THEN ~event'[x].active
                          ELSE SameTimer(event'[x], event[x])
      /\ \E n, q \in Nat : \E c, f, d, g : Relisted(c, f, n, d, g, q)
  BY <1>1, ResetEffect
<1>3. UNCHANGED <<eventClocks, goal, calling>>
  BY DEF Reset
<1>4. Whole(event', firstFireEvent', firstFreeEvent')
  BY <1>2, RelistedIsWhole
<1>5. NoneOverdue'
  BY <1>2, <1>3 DEF ManagerInv, NoneOverdue, SameTimer
<1>6. LoopsDoNotDrift'
  <2>1. ASSUME NEW x \in Slots
        PROVE  OnPeriods(event'[x])
    <3>1. CASE event[x].active /\ event[x].loop = 0
      BY <1>2, <3>1, FreeIsOnPeriods
    <3>2. CASE ~(event[x].active /\ event[x].loop = 0)
      <4>1. SameTimer(event'[x], event[x])
        BY <1>2, <3>2
      <4> QED
        BY <4>1, SameIsOnPeriods, DriftIsOnPeriods DEF ManagerInv
    <3> QED
      BY <3>1, <3>2
  <2> QED
    BY <2>1 DEF LoopsDoNotDrift, OnPeriods, Age
<1> QED
  BY <1>3, <1>4, <1>5, <1>6 DEF ManagerInv, UpdateTypes

(* The clock goes to the head's expiry, which no other is behind. *)
LEMMA FireClock ==
  ASSUME ManagerInv, FireHead
  PROVE  /\ firstFireEvent \in Slots
         /\ event[firstFireEvent] \in Handle
         /\ event[firstFireEvent].active
         /\ eventClocks' = event[firstFireEvent].expired
         /\ eventClocks' \in Nat
         /\ \A x \in Slots : event[x].active => eventClocks' <= event[x].expired
         /\ goal' = goal /\ goal \in Nat /\ eventClocks' <= goal
         /\ UpdateTypes'
<1>1. Whole(event, firstFireEvent, firstFreeEvent) /\ firstFireEvent # NULL
  BY DEF ManagerInv, FireHead, HeadIsDue
<1>2. /\ firstFireEvent \in Slots
      /\ event[firstFireEvent] \in Handle
      /\ event[firstFireEvent].active
      /\ \A x \in Slots : event[x].active =>
           event[firstFireEvent].expired <= event[x].expired
  BY <1>1, HeadIsFirst
<1>3. /\ eventClocks' = event[firstFireEvent].expired
      /\ calling' = event[firstFireEvent].device
      /\ goal' = goal /\ goal # NULL
      /\ event[firstFireEvent].expired <= goal
  BY DEF FireHead, HeadIsDue
<1>4. eventClocks' \in Nat /\ calling' \in Devices \cup {NULL}
  BY <1>2, <1>3 DEF Handle
<1>5. goal \in Nat
  BY <1>3 DEF ManagerInv, UpdateTypes
<1> QED
  BY <1>2, <1>3, <1>4, <1>5 DEF UpdateTypes

(* Firing the head frees it, or counts it on by its period. *)
LEMMA FireKeepsInv ==
  ASSUME ManagerInv, FireHead
  PROVE  ManagerInv'
<1> DEFINE s == firstFireEvent
           now == event[s].expired
<1>1. Whole(event, firstFireEvent, firstFreeEvent)
  BY DEF ManagerInv
<1>2. /\ s \in Slots /\ event[s] \in Handle /\ event[s].active
      /\ eventClocks' = now /\ now \in Nat
      /\ \A x \in Slots : event[x].active => now <= event[x].expired
      /\ goal' = goal /\ goal \in Nat /\ now <= goal
      /\ UpdateTypes'
  BY FireClock
<1> HIDE DEF now
<1>3. CASE event[s].loop = 0
  <2>1. /\ event' \in [Slots -> Handle]
        /\ event'[s] = FreeHandle(firstFreeEvent)
        /\ \A x \in Slots \ {s} : SameTimer(event'[x], event[x])
        /\ \E n \in Nat : \E c, f : \E k \in 1 .. n :
             /\ c[k] = s
             /\ Relisted(c, f, n, Removed(c, n, k),
                         Inserted(f, MaxEvent - n, 1, s), n - 1)
    <3>1. SetLists(Unlink(Lists, s))
      BY <1>1, <1>3, FireOnceUnlinks
    <3> HIDE DEF s
    <3> QED
      BY <1>1, <1>2, <3>1, UnlinkEffect
  <2> HIDE DEF s
  <2>2. Whole(event', firstFireEvent', firstFreeEvent')
    BY <2>1, RelistedIsWhole
  <2>3. event'[s].active = FALSE
    BY <2>1 DEF FreeHandle
  <2>4. NoneOverdue'
    BY <1>2, <2>1, <2>3 DEF NoneOverdue, SameTimer
  <2>5. ASSUME NEW x \in Slots
        PROVE  OnPeriods(event'[x])
    <3>1. CASE x = s
      BY <2>3, <3>1 DEF OnPeriods
    <3>2. CASE x # s
      BY <2>1, <3>2, SameIsOnPeriods, DriftIsOnPeriods DEF ManagerInv
    <3> QED
      BY <3>1, <3>2
  <2>6. LoopsDoNotDrift'
    BY <2>5 DEF LoopsDoNotDrift, OnPeriods, Age
  <2> QED
    BY <1>2, <2>2, <2>4, <2>6 DEF ManagerInv
<1>4. CASE event[s].loop # 0
  <2> DEFINE e == Rearmed(event[s])
  <2>1. /\ event' \in [Slots -> Handle]
        /\ SameTimer(event'[s], e)
        /\ \A x \in Slots \ {s} : SameTimer(event'[x], event[x])
        /\ \E n \in Nat : \E c, f : \E k \in 1 .. n :
             Relisted(c, f, n, Inserted(Removed(c, n, 1), n - 1, k, s), f, n)
    BY <1>1, <1>4, FireLoopEffect
  <2> HIDE DEF s
  <2>2. Whole(event', firstFireEvent', firstFreeEvent')
    BY <2>1, RelistedIsWhole
  <2>3. /\ e \in Handle
        /\ e.expired * Frac + e.accum
             = event[s].expired * Frac + event[s].accum + event[s].loop
        /\ event[s].expired <= e.expired
        /\ e.loop = event[s].loop
        /\ e.active = event[s].active
        /\ e.born = event[s].born
    BY <1>2, RearmedType
  <2> HIDE DEF e
  <2>4. NoneOverdue'
    <3>1. ASSUME NEW x \in Slots, event'[x].active
          PROVE  now <= event'[x].expired
      <4>1. CASE x = s
        BY <2>1, <2>3, <4>1 DEF SameTimer, now
      <4>2. CASE x # s
        BY <1>2, <2>1, <3>1, <4>2 DEF SameTimer
      <4> QED
        BY <4>1, <4>2
    <3> QED
      BY <1>2, <3>1 DEF NoneOverdue
  <2>5. OnPeriods(e)
    <3> DEFINE a == Age(event[s])
               p == event[s].loop
    <3>1. p \in Nat \ {0} /\ a \in Int
      BY <1>2, <1>4, TimersAssumption DEF Handle, Age
    <3>2. OnPeriods(event[s])
      BY <1>2, DriftIsOnPeriods DEF ManagerInv
    <3>3. a % p = 0
      BY <1>2, <1>4, <3>2 DEF OnPeriods
    <3>4. Age(e) = a + p
      <4>1. /\ e.expired \in Nat /\ e.accum \in Int /\ e.born \in Nat
            /\ event[s].expired \in Nat /\ event[s].accum \in Int
            /\ p \in Nat /\ Frac \in Nat
        BY <1>2, <2>3, TimersAssumption DEF Handle
      <4> DEFINE u == e.expired * Frac
                 v == event[s].expired * Frac
                 w == e.born * Frac
      <4>2. Age(e) = u - w + e.accum
        BY <4>1 DEF Age
      <4>3. a = v - w + event[s].accum
        BY <2>3, <4>1 DEF Age
      <4>4. u + e.accum = v + event[s].accum + p
        BY <2>3
      <4>5. u \in Int /\ v \in Int /\ w \in Int
        BY <4>1
      <4> HIDE DEF u, v, w, a, p
      <4> QED
        BY <4>1, <4>2, <4>3, <4>4, <4>5
    <3> HIDE DEF a, p
    <3>5. Age(e) % p = 0
      BY <3>1, <3>3, <3>4, PeriodsAdd
    <3> QED
      BY <2>3, <3>5 DEF OnPeriods, p
  <2>6. ASSUME NEW x \in Slots
        PROVE  OnPeriods(event'[x])
    <3>1. CASE x = s
      BY <2>1, <2>5, <3>1, SameIsOnPeriods
    <3>2. CASE x # s
      BY <2>1, <3>2, SameIsOnPeriods, DriftIsOnPeriods DEF ManagerInv
    <3> QED
      BY <3>1, <3>2
  <2>7. LoopsDoNotDrift'
    BY <2>6 DEF LoopsDoNotDrift, OnPeriods, Age
  <2> QED
    BY <1>2, <2>2, <2>4, <2>7 DEF ManagerInv
<1> QED
  BY <1>3, <1>4

(* What the three ways to register ask of the fire list: a loop event is   *)
(* filed one period ahead.                                                 *)
LEMMA LoopIsOnePeriodAhead ==
  ASSUME NEW p \in Periods
  PROVE  p \in Nat /\ \E q \in Nat, r \in 0 .. Frac - 1 :
           q = p \div Frac /\ r = p % Frac /\ q * Frac + r = p
<1> DEFINE q == p \div Frac
           r == p % Frac
<1>1. p \in Nat /\ p \in Int
  BY TimersAssumption
<1>2. Frac \in Int /\ Frac > 0
  BY TimersAssumption
<1>3. q \in Nat
  BY <1>1, <1>2
<1>4. r \in 0 .. Frac - 1
  BY <1>1, <1>2
<1>5. q * Frac + r = p
  BY <1>1, <1>2
<1>6. q = p \div Frac /\ r = p % Frac
  OBVIOUS
<1> HIDE DEF q, r
<1> QED
  BY <1>1, <1>3, <1>4, <1>5, <1>6

(* A delay in whole clocks. *)
LEMMA DelayType ==
  ASSUME NEW c \in Delays
  PROVE  c \in Nat /\ c * Frac \in Nat /\ 0 \in 0 .. Frac - 1
BY TimersAssumption

(* When the head is not due, nothing is. *)
LEMMA NothingDue ==
  ASSUME ManagerInv, goal \in Nat, ~HeadIsDue,
         NEW x \in Slots, event[x].active
  PROVE  /\ event[x] \in Handle
         /\ event[x].expired > goal /\ goal <= event[x].expired
<1>1. event[x] \in Handle /\ event[x].expired \in Nat
  BY DEF ManagerInv, Whole, Handle
<1>2. Whole(event, firstFireEvent, firstFreeEvent)
  BY DEF ManagerInv
<1>3. firstFireEvent # NULL
  <2>1. PICK n \in 0 .. MaxEvent :
          \E c \in [1 .. n -> Slots], f \in [1 .. MaxEvent - n -> Slots] :
            Listed(event, firstFireEvent, firstFreeEvent, c, f, n)
    BY <1>2 DEF Whole
  <2>2. PICK c \in [1 .. n -> Slots], f \in [1 .. MaxEvent - n -> Slots] :
          Listed(event, firstFireEvent, firstFreeEvent, c, f, n)
    BY <2>1
  <2>3. \E i \in 1 .. n : c[i] = x
    BY <2>2 DEF Listed
  <2>4. n # 0 /\ 1 \in 1 .. n
    BY <2>3, ManagerAssumption
  <2>5. firstFireEvent = c[1] /\ c[1] \in Slots
    BY <2>2, <2>4 DEF Listed, FireList, Leads
  <2> QED
    BY <2>5, NullIsNoSlot
<1>4. /\ event[firstFireEvent] \in Handle
      /\ event[firstFireEvent].expired <= event[x].expired
  BY <1>2, <1>3, HeadIsFirst
<1>5. ~(event[firstFireEvent].expired <= goal)
  BY <1>3 DEF HeadIsDue
<1>6. event[firstFireEvent].expired \in Nat
  BY <1>4 DEF Handle
<1> QED
  BY <1>1, <1>4, <1>5, <1>6

(* Every step keeps the invariant. *)
LEMMA ManagerNext == ManagerInv /\ [Next]_vars => ManagerInv'
<1> SUFFICES ASSUME ManagerInv, [Next]_vars
             PROVE  ManagerInv'
  OBVIOUS
<1>1. ASSUME NEW d \in Devices, NEW c \in Delays, RegisterOnce(d, c)
      PROVE  ManagerInv'
  BY <1>1, DelayType, RegisterKeepsInv DEF RegisterOnce
<1>2. ASSUME NEW d \in Devices, NEW p \in Periods, RegisterLoop(d, p)
      PROVE  ManagerInv'
  <2>1. p \in Nat
    BY LoopIsOnePeriodAhead
  <2>2. PICK q \in Nat, r \in 0 .. Frac - 1 :
          q = p \div Frac /\ r = p % Frac /\ q * Frac + r = p
    BY LoopIsOnePeriodAhead
  <2>3. Register(d, q, p, r)
    BY <1>2, <2>2 DEF RegisterLoop
  <2> QED
    BY <2>1, <2>2, <2>3, RegisterKeepsInv
<1>3. ASSUME NEW d \in Devices, NEW c \in Delays, RegisterLoopByClock(d, c)
      PROVE  ManagerInv'
  <2>1. c \in Nat /\ c * Frac \in Nat /\ 0 \in 0 .. Frac - 1
    BY DelayType
  <2>2. c * Frac + 0 = c * Frac
    BY <2>1
  <2> QED
    BY <1>3, <2>1, <2>2, RegisterKeepsInv DEF RegisterLoopByClock
<1>4. ASSUME NEW d \in Devices, NEW s \in Slots, CancelEvent(d, s)
      PROVE  ManagerInv'
  BY <1>4, CancelKeepsInv
<1>5. CASE Reset
  BY <1>5, ResetKeepsInv
<1>6. ASSUME NEW c \in Steps, StartUpdate(c)
      PROVE  ManagerInv'
  BY <1>6, TimersAssumption
     DEF StartUpdate, ManagerInv, UpdateTypes, NoneOverdue, LoopsDoNotDrift
<1>7. CASE FireHead
  BY <1>7, FireKeepsInv
<1>8. CASE CallbackReturns
  BY <1>8
     DEF CallbackReturns, ManagerInv, UpdateTypes, NoneOverdue, LoopsDoNotDrift
<1>9. CASE FinishUpdate
  <2>1. goal \in Nat /\ goal' = NULL /\ eventClocks' = goal
    BY <1>9 DEF FinishUpdate, ManagerInv, UpdateTypes
  <2>2. UNCHANGED <<event, firstFreeEvent, firstFireEvent, calling>>
    BY <1>9 DEF FinishUpdate
  <2>3. ASSUME NEW x \in Slots, event[x].active
        PROVE  goal <= event[x].expired
    BY <1>9, <2>1, <2>3, NothingDue DEF FinishUpdate
  <2> QED
    BY <2>1, <2>2, <2>3
       DEF ManagerInv, UpdateTypes, NoneOverdue, LoopsDoNotDrift
<1>10. CASE UNCHANGED vars
  BY <1>10 DEF vars, ManagerInv, UpdateTypes, NoneOverdue, LoopsDoNotDrift
<1> QED
  BY <1>1, <1>2, <1>3, <1>4, <1>5, <1>6, <1>7, <1>8, <1>9, <1>10 DEF Next

(* The invariant holds of every reachable state. *)
LEMMA ManagerHolds == Spec => []ManagerInv
BY ManagerInit, ManagerNext, PTL DEF Spec

(* The handles, heads and clocks keep their types. *)
THEOREM ManagerTypeCorrect == Spec => []TypeOK
<1>1. ManagerInv => TypeOK
  <2> SUFFICES ASSUME ManagerInv
               PROVE  TypeOK
    OBVIOUS
  <2>1. firstFireEvent \in SlotOrNull /\ firstFreeEvent \in SlotOrNull
    BY WholeHeads DEF ManagerInv
  <2>2. event \in [Slots -> Handle]
    BY DEF ManagerInv, Whole
  <2> QED
    BY <2>1, <2>2 DEF ManagerInv, UpdateTypes, TypeOK, Handle
<1> QED
  BY <1>1, ManagerHolds, PTL

(* However devices register and cancel, from inside callbacks and between  *)
(* updates, every handle stays in exactly one of the two lists.            *)
THEOREM ListsStayWhole == Spec => []ListsPartitionSlots
<1>1. ManagerInv => ListsPartitionSlots
  <2> SUFFICES ASSUME ManagerInv
               PROVE  ListsPartitionSlots
    OBVIOUS
  <2>1. PICK n \in 0 .. MaxEvent :
          \E c \in [1 .. n -> Slots], f \in [1 .. MaxEvent - n -> Slots] :
            Listed(event, firstFireEvent, firstFreeEvent, c, f, n)
    BY DEF ManagerInv, Whole
  <2>2. PICK c \in [1 .. n -> Slots], f \in [1 .. MaxEvent - n -> Slots] :
          Listed(event, firstFireEvent, firstFreeEvent, c, f, n)
    BY <2>1
  <2>3. FireChain = c /\ Len(FireChain) = n
    BY <2>2, ChainIsList DEF Listed, FireList, FireChain
  <2>4. FreeChain = f /\ Len(FreeChain) = MaxEvent - n
    <3>1. MaxEvent - n \in 0 .. MaxEvent
      BY ManagerAssumption
    <3> QED
      BY <2>2, <3>1, ChainIsList DEF Listed, FreeChain
  <2>5. Members(c) = {s \in Slots : event[s].active}
    BY <2>2 DEF Listed, Members
  <2>6. Members(f) = {s \in Slots : ~event[s].active}
    BY <2>2 DEF Listed, Members
  <2>7. n + (MaxEvent - n) = MaxEvent
    BY ManagerAssumption
  <2>8. \A i \in DOMAIN c : event[c[i]].prev = IF i = 1 THEN NULL ELSE c[i - 1]
    BY <2>2 DEF Listed, FireList, Backed
  <2> QED
    BY <2>3, <2>4, <2>5, <2>6, <2>7, <2>8 DEF ListsPartitionSlots
<1> QED
  BY <1>1, ManagerHolds, PTL

(* The fire list stays sorted and nothing on it falls behind the clock,    *)
(* which stays within the update that runs.                                *)
THEOREM FireListStaysTimely == Spec => []FireListIsTimely
<1>1. ManagerInv => FireListIsTimely
  <2> SUFFICES ASSUME ManagerInv
               PROVE  FireListIsTimely
    OBVIOUS
  <2>1. PICK n \in 0 .. MaxEvent :
          \E c \in [1 .. n -> Slots], f \in [1 .. MaxEvent - n -> Slots] :
            Listed(event, firstFireEvent, firstFreeEvent, c, f, n)
    BY DEF ManagerInv, Whole
  <2>2. PICK c \in [1 .. n -> Slots], f \in [1 .. MaxEvent - n -> Slots] :
          Listed(event, firstFireEvent, firstFreeEvent, c, f, n)
    BY <2>1
  <2>3. FireChain = c
    BY <2>2, ChainIsList DEF Listed, FireList, FireChain
  <2>4. \A i, j \in DOMAIN c :
          i < j => event[c[i]].expired <= event[c[j]].expired
    BY <2>2 DEF Listed, FireList, Sorted
  <2>5. c # <<>> => eventClocks <= event[c[1]].expired
    <3>1. SUFFICES ASSUME c # <<>>
                   PROVE  eventClocks <= event[c[1]].expired
      OBVIOUS
    <3>2. n # 0
      BY <3>1
    <3>3. 1 \in 1 .. n
      BY <3>2, ManagerAssumption
    <3> QED
      BY <2>2, <3>3 DEF Listed, ManagerInv, NoneOverdue
  <2> QED
    BY <2>3, <2>4, <2>5 DEF FireListIsTimely, ManagerInv, NoneOverdue
<1> QED
  BY <1>1, ManagerHolds, PTL

(* A loop event never drifts off its periods, whatever part of a clock its *)
(* period has.                                                             *)
THEOREM LoopsStayOnTheirPeriods == Spec => []LoopsDoNotDrift
<1>1. ManagerInv => LoopsDoNotDrift
  BY DEF ManagerInv
<1> QED
  BY <1>1, ManagerHolds, PTL

----------------------------------------------------------------------------
(* A free slot has neither a period nor an owner. *)
LEMMA FreeIsBlank ==
  ASSUME NEW ev, NEW fire, NEW free, Whole(ev, fire, free),
         NEW x \in Slots, ~ev[x].active
  PROVE  ev[x].loop = 0 /\ ev[x].device = NULL
<1>1. ev[x] = FreeHandle(ev[x].next)
  BY DEF Whole, Listed
<1> QED
  BY <1>1 DEF FreeHandle

(* An event on the fire list is some device's, and its loop is one that a  *)
(* device may ask for.                                                     *)
Loops == {0} \cup Periods \cup {c * Frac : c \in Delays \ {0}}

AsRegistered ==
  \A x \in Slots : event[x].active =>
                     event[x].device \in Devices /\ event[x].loop \in Loops

(* A registration files an event of its own and leaves the others.         *)
LEMMA RegisterRegisters ==
  ASSUME ManagerInv, AsRegistered, NEW d \in Devices, NEW clock \in Nat,
         NEW loop \in Nat, loop \in Loops, NEW accum \in 0 .. Frac - 1,
         Register(d, clock, loop, accum)
  PROVE  AsRegistered'
<1> DEFINE s == firstFreeEvent
<1>1. Whole(event, firstFireEvent, firstFreeEvent) /\ eventClocks \in Nat
  BY DEF ManagerInv, UpdateTypes
<1>2. /\ event'[s].device = d /\ event'[s].loop = loop
      /\ \A x \in Slots \ {s} : SameTimer(event'[x], event[x])
  BY <1>1, RegisterEffect
<1> HIDE DEF s
<1> QED
  BY <1>2 DEF AsRegistered, SameTimer

(* Firing calls the owner of the head, which is a device. *)
LEMMA FireCallsOwner ==
  ASSUME ManagerInv, AsRegistered, FireHead
  PROVE  AsRegistered' /\ calling = NULL /\ calling' # NULL
<1> DEFINE s == firstFireEvent
<1>1. Whole(event, firstFireEvent, firstFreeEvent)
  BY DEF ManagerInv
<1>2. s \in Slots /\ event[s] \in Handle /\ event[s].active
  BY FireClock
<1>3. calling = NULL /\ calling' = event[s].device
  BY DEF FireHead
<1>4. /\ event[s].device \in Devices /\ event[s].device # NULL
      /\ event[s].loop \in Loops
  BY <1>2, TimersAssumption DEF AsRegistered
<1>5. CASE event[s].loop = 0
  <2>1. SetLists(Unlink(Lists, s))
    BY <1>1, <1>5, FireOnceUnlinks
  <2> HIDE DEF s
  <2>2. /\ event'[s] = FreeHandle(firstFreeEvent)
        /\ \A x \in Slots \ {s} : SameTimer(event'[x], event[x])
    BY <1>1, <1>2, <2>1, UnlinkEffect
  <2> QED
    BY <1>3, <1>4, <2>2 DEF AsRegistered, SameTimer, FreeHandle
<1>6. CASE event[s].loop # 0
  <2>1. /\ SameTimer(event'[s], Rearmed(event[s]))
        /\ \A x \in Slots \ {s} : SameTimer(event'[x], event[x])
    BY <1>1, <1>6, FireLoopEffect
  <2> HIDE DEF s
  <2>2. /\ Rearmed(event[s]).device = event[s].device
        /\ Rearmed(event[s]).loop = event[s].loop
    BY <1>2, RearmedType
  <2> QED
    BY <1>3, <1>4, <2>1, <2>2 DEF AsRegistered, SameTimer
<1> QED
  BY <1>5, <1>6

(* Every event stays as it was registered. *)
LEMMA AsRegisteredHolds == Spec => []AsRegistered
<1>1. Init => AsRegistered
  BY DEF Init, AsRegistered, FreeHandle
<1>2. ManagerInv /\ AsRegistered /\ [Next]_vars => AsRegistered'
  <2> SUFFICES ASSUME ManagerInv, AsRegistered, [Next]_vars
               PROVE  AsRegistered'
    OBVIOUS
  <2>1. ASSUME NEW d \in Devices, NEW c \in Delays, RegisterOnce(d, c)
        PROVE  AsRegistered'
    BY <2>1, DelayType, RegisterRegisters DEF RegisterOnce, Loops
  <2>2. ASSUME NEW d \in Devices, NEW p \in Periods, RegisterLoop(d, p)
        PROVE  AsRegistered'
    <3>1. PICK q \in Nat, r \in 0 .. Frac - 1 :
            q = p \div Frac /\ r = p % Frac /\ q * Frac + r = p
      BY LoopIsOnePeriodAhead
    <3>2. Register(d, q, p, r) /\ p \in Nat
      BY <2>2, <3>1, LoopIsOnePeriodAhead DEF RegisterLoop
    <3>3. p \in Loops
      BY DEF Loops
    <3> QED
      BY <3>2, <3>3, RegisterRegisters
  <2>3. ASSUME NEW d \in Devices, NEW c \in Delays \ {0},
               RegisterLoopByClock(d, c)
        PROVE  AsRegistered'
    <3>1. c * Frac \in Loops
      BY DEF Loops
    <3> QED
      BY <2>3, <3>1, DelayType, RegisterRegisters DEF RegisterLoopByClock
  <2>4. ASSUME NEW d \in Devices, NEW s \in Slots, CancelEvent(d, s)
        PROVE  AsRegistered'
    <3>1. /\ Whole(event, firstFireEvent, firstFreeEvent)
          /\ event[s].active
          /\ SetLists(Unlink(Lists, s))
      BY <2>4 DEF ManagerInv, CancelEvent
    <3>2. /\ event'[s] = FreeHandle(firstFreeEvent)
          /\ \A x \in Slots \ {s} : SameTimer(event'[x], event[x])
      BY <3>1, UnlinkEffect
    <3> QED
      BY <3>2 DEF AsRegistered, SameTimer, FreeHandle
  <2>5. CASE Reset
    <3>1. \A x \in Slots : IF event[x].active /\ event[x].loop = 0
                           THEN ~event'[x].active
                           ELSE SameTimer(event'[x], event[x])
      BY <2>5, ResetEffect DEF ManagerInv
    <3> QED
      BY <3>1 DEF AsRegistered, SameTimer
  <2>6. CASE FireHead
    BY <2>6, FireCallsOwner
  <2>7. CASE event' = event
    BY <2>7 DEF AsRegistered
  <2> QED
    BY <2>1, <2>2, <2>3, <2>4, <2>5, <2>6, <2>7
       DEF Next, vars, StartUpdate, CallbackReturns, FinishUpdate
<1> QED
  BY <1>1, <1>2, ManagerHolds, PTL DEF Spec

----------------------------------------------------------------------------
(* An event that keeps its expiry in a step, without being the one fired,  *)
(* and the two halves of EqualsFireInOrder.                                *)
Stays(x) ==
  /\ event[x].active /\ event'[x].active
  /\ event[x].expired = event'[x].expired
  /\ ~(calling = NULL /\ calling' # NULL /\ firstFireEvent = x)

Comes(x) == event'[x].active /\ ~Stays(x)

InOrder ==
  \A r, s \in Slots :
    /\ Stays(r) /\ Stays(s) /\ Position(FireChain, r) < Position(FireChain, s)
         => Position(FireChain', r) < Position(FireChain', s)
    /\ Stays(r) /\ Comes(s) /\ event'[r].expired = event'[s].expired
         => Position(FireChain', r) < Position(FireChain', s)

(* Every active slot has its place in the fire list. *)
LEMMA ActiveHasPlace ==
  ASSUME NEW ev, NEW fire, NEW free, NEW c, NEW f, NEW n,
         Listed(ev, fire, free, c, f, n), NEW x \in Slots, ev[x].active
  PROVE  \E i \in 1 .. n : c[i] = x
BY DEF Listed

(* The order of the lists is the order of the chains. *)
LEMMA ListsInOrder ==
  ASSUME NEW c, NEW f, NEW n, NEW d, NEW g, NEW q, Relisted(c, f, n, d, g, q),
         \A r, s \in Slots :
           Stays(r) /\ Stays(s) /\ Ahead(c, n, r, s) => Ahead(d, q, r, s),
         \A r, s \in Slots :
           Stays(r) /\ Comes(s) /\ event'[r].expired = event'[s].expired
             => Ahead(d, q, r, s)
  PROVE  InOrder
<1>1. /\ n \in 0 .. MaxEvent /\ n \in Nat
      /\ c \in [1 .. n -> Slots]
      /\ Listed(event, firstFireEvent, firstFreeEvent, c, f, n)
      /\ Leads(event, firstFireEvent, c, n)
      /\ \A i, j \in 1 .. n : c[i] = c[j] => i = j
  BY ManagerAssumption DEF Relisted, Listed, FireList, Leads
<1>2. /\ q \in 0 .. MaxEvent /\ q \in Nat
      /\ d \in [1 .. q -> Slots]
      /\ Listed(event', firstFireEvent', firstFreeEvent', d, g, q)
      /\ Leads(event', firstFireEvent', d, q)
      /\ \A i, j \in 1 .. q : d[i] = d[j] => i = j
  BY ManagerAssumption DEF Relisted, Listed, FireList, Leads
<1>3. FireChain = c
  BY <1>1, ChainIsList DEF FireChain
<1>4. FireChain' = d
  <2>1. Chain(event', firstFireEvent') = d
    BY <1>2, ChainIsList
  <2> QED
    BY <2>1 DEF FireChain
<1>5. ASSUME NEW r \in Slots, NEW s \in Slots, event[r].active, event[s].active
      PROVE  Ahead(c, n, r, s) <=> Position(c, r) < Position(c, s)
  <2>1. PICK i \in 1 .. n : c[i] = r
    BY <1>1, <1>5, ActiveHasPlace
  <2>2. PICK j \in 1 .. n : c[j] = s
    BY <1>1, <1>5, ActiveHasPlace
  <2>3. Ahead(c, n, c[i], c[j]) <=> Position(c, c[i]) < Position(c, c[j])
    BY <1>1, AheadIsPosition
  <2> QED
    BY <2>1, <2>2, <2>3
<1>6. ASSUME NEW r \in Slots, NEW s \in Slots, event'[r].active, event'[s].active
      PROVE  Ahead(d, q, r, s) <=> Position(d, r) < Position(d, s)
  <2>1. PICK i \in 1 .. q : d[i] = r
    BY <1>2, <1>6, ActiveHasPlace
  <2>2. PICK j \in 1 .. q : d[j] = s
    BY <1>2, <1>6, ActiveHasPlace
  <2>3. Ahead(d, q, d[i], d[j]) <=> Position(d, d[i]) < Position(d, d[j])
    BY <1>2, AheadIsPosition
  <2> QED
    BY <2>1, <2>2, <2>3
<1>7. ASSUME NEW r \in Slots, NEW s \in Slots, Stays(r), Stays(s),
             Position(c, r) < Position(c, s)
      PROVE  Position(d, r) < Position(d, s)
  <2>1. /\ event[r].active /\ event[s].active
        /\ event'[r].active /\ event'[s].active
    BY <1>7 DEF Stays
  <2> QED
    BY <1>5, <1>6, <1>7, <2>1
<1>8. ASSUME NEW r \in Slots, NEW s \in Slots, Stays(r), Comes(s),
             event'[r].expired = event'[s].expired
      PROVE  Position(d, r) < Position(d, s)
  <2>1. event'[r].active /\ event'[s].active
    BY <1>8 DEF Stays, Comes
  <2> QED
    BY <1>6, <1>8, <2>1
<1> QED
  BY <1>3, <1>4, <1>7, <1>8 DEF InOrder

(* Steps that move no event keep the order. *)
LEMMA IdleInOrder ==
  ASSUME UNCHANGED <<event, firstFireEvent>>,
         calling' # NULL => calling' = calling
  PROVE  InOrder
<1>1. FireChain' = FireChain
  BY DEF FireChain
<1>2. \A x \in Slots : ~Comes(x)
  BY DEF Comes, Stays
<1> QED
  BY <1>1, <1>2 DEF InOrder

(* A new event goes behind those due no later and moves no other. *)
LEMMA RegisterInOrder ==
  ASSUME ManagerInv, NEW o \in Devices, NEW clock \in Nat, NEW loop \in Nat,
         NEW accum \in 0 .. Frac - 1, Register(o, clock, loop, accum)
  PROVE  InOrder
<1> DEFINE s == firstFreeEvent
<1>1. Whole(event, firstFireEvent, firstFreeEvent) /\ eventClocks \in Nat
  BY DEF ManagerInv, UpdateTypes
<1>2. /\ s \in Slots /\ ~event[s].active
      /\ event'[s].expired = eventClocks + clock
      /\ \A x \in Slots \ {s} : SameTimer(event'[x], event[x])
      /\ \E n \in Nat : \E c, f : \E k \in 1 .. n + 1 :
           /\ Relisted(c, f, n, Inserted(c, n, k, s),
                       Removed(f, MaxEvent - n, 1), n + 1)
           /\ \A i \in 1 .. n :
                i < k <=> event[c[i]].expired <= eventClocks + clock
  BY <1>1, RegisterEffect
<1>3. calling' = calling
  BY DEF Register
<1> HIDE DEF s
<1>4. PICK n \in Nat : \E c, f : \E k \in 1 .. n + 1 :
        /\ Relisted(c, f, n, Inserted(c, n, k, s),
                    Removed(f, MaxEvent - n, 1), n + 1)
        /\ \A i \in 1 .. n : i < k <=> event[c[i]].expired <= eventClocks + clock
  BY <1>2
<1>5. PICK c, f : \E k \in 1 .. n + 1 :
        /\ Relisted(c, f, n, Inserted(c, n, k, s),
                    Removed(f, MaxEvent - n, 1), n + 1)
        /\ \A i \in 1 .. n : i < k <=> event[c[i]].expired <= eventClocks + clock
  BY <1>4
<1>6. PICK k \in 1 .. n + 1 :
        /\ Relisted(c, f, n, Inserted(c, n, k, s),
                    Removed(f, MaxEvent - n, 1), n + 1)
        /\ \A i \in 1 .. n : i < k <=> event[c[i]].expired <= eventClocks + clock
  BY <1>5
<1> DEFINE d == Inserted(c, n, k, s)
           g == Removed(f, MaxEvent - n, 1)
           q == n + 1
<1>7. Relisted(c, f, n, d, g, q)
  BY <1>6
<1>8. ASSUME NEW x \in Slots, NEW y \in Slots, Ahead(c, n, x, y)
      PROVE  Ahead(d, q, x, y)
  BY <1>8, InsertedOrder
<1>9. ASSUME NEW x \in Slots, NEW y \in Slots, Stays(x), Comes(y),
             event'[x].expired = event'[y].expired
      PROVE  Ahead(d, q, x, y)
  <2>1. y = s
    BY <1>2, <1>3, <1>9 DEF Stays, Comes, SameTimer
  <2>2. event[x].active /\ event[x].expired = eventClocks + clock
    BY <1>2, <1>9, <2>1 DEF Stays
  <2>3. Listed(event, firstFireEvent, firstFreeEvent, c, f, n)
    BY <1>6 DEF Relisted
  <2>4. PICK i \in 1 .. n : c[i] = x
    BY <2>2, <2>3, ActiveHasPlace
  <2>5. i < k
    BY <1>1, <1>6, <2>2, <2>4
  <2>6. Ahead(Inserted(c, n, k, s), n + 1, c[i], s)
    BY <2>5, InsertedBehind
  <2> QED
    BY <2>1, <2>4, <2>6
<1> HIDE DEF d, g, q
<1> QED
  BY <1>7, <1>8, <1>9, ListsInOrder

(* An event taken off the list moves no other. *)
LEMMA UnlinkInOrder ==
  ASSUME Whole(event, firstFireEvent, firstFreeEvent),
         NEW s \in Slots, event[s].active, SetLists(Unlink(Lists, s)),
         calling' = calling \/ firstFireEvent = s
  PROVE  InOrder
<1>1. /\ event'[s] = FreeHandle(firstFreeEvent)
      /\ \A x \in Slots \ {s} : SameTimer(event'[x], event[x])
      /\ \E n \in Nat : \E c, f : \E k \in 1 .. n :
           /\ c[k] = s
           /\ Relisted(c, f, n, Removed(c, n, k),
                       Inserted(f, MaxEvent - n, 1, s), n - 1)
  BY UnlinkEffect
<1>2. PICK n \in Nat : \E c, f : \E k \in 1 .. n :
        /\ c[k] = s
        /\ Relisted(c, f, n, Removed(c, n, k),
                    Inserted(f, MaxEvent - n, 1, s), n - 1)
  BY <1>1
<1>3. PICK c, f : \E k \in 1 .. n :
        /\ c[k] = s
        /\ Relisted(c, f, n, Removed(c, n, k),
                    Inserted(f, MaxEvent - n, 1, s), n - 1)
  BY <1>2
<1>4. PICK k \in 1 .. n :
        /\ c[k] = s
        /\ Relisted(c, f, n, Removed(c, n, k),
                    Inserted(f, MaxEvent - n, 1, s), n - 1)
  BY <1>3
<1> DEFINE d == Removed(c, n, k)
           g == Inserted(f, MaxEvent - n, 1, s)
           q == n - 1
<1>5. Relisted(c, f, n, d, g, q)
  BY <1>4
<1>6. ~event'[s].active
  BY <1>1 DEF FreeHandle
<1>7. ASSUME NEW x \in Slots, NEW y \in Slots, Stays(x), Stays(y),
             Ahead(c, n, x, y)
      PROVE  Ahead(d, q, x, y)
  <2>1. x # c[k] /\ y # c[k]
    BY <1>4, <1>6, <1>7 DEF Stays
  <2> QED
    BY <1>7, <2>1, RemovedOrder
<1>8. \A y \in Slots : ~Comes(y)
  BY <1>1, <1>6 DEF Comes, Stays, SameTimer
<1> HIDE DEF d, g, q
<1> QED
  BY <1>5, <1>7, <1>8, ListsInOrder

(* What a reset leaves keeps its order. *)
LEMMA ResetInOrder ==
  ASSUME ManagerInv, Reset
  PROVE  InOrder
<1>1. Whole(event, firstFireEvent, firstFreeEvent)
  BY DEF ManagerInv
<1>2. calling' = calling
  BY DEF Reset
<1>3. /\ \A x \in Slots : IF event[x].active /\ event[x].loop = 0
                          THEN ~event'[x].active
                          ELSE SameTimer(event'[x], event[x])
      /\ \E n, q \in Nat : \E c, f, d, g :
           /\ Relisted(c, f, n, d, g, q)
           /\ \A x, y \in Slots :
                /\ ~(event[x].active /\ event[x].loop = 0)
                /\ ~(event[y].active /\ event[y].loop = 0)
                /\ Ahead(c, n, x, y)
                => Ahead(d, q, x, y)
  BY <1>1, ResetEffect
<1>4. PICK n, q \in Nat : \E c, f, d, g :
        /\ Relisted(c, f, n, d, g, q)
        /\ \A x, y \in Slots :
             /\ ~(event[x].active /\ event[x].loop = 0)
             /\ ~(event[y].active /\ event[y].loop = 0)
             /\ Ahead(c, n, x, y)
             => Ahead(d, q, x, y)
  BY <1>3
<1>5. PICK c, f, d, g :
        /\ Relisted(c, f, n, d, g, q)
        /\ \A x, y \in Slots :
             /\ ~(event[x].active /\ event[x].loop = 0)
             /\ ~(event[y].active /\ event[y].loop = 0)
             /\ Ahead(c, n, x, y)
             => Ahead(d, q, x, y)
  BY <1>4
<1>6. ASSUME NEW x \in Slots, NEW y \in Slots, Stays(x), Stays(y),
             Ahead(c, n, x, y)
      PROVE  Ahead(d, q, x, y)
  <2>1. /\ ~(event[x].active /\ event[x].loop = 0)
        /\ ~(event[y].active /\ event[y].loop = 0)
    BY <1>3, <1>6 DEF Stays
  <2> QED
    BY <1>5, <1>6, <2>1
<1>7. \A y \in Slots : ~Comes(y)
  BY <1>2, <1>3 DEF Comes, Stays, SameTimer
<1> QED
  BY <1>5, <1>6, <1>7, ListsInOrder

(* The head leaves the list, or is filed again behind those due with it. *)
LEMMA FireInOrder ==
  ASSUME ManagerInv, AsRegistered, FireHead
  PROVE  InOrder
<1> DEFINE s == firstFireEvent
           e == Rearmed(event[s])
<1>1. Whole(event, firstFireEvent, firstFreeEvent)
  BY DEF ManagerInv
<1>2. s \in Slots /\ event[s] \in Handle /\ event[s].active
  BY FireClock
<1>3. calling = NULL /\ calling' # NULL
  BY FireCallsOwner
<1>4. CASE event[s].loop = 0
  <2>1. SetLists(Unlink(Lists, s))
    BY <1>1, <1>4, FireOnceUnlinks
  <2>2. calling' = calling \/ firstFireEvent = s
    OBVIOUS
  <2> HIDE DEF s
  <2> QED
    BY <1>1, <1>2, <2>1, <2>2, UnlinkInOrder
<1>5. CASE event[s].loop # 0
  <2>1. /\ SameTimer(event'[s], e)
        /\ \A x \in Slots \ {s} : SameTimer(event'[x], event[x])
        /\ \E n \in Nat : \E c, f : \E k \in 1 .. n :
             /\ 1 \in 1 .. n /\ c[1] = s
             /\ Relisted(c, f, n, Inserted(Removed(c, n, 1), n - 1, k, s), f, n)
             /\ \A i \in 1 .. n - 1 :
                  i < k <=> event[Removed(c, n, 1)[i]].expired <= e.expired
    BY <1>1, <1>5, FireLoopEffect
  <2>2. /\ ~Stays(s)
        /\ \A x \in Slots \ {s} : Stays(x) <=> event[x].active /\ event'[x].active
    <3>1. ~Stays(s)
      BY <1>3 DEF Stays
    <3>2. \A x \in Slots \ {s} : Stays(x) <=> event[x].active /\ event'[x].active
      BY <2>1 DEF Stays, SameTimer
    <3> QED
      BY <3>1, <3>2
  <2> HIDE DEF s, e
  <2>3. PICK n \in Nat : \E c, f : \E k \in 1 .. n :
          /\ 1 \in 1 .. n /\ c[1] = s
          /\ Relisted(c, f, n, Inserted(Removed(c, n, 1), n - 1, k, s), f, n)
          /\ \A i \in 1 .. n - 1 :
               i < k <=> event[Removed(c, n, 1)[i]].expired <= e.expired
    BY <2>1
  <2>4. PICK c, f : \E k \in 1 .. n :
          /\ 1 \in 1 .. n /\ c[1] = s
          /\ Relisted(c, f, n, Inserted(Removed(c, n, 1), n - 1, k, s), f, n)
          /\ \A i \in 1 .. n - 1 :
               i < k <=> event[Removed(c, n, 1)[i]].expired <= e.expired
    BY <2>3
  <2>5. PICK k \in 1 .. n :
          /\ 1 \in 1 .. n /\ c[1] = s
          /\ Relisted(c, f, n, Inserted(Removed(c, n, 1), n - 1, k, s), f, n)
          /\ \A i \in 1 .. n - 1 :
               i < k <=> event[Removed(c, n, 1)[i]].expired <= e.expired
    BY <2>4
  <2> DEFINE b == Removed(c, n, 1)
             d == Inserted(b, n - 1, k, s)
  <2>6. Relisted(c, f, n, d, f, n)
    BY <2>5
  <2>7. n - 1 \in Nat /\ k \in 1 .. (n - 1) + 1 /\ (n - 1) + 1 = n
    BY <2>5
  <2>8. ASSUME NEW x \in Slots, NEW y \in Slots, Stays(x), Stays(y),
               Ahead(c, n, x, y)
        PROVE  Ahead(d, n, x, y)
    <3>1. x # c[1] /\ y # c[1] /\ 1 \in 1 .. n
      BY <2>2, <2>5, <2>8
    <3>2. Ahead(Removed(c, n, 1), n - 1, x, y)
      BY <2>8, <3>1, RemovedOrder
    <3> HIDE DEF b
    <3>3. Ahead(Inserted(b, n - 1, k, s), (n - 1) + 1, x, y)
      BY <2>7, <3>2, InsertedOrder DEF b
    <3> QED
      BY <2>7, <3>3
  <2>9. ASSUME NEW x \in Slots, NEW y \in Slots, Stays(x), Comes(y),
               event'[x].expired = event'[y].expired
        PROVE  Ahead(d, n, x, y)
    <3>1. y = s
      BY <2>1, <2>2, <2>9 DEF Comes, SameTimer
    <3>2. x # s /\ event[x].active /\ event[x].expired = event'[x].expired
      BY <2>2, <2>9 DEF Stays
    <3>3. event[x].expired = e.expired
      BY <2>1, <2>9, <3>1, <3>2 DEF SameTimer
    <3>4. Listed(event, firstFireEvent, firstFreeEvent, c, f, n)
      BY <2>5 DEF Relisted
    <3>5. PICK j \in 1 .. n : c[j] = x
      BY <3>2, <3>4, ActiveHasPlace
    <3>6. j # 1 /\ j - 1 \in 1 .. n - 1 /\ (j - 1) + 1 = j /\ ~(j - 1 < 1)
      BY <2>5, <3>2, <3>5
    <3>7. b[j - 1] = x
      BY <3>5, <3>6 DEF Removed
    <3>8. event[x].expired \in Nat /\ event[x].expired <= e.expired
      <4>1. event[x] \in Handle
        BY <1>1 DEF Whole
      <4> QED
        BY <3>3, <4>1 DEF Handle
    <3> HIDE DEF b
    <3>9. j - 1 < k
      BY <2>5, <3>6, <3>7, <3>8 DEF b
    <3>10. Ahead(Inserted(b, n - 1, k, s), (n - 1) + 1, b[j - 1], s)
      BY <2>7, <3>6, <3>9, InsertedBehind
    <3> QED
      BY <2>7, <3>1, <3>7, <3>10
  <2> HIDE DEF d, b
  <2> QED
    BY <2>6, <2>8, <2>9, ListsInOrder
<1> QED
  BY <1>4, <1>5

(* Events due at the same clock fire in the order they were filed: no      *)
(* step reorders two events that keep their expiry, and one that is filed  *)
(* or re-armed goes behind those due with it.                              *)
THEOREM EqualsStayInOrder == Spec => EqualsFireInOrder
<1>1. ManagerInv /\ AsRegistered /\ [Next]_vars => [InOrder]_vars
  <2> SUFFICES ASSUME ManagerInv, AsRegistered, [Next]_vars
               PROVE  [InOrder]_vars
    OBVIOUS
  <2>1. ASSUME NEW d \in Devices, NEW c \in Delays, RegisterOnce(d, c)
        PROVE  InOrder
    BY <2>1, DelayType, RegisterInOrder DEF RegisterOnce
  <2>2. ASSUME NEW d \in Devices, NEW p \in Periods, RegisterLoop(d, p)
        PROVE  InOrder
    <3>1. PICK q \in Nat, r \in 0 .. Frac - 1 :
            q = p \div Frac /\ r = p % Frac /\ q * Frac + r = p
      BY LoopIsOnePeriodAhead
    <3>2. Register(d, q, p, r) /\ p \in Nat
      BY <2>2, <3>1, LoopIsOnePeriodAhead DEF RegisterLoop
    <3> QED
      BY <3>2, RegisterInOrder
  <2>3. ASSUME NEW d \in Devices, NEW c \in Delays, RegisterLoopByClock(d, c)
        PROVE  InOrder
    BY <2>3, DelayType, RegisterInOrder DEF RegisterLoopByClock
  <2>4. ASSUME NEW d \in Devices, NEW s \in Slots, CancelEvent(d, s)
        PROVE  InOrder
    <3>1. /\ Whole(event, firstFireEvent, firstFreeEvent)
          /\ event[s].active
          /\ SetLists(Unlink(Lists, s))
          /\ calling' = calling
      BY <2>4 DEF ManagerInv, CancelEvent
    <3> QED
      BY <3>1, UnlinkInOrder
  <2>5. CASE Reset
    BY <2>5, ResetInOrder
  <2>6. CASE FireHead
    BY <2>6, FireInOrder
  <2>7. CASE (\E c \in Steps : StartUpdate(c)) \/ CallbackReturns \/ FinishUpdate
    BY <2>7, IdleInOrder DEF StartUpdate, CallbackReturns, FinishUpdate
  <2> QED
    BY <2>1, <2>2, <2>3, <2>4, <2>5, <2>6, <2>7 DEF Next
<1>2. EqualsFireInOrder <=> [][InOrder]_vars
  BY DEF EqualsFireInOrder, InOrder, Stays, Comes
<1> QED
  BY <1>1, <1>2, ManagerHolds, AsRegisteredHolds, PTL DEF Spec

----------------------------------------------------------------------------
(* The timers that the handles stand for: those of EventTimers. *)
TimeOf(e) == IF e.active THEN e.expired * Frac + e.accum ELSE NULL

DueOf(ev) == [s \in Slots |-> TimeOf(ev[s])]
PeriodOf(ev) == [s \in Slots |-> ev[s].loop]
OwnerOf(ev) == [s \in Slots |-> ev[s].device]

(* A number has one quotient and one rest. *)
LEMMA SameQuotient ==
  ASSUME NEW p \in Nat \ {0}, NEW x \in Int, NEW y \in Int,
         NEW a \in 0 .. p - 1, NEW b \in 0 .. p - 1, x * p + a = p * y + b
  PROVE  y = x
<1> DEFINE z == x - y
           w == p * z
           u == x * p
           v == p * y
<1>1. z \in Int /\ w \in Int /\ u \in Int /\ v \in Int
  OBVIOUS
<1>2. w = u - v
  OBVIOUS
<1>3. u + a = v + b
  OBVIOUS
<1>4. w < p /\ w > 0 - p
  <2> HIDE DEF w, u, v
  <2> QED
    BY <1>1, <1>2, <1>3
<1>5. z >= 1 => w >= p
  <2> HIDE DEF z
  <2> QED
    BY <1>1
<1>6. z <= 0 - 1 => w <= 0 - p
  <2> HIDE DEF z
  <2> QED
    BY <1>1
<1>7. z = 0
  <2> HIDE DEF w, z
  <2> QED
    BY <1>1, <1>4, <1>5, <1>6
<1> QED
  BY <1>7

(* A pending timer is due at a number, in the clock the event expires at. *)
LEMMA TimeIsInClock ==
  ASSUME NEW e \in Handle, e.active
  PROVE  /\ TimeOf(e) \in Nat /\ TimeOf(e) # NULL
         /\ TimeOf(e) \div Frac = e.expired
<1> DEFINE x == e.expired * Frac
           a == TimeOf(e)
<1>1. /\ e.expired \in Nat /\ e.expired \in Int /\ e.accum \in 0 .. Frac - 1
      /\ Frac \in Int /\ Frac \in Nat \ {0} /\ Frac > 0
  BY TimersAssumption DEF Handle
<1>2. x \in Nat
  BY <1>1
<1>3. a = x + e.accum
  BY DEF TimeOf
<1>4. a \in Nat /\ a \in Int
  <2> HIDE DEF x, a
  <2> QED
    BY <1>1, <1>2, <1>3
<1>5. a # NULL
  <2> HIDE DEF a
  <2> QED
    BY <1>4, TimersAssumption
<1>6. PICK q \in Int, r \in 0 .. Frac - 1 :
        q = a \div Frac /\ r = a % Frac /\ a = Frac * q + r
  <2> HIDE DEF a
  <2> QED
    BY <1>1, <1>4, Division
<1>7. e.expired * Frac + e.accum = Frac * q + r
  BY <1>3, <1>6
<1>8. q = e.expired
  BY <1>1, <1>7, SameQuotient
<1>9. a \div Frac = e.expired
  BY <1>6, <1>8
<1> QED
  BY <1>4, <1>5, <1>9

(* The timers where an event is like another's, and where one is free. *)
LEMMA SameIsSameTimer ==
  ASSUME NEW e, NEW g, SameTimer(e, g)
  PROVE  TimeOf(e) = TimeOf(g) /\ e.loop = g.loop /\ e.device = g.device
BY DEF SameTimer, TimeOf

(* A free handle stands for no timer. *)
LEMMA FreeIsNoTimer ==
  ASSUME NEW e, NEW next, e = FreeHandle(next)
  PROVE  TimeOf(e) = NULL /\ e.loop = 0 /\ e.device = NULL /\ ~e.active
BY DEF FreeHandle, TimeOf

(* A step that changes one timer. *)
LEMMA OneTimerChanges ==
  ASSUME NEW s \in Slots, \A x \in Slots \ {s} : SameTimer(event'[x], event[x])
  PROVE  /\ DueOf(event') = [DueOf(event) EXCEPT ![s] = TimeOf(event'[s])]
         /\ PeriodOf(event') = [PeriodOf(event) EXCEPT ![s] = event'[s].loop]
         /\ OwnerOf(event') = [OwnerOf(event) EXCEPT ![s] = event'[s].device]
<1>1. \A x \in Slots \ {s} : /\ TimeOf(event'[x]) = TimeOf(event[x])
                             /\ event'[x].loop = event[x].loop
                             /\ event'[x].device = event[x].device
  BY SameIsSameTimer
<1> QED
  BY <1>1 DEF DueOf, PeriodOf, OwnerOf

(* What the abstract timers see of the state. *)
LEMMA MappedTimers ==
  /\ Timers!TInit <=> /\ DueOf(event) = [s \in Slots |-> NULL]
                      /\ PeriodOf(event) = [s \in Slots |-> 0]
                      /\ OwnerOf(event) = [s \in Slots |-> NULL]
                      /\ eventClocks = 0 /\ goal = NULL /\ calling = NULL
  /\ UNCHANGED vars => UNCHANGED Timers!tvars
BY DEF Timers!TInit, Timers!tvars, vars, DueOf, PeriodOf, OwnerOf, TimeOf

(* The actions of EventTimers, in terms of the timers the handles stand for. *)
LEMMA MappedArm ==
  ASSUME NEW s, NEW d, NEW t, NEW l
  PROVE  Timers!Arm(s, d, t, l) <=>
           /\ DeviceRuns
           /\ DueOf(event)[s] = NULL
           /\ DueOf(event') = [DueOf(event) EXCEPT ![s] = eventClocks * Frac + t]
           /\ PeriodOf(event') = [PeriodOf(event) EXCEPT ![s] = l]
           /\ OwnerOf(event') = [OwnerOf(event) EXCEPT ![s] = d]
           /\ UNCHANGED <<eventClocks, goal, calling>>
BY DEF Timers!Arm, Timers!Pending, Timers!DeviceRuns, DeviceRuns,
       DueOf, PeriodOf, OwnerOf, TimeOf

(* Disarm, likewise. *)
LEMMA MappedDisarm ==
  ASSUME NEW s
  PROVE  Timers!Disarm(s) <=>
           /\ DeviceRuns
           /\ DueOf(event)[s] # NULL
           /\ DueOf(event') = [DueOf(event) EXCEPT ![s] = NULL]
           /\ PeriodOf(event') = [PeriodOf(event) EXCEPT ![s] = 0]
           /\ OwnerOf(event') = [OwnerOf(event) EXCEPT ![s] = NULL]
           /\ UNCHANGED <<eventClocks, goal, calling>>
BY DEF Timers!Disarm, Timers!Pending, Timers!DeviceRuns, DeviceRuns,
       DueOf, PeriodOf, OwnerOf, TimeOf

(* DisarmAll, likewise. *)
LEMMA MappedDisarmAll ==
  Timers!DisarmAll <=>
    /\ goal = NULL
    /\ DueOf(event') = [s \in Slots |-> IF PeriodOf(event)[s] = 0 THEN NULL
                                        ELSE DueOf(event)[s]]
    /\ OwnerOf(event') = [s \in Slots |-> IF PeriodOf(event)[s] = 0 THEN NULL
                                          ELSE OwnerOf(event)[s]]
    /\ PeriodOf(event') = PeriodOf(event)
    /\ UNCHANGED <<eventClocks, goal, calling>>
BY DEF Timers!DisarmAll, DueOf, PeriodOf, OwnerOf, TimeOf

(* Expire, in terms of the timers that the handles stand for. *)
Expires(s) ==
  /\ goal # NULL /\ calling = NULL
  /\ DueOf(event)[s] # NULL
  /\ DueOf(event)[s] \div Frac <= goal
  /\ \A r \in Slots : DueOf(event)[r] # NULL =>
       DueOf(event)[s] \div Frac <= DueOf(event)[r] \div Frac
  /\ eventClocks' = DueOf(event)[s] \div Frac
  /\ DueOf(event') = [DueOf(event) EXCEPT ![s] =
                        IF PeriodOf(event)[s] = 0 THEN NULL
                        ELSE DueOf(event)[s] + PeriodOf(event)[s]]
  /\ calling' = OwnerOf(event)[s]
  /\ OwnerOf(event') = [OwnerOf(event) EXCEPT ![s] =
                          IF PeriodOf(event)[s] = 0 THEN NULL
                          ELSE OwnerOf(event)[s]]
  /\ PeriodOf(event') = PeriodOf(event)
  /\ goal' = goal

(* Expire is Expires. *)
LEMMA MappedExpire ==
  ASSUME NEW s
  PROVE  Timers!Expire(s) <=> Expires(s)
BY DEF Expires, Timers!Expire, Timers!Pending, Timers!ClockOf,
       DueOf, PeriodOf, OwnerOf, TimeOf

(* The steps that move no timer. *)
LEMMA MappedUpdate ==
  /\ \A c : Timers!Start(c) <=>
       /\ goal = NULL /\ goal' = eventClocks + c
       /\ DueOf(event') = DueOf(event) /\ PeriodOf(event') = PeriodOf(event)
       /\ OwnerOf(event') = OwnerOf(event)
       /\ UNCHANGED <<eventClocks, calling>>
  /\ Timers!Return <=>
       /\ calling # NULL /\ calling' = NULL
       /\ DueOf(event') = DueOf(event) /\ PeriodOf(event') = PeriodOf(event)
       /\ OwnerOf(event') = OwnerOf(event)
       /\ UNCHANGED <<eventClocks, goal>>
  /\ Timers!Finish <=>
       /\ goal # NULL /\ calling = NULL
       /\ \A s \in Slots : DueOf(event)[s] # NULL =>
                             DueOf(event)[s] \div Frac > goal
       /\ eventClocks' = goal /\ goal' = NULL
       /\ DueOf(event') = DueOf(event) /\ PeriodOf(event') = PeriodOf(event)
       /\ OwnerOf(event') = OwnerOf(event)
       /\ calling' = calling
BY DEF Timers!Start, Timers!Return, Timers!Finish, Timers!Pending,
       Timers!ClockOf, DueOf, PeriodOf, OwnerOf, TimeOf

(* Registering arms a free slot for the clock asked for. *)
LEMMA RegisterArms ==
  ASSUME ManagerInv, NEW o \in Devices, NEW clock \in Nat, NEW loop \in Nat,
         NEW accum \in 0 .. Frac - 1, Register(o, clock, loop, accum),
         NEW t \in Nat, t = clock * Frac + accum
  PROVE  \E s \in Slots : Timers!Arm(s, o, t, loop)
<1> DEFINE s == firstFreeEvent
<1>1. Whole(event, firstFireEvent, firstFreeEvent) /\ eventClocks \in Nat
  BY DEF ManagerInv, UpdateTypes
<1>2. /\ s \in Slots /\ ~event[s].active
      /\ event'[s].device = o
      /\ event'[s].expired = eventClocks + clock
      /\ event'[s].loop = loop
      /\ event'[s].accum = accum
      /\ event'[s].active
      /\ \A x \in Slots \ {s} : SameTimer(event'[x], event[x])
  BY <1>1, RegisterEffect
<1>3. DeviceRuns /\ UNCHANGED <<eventClocks, goal, calling>>
  BY DEF Register
<1> HIDE DEF s
<1>4. TimeOf(event'[s]) = eventClocks * Frac + t
  <2> DEFINE u == eventClocks * Frac
             v == clock * Frac
             w == (eventClocks + clock) * Frac
  <2>1. TimeOf(event'[s]) = w + accum
    BY <1>2 DEF TimeOf
  <2>2. w = u + v /\ u \in Int /\ v \in Int
    BY <1>1, TimersAssumption
  <2>3. t = v + accum /\ accum \in Int
    OBVIOUS
  <2> HIDE DEF u, v, w
  <2>4. TimeOf(event'[s]) = u + t
    BY <2>1, <2>2, <2>3
  <2> QED
    BY <2>4 DEF u
<1>5. DueOf(event)[s] = NULL
  BY <1>2 DEF DueOf, TimeOf
<1>6. /\ DueOf(event') = [DueOf(event) EXCEPT ![s] = TimeOf(event'[s])]
      /\ PeriodOf(event') = [PeriodOf(event) EXCEPT ![s] = event'[s].loop]
      /\ OwnerOf(event') = [OwnerOf(event) EXCEPT ![s] = event'[s].device]
  BY <1>2, OneTimerChanges
<1>7. Timers!Arm(s, o, t, loop)
  BY <1>2, <1>3, <1>4, <1>5, <1>6, MappedArm
<1> QED
  BY <1>2, <1>7

(* Cancelling disarms. *)
LEMMA CancelDisarms ==
  ASSUME ManagerInv, NEW d \in Devices, NEW s \in Slots, CancelEvent(d, s)
  PROVE  Timers!Disarm(s)
<1>1. /\ Whole(event, firstFireEvent, firstFreeEvent) /\ event[s] \in Handle
      /\ event[s].active
      /\ SetLists(Unlink(Lists, s))
      /\ DeviceRuns
      /\ UNCHANGED <<eventClocks, goal, calling>>
  BY DEF ManagerInv, CancelEvent, Whole
<1>2. /\ event'[s] = FreeHandle(firstFreeEvent)
      /\ \A x \in Slots \ {s} : SameTimer(event'[x], event[x])
  BY <1>1, UnlinkEffect
<1>3. DueOf(event)[s] # NULL
  BY <1>1, TimeIsInClock DEF DueOf
<1>4. TimeOf(event'[s]) = NULL /\ event'[s].loop = 0 /\ event'[s].device = NULL
  BY <1>2, FreeIsNoTimer
<1>5. /\ DueOf(event') = [DueOf(event) EXCEPT ![s] = TimeOf(event'[s])]
      /\ PeriodOf(event') = [PeriodOf(event) EXCEPT ![s] = event'[s].loop]
      /\ OwnerOf(event') = [OwnerOf(event) EXCEPT ![s] = event'[s].device]
  BY <1>2, OneTimerChanges
<1> QED
  BY <1>1, <1>3, <1>4, <1>5, MappedDisarm

(* A reset disarms all but the loops. *)
LEMMA ResetDisarmsAll ==
  ASSUME ManagerInv, Reset
  PROVE  Timers!DisarmAll
<1>1. Whole(event, firstFireEvent, firstFreeEvent)
  BY DEF ManagerInv
<1>2. Whole(event', firstFireEvent', firstFreeEvent')
  BY ResetKeepsInv DEF ManagerInv
<1>3. \A x \in Slots : IF event[x].active /\ event[x].loop = 0
                       THEN ~event'[x].active
                       ELSE SameTimer(event'[x], event[x])
  BY <1>1, ResetEffect
<1>4. goal = NULL /\ UNCHANGED <<eventClocks, goal, calling>>
  BY DEF Reset
<1>5. ASSUME NEW x \in Slots
      PROVE  /\ TimeOf(event'[x]) = IF event[x].loop = 0 THEN NULL
                                    ELSE TimeOf(event[x])
             /\ event'[x].device = IF event[x].loop = 0 THEN NULL
                                   ELSE event[x].device
             /\ event'[x].loop = event[x].loop
  <2>1. CASE event[x].active /\ event[x].loop = 0
    <3>1. ~event'[x].active
      BY <1>3, <2>1
    <3>2. event'[x].loop = 0 /\ event'[x].device = NULL
      BY <1>2, <3>1, FreeIsBlank
    <3> QED
      BY <2>1, <3>1, <3>2 DEF TimeOf
  <2>2. CASE ~event[x].active
    <3>1. event[x].loop = 0 /\ event[x].device = NULL
      BY <1>1, <2>2, FreeIsBlank
    <3>2. SameTimer(event'[x], event[x])
      BY <1>3, <2>2
    <3> QED
      BY <2>2, <3>1, <3>2 DEF TimeOf, SameTimer
  <2>3. CASE event[x].active /\ event[x].loop # 0
    <3>1. SameTimer(event'[x], event[x])
      BY <1>3, <2>3
    <3> QED
      BY <2>3, <3>1, SameIsSameTimer
  <2> QED
    BY <2>1, <2>2, <2>3
<1>6. /\ DueOf(event') = [s \in Slots |-> IF PeriodOf(event)[s] = 0 THEN NULL
                                          ELSE DueOf(event)[s]]
      /\ OwnerOf(event') = [s \in Slots |-> IF PeriodOf(event)[s] = 0 THEN NULL
                                            ELSE OwnerOf(event)[s]]
      /\ PeriodOf(event') = PeriodOf(event)
  BY <1>5 DEF DueOf, PeriodOf, OwnerOf
<1> QED
  BY <1>4, <1>6, MappedDisarmAll

(* Firing the head expires the timer that is due first. *)
LEMMA FireExpires ==
  ASSUME ManagerInv, FireHead
  PROVE  \E s \in Slots : Timers!Expire(s)
<1> DEFINE s == firstFireEvent
           e == Rearmed(event[s])
<1>1. Whole(event, firstFireEvent, firstFreeEvent) /\ firstFireEvent # NULL
  BY DEF ManagerInv, FireHead, HeadIsDue
<1>2. /\ s \in Slots /\ event[s] \in Handle /\ event[s].active
      /\ eventClocks' = event[s].expired
      /\ goal' = goal
  BY FireClock
<1>3. \A x \in Slots : event[x].active => event[s].expired <= event[x].expired
  BY <1>1, HeadIsFirst
<1>4. /\ goal # NULL /\ calling = NULL /\ event[s].expired <= goal
      /\ calling' = event[s].device
  BY DEF FireHead, HeadIsDue
<1>5. /\ event'[s].loop = event[s].loop
      /\ event'[s].device = IF event[s].loop = 0 THEN NULL ELSE event[s].device
      /\ TimeOf(event'[s]) = IF event[s].loop = 0 THEN NULL
                             ELSE TimeOf(event[s]) + event[s].loop
      /\ \A x \in Slots \ {s} : SameTimer(event'[x], event[x])
  <2>1. CASE event[s].loop = 0
    <3>1. SetLists(Unlink(Lists, s))
      BY <1>1, <2>1, FireOnceUnlinks
    <3> HIDE DEF s
    <3>2. /\ event'[s] = FreeHandle(firstFreeEvent)
          /\ \A x \in Slots \ {s} : SameTimer(event'[x], event[x])
      BY <1>1, <1>2, <3>1, UnlinkEffect
    <3>3. /\ TimeOf(event'[s]) = NULL /\ event'[s].loop = 0
          /\ event'[s].device = NULL
      BY <3>2, FreeIsNoTimer
    <3> QED
      BY <2>1, <3>2, <3>3
  <2>2. CASE event[s].loop # 0
    <3>1. /\ SameTimer(event'[s], e)
          /\ \A x \in Slots \ {s} : SameTimer(event'[x], event[x])
      BY <1>1, <2>2, FireLoopEffect
    <3> HIDE DEF s
    <3>2. /\ e.expired * Frac + e.accum
               = event[s].expired * Frac + event[s].accum + event[s].loop
          /\ e.loop = event[s].loop /\ e.device = event[s].device
          /\ e.active = event[s].active
      BY <1>2, RearmedType
    <3> HIDE DEF e
    <3>3. TimeOf(e) = TimeOf(event[s]) + event[s].loop
      BY <1>2, <3>2 DEF TimeOf
    <3> QED
      BY <2>2, <3>1, <3>2, <3>3, SameIsSameTimer
  <2> QED
    BY <2>1, <2>2
<1> HIDE DEF s, e
<1>6. ASSUME NEW x \in Slots, DueOf(event)[x] # NULL
      PROVE  event[x].active /\ DueOf(event)[x] \div Frac = event[x].expired
  <2>1. event[x].active
    BY <1>6 DEF DueOf, TimeOf
  <2>2. event[x] \in Handle
    BY <1>1 DEF Whole
  <2> QED
    BY <2>1, <2>2, TimeIsInClock DEF DueOf
<1>7. DueOf(event)[s] # NULL /\ DueOf(event)[s] \div Frac = event[s].expired
  BY <1>2, TimeIsInClock DEF DueOf
<1>8. /\ DueOf(event') = [DueOf(event) EXCEPT ![s] = TimeOf(event'[s])]
      /\ PeriodOf(event') = [PeriodOf(event) EXCEPT ![s] = event'[s].loop]
      /\ OwnerOf(event') = [OwnerOf(event) EXCEPT ![s] = event'[s].device]
  BY <1>2, <1>5, OneTimerChanges
<1>9. /\ DueOf(event)[s] = TimeOf(event[s])
      /\ PeriodOf(event)[s] = event[s].loop
      /\ OwnerOf(event)[s] = event[s].device
  BY <1>2 DEF DueOf, PeriodOf, OwnerOf
<1>10. /\ DueOf(event') = [DueOf(event) EXCEPT ![s] =
                             IF PeriodOf(event)[s] = 0 THEN NULL
                             ELSE DueOf(event)[s] + PeriodOf(event)[s]]
       /\ OwnerOf(event') = [OwnerOf(event) EXCEPT ![s] =
                               IF PeriodOf(event)[s] = 0 THEN NULL
                               ELSE OwnerOf(event)[s]]
       /\ PeriodOf(event') = PeriodOf(event)
  <2>1. DueOf(event') = [DueOf(event) EXCEPT ![s] =
                           IF PeriodOf(event)[s] = 0 THEN NULL
                           ELSE DueOf(event)[s] + PeriodOf(event)[s]]
    BY <1>5, <1>8, <1>9
  <2>2. OwnerOf(event') = [OwnerOf(event) EXCEPT ![s] =
                             IF PeriodOf(event)[s] = 0 THEN NULL
                             ELSE OwnerOf(event)[s]]
    BY <1>5, <1>8, <1>9
  <2>3. PeriodOf(event') = PeriodOf(event)
    BY <1>2, <1>5, <1>8 DEF PeriodOf
  <2> QED
    BY <2>1, <2>2, <2>3
<1>11. \A r \in Slots : DueOf(event)[r] # NULL =>
         DueOf(event)[s] \div Frac <= DueOf(event)[r] \div Frac
  BY <1>3, <1>6, <1>7
<1>12. /\ DueOf(event)[s] \div Frac <= goal
       /\ eventClocks' = DueOf(event)[s] \div Frac
       /\ calling' = OwnerOf(event)[s]
  BY <1>2, <1>4, <1>7, <1>9
<1>13. Expires(s)
  BY <1>2, <1>4, <1>7, <1>10, <1>11, <1>12 DEF Expires
<1>14. PICK x \in Slots : x = s
  BY <1>2
<1>15. Expires(x)
  BY <1>13, <1>14
<1>16. Timers!Expire(x)
  BY <1>15, MappedExpire
<1> QED
  BY <1>16

(* An update ends when no timer is due by its goal. *)
LEMMA FinishFinishes ==
  ASSUME ManagerInv, FinishUpdate
  PROVE  Timers!Finish
<1>1. /\ goal # NULL /\ calling = NULL /\ ~HeadIsDue
      /\ eventClocks' = goal /\ goal' = NULL /\ calling' = calling
      /\ event' = event
  BY DEF FinishUpdate
<1>2. goal \in Nat
  BY <1>1 DEF ManagerInv, UpdateTypes
<1>3. ASSUME NEW s \in Slots, DueOf(event)[s] # NULL
      PROVE  DueOf(event)[s] \div Frac > goal
  <2>1. event[s].active
    BY <1>3 DEF DueOf, TimeOf
  <2>2. event[s] \in Handle /\ event[s].expired > goal
    BY <1>1, <1>2, <2>1, NothingDue
  <2>3. DueOf(event)[s] \div Frac = event[s].expired
    BY <2>1, <2>2, TimeIsInClock DEF DueOf
  <2> QED
    BY <2>2, <2>3
<1> QED
  BY <1>1, <1>3, MappedUpdate

(* The lists of the event manager implement the timers of EventTimers:     *)
(* each step is one of theirs on the timers that the handles stand for, or *)
(* changes none of them.                                                   *)
THEOREM ListsImplementTimers == Spec => ImplementsTimers
<1>1. Init => Timers!TInit
  <2>1. Init => /\ DueOf(event) = [s \in Slots |-> NULL]
                /\ PeriodOf(event) = [s \in Slots |-> 0]
                /\ OwnerOf(event) = [s \in Slots |-> NULL]
    BY DEF Init, DueOf, PeriodOf, OwnerOf, TimeOf, FreeHandle
  <2> QED
    BY <2>1, MappedTimers DEF Init
<1>2. ManagerInv /\ [Next]_vars => [Timers!TNext]_Timers!tvars
  <2> SUFFICES ASSUME ManagerInv, [Next]_vars
               PROVE  Timers!TNext \/ UNCHANGED Timers!tvars
    OBVIOUS
  <2>1. ASSUME NEW d \in Devices, NEW c \in Delays, RegisterOnce(d, c)
        PROVE  Timers!TNext
    <3>1. c \in Nat /\ c * Frac \in Nat /\ 0 \in 0 .. Frac - 1
      BY DelayType
    <3>2. c * Frac = c * Frac + 0
      BY <3>1
    <3>3. \E s \in Slots : Timers!Arm(s, d, c * Frac, 0)
      BY <2>1, <3>1, <3>2, RegisterArms DEF RegisterOnce
    <3> QED
      BY <3>3 DEF Timers!TNext
  <2>2. ASSUME NEW d \in Devices, NEW p \in Periods, RegisterLoop(d, p)
        PROVE  Timers!TNext
    <3>1. PICK q \in Nat, r \in 0 .. Frac - 1 :
            q = p \div Frac /\ r = p % Frac /\ q * Frac + r = p
      BY LoopIsOnePeriodAhead
    <3>2. Register(d, q, p, r) /\ p \in Nat
      BY <2>2, <3>1, LoopIsOnePeriodAhead DEF RegisterLoop
    <3>3. \E s \in Slots : Timers!Arm(s, d, p, p)
      BY <3>1, <3>2, RegisterArms
    <3> QED
      BY <3>3 DEF Timers!TNext
  <2>3. ASSUME NEW d \in Devices, NEW c \in Delays \ {0},
               RegisterLoopByClock(d, c)
        PROVE  Timers!TNext
    <3>1. c \in Nat /\ c * Frac \in Nat /\ 0 \in 0 .. Frac - 1
      BY DelayType
    <3>2. c * Frac = c * Frac + 0
      BY <3>1
    <3>3. \E s \in Slots : Timers!Arm(s, d, c * Frac, c * Frac)
      BY <2>3, <3>1, <3>2, RegisterArms DEF RegisterLoopByClock
    <3> QED
      BY <3>3 DEF Timers!TNext
  <2>4. ASSUME NEW d \in Devices, NEW s \in Slots, CancelEvent(d, s)
        PROVE  Timers!TNext
    BY <2>4, CancelDisarms DEF Timers!TNext
  <2>5. CASE Reset
    BY <2>5, ResetDisarmsAll DEF Timers!TNext
  <2>6. ASSUME NEW c \in Steps, eventClocks + c <= MaxClock, StartUpdate(c)
        PROVE  Timers!TNext
    BY <2>6, MappedUpdate DEF StartUpdate, Timers!TNext
  <2>7. CASE FireHead
    BY <2>7, FireExpires DEF Timers!TNext
  <2>8. CASE CallbackReturns
    BY <2>8, MappedUpdate DEF CallbackReturns, Timers!TNext
  <2>9. CASE FinishUpdate
    BY <2>9, FinishFinishes DEF Timers!TNext
  <2>10. CASE UNCHANGED vars
    BY <2>10, MappedTimers
  <2> QED
    BY <2>1, <2>2, <2>3, <2>4, <2>5, <2>6, <2>7, <2>8, <2>9, <2>10 DEF Next
<1> QED
  BY <1>1, <1>2, ManagerHolds, PTL DEF Spec, ImplementsTimers, Timers!TSpec

----------------------------------------------------------------------------
(* The events that the clock has come to. *)
DueNow == {s \in Slots : event[s].active /\ event[s].expired = eventClocks}

(* Within an update the clock advances, or the events it has come to are   *)
(* used up: a callback takes one away, and devices add none.               *)
MovesOn ==
  goal # NULL /\ goal' # NULL =>
    \/ eventClocks < eventClocks' /\ eventClocks' <= goal
    \/ /\ eventClocks' = eventClocks
       /\ DueNow' \subseteq DueNow
       /\ calling = NULL /\ calling' # NULL => DueNow' # DueNow

(* What is asked for is at least a clock ahead. *)
AskedAhead == 0 \notin Delays /\ \A p \in Periods : p >= Frac

(* So is the next turn of a loop event. *)
LEMMA LoopsAreLong ==
  ASSUME AskedAhead, NEW l \in Loops, l # 0
  PROVE  l \in Nat /\ l >= Frac
<1>1. CASE l \in Periods
  BY <1>1, TimersAssumption DEF AskedAhead
<1>2. ASSUME NEW c \in Delays \ {0}, l = c * Frac
      PROVE  l \in Nat /\ l >= Frac
  <2>1. c \in Nat /\ c >= 1 /\ Frac \in Nat
    BY TimersAssumption
  <2> QED
    BY <1>2, <2>1
<1> QED
  BY <1>1, <1>2 DEF Loops

(* A registration files its event ahead of the clock. *)
LEMMA RegisterMovesOn ==
  ASSUME ManagerInv, NEW d \in Devices, NEW clock \in Nat \ {0},
         NEW loop \in Nat, NEW accum \in 0 .. Frac - 1,
         Register(d, clock, loop, accum)
  PROVE  MovesOn
<1> DEFINE s == firstFreeEvent
<1>1. Whole(event, firstFireEvent, firstFreeEvent) /\ eventClocks \in Nat
  BY DEF ManagerInv, UpdateTypes
<1>2. /\ event'[s].expired = eventClocks + clock
      /\ \A x \in Slots \ {s} : SameTimer(event'[x], event[x])
  BY <1>1, RegisterEffect
<1>3. UNCHANGED <<eventClocks, goal, calling>>
  BY DEF Register
<1> HIDE DEF s
<1>4. eventClocks + clock # eventClocks
  BY <1>1
<1>5. DueNow' \subseteq DueNow
  BY <1>2, <1>3, <1>4 DEF DueNow, SameTimer
<1> QED
  BY <1>3, <1>5 DEF MovesOn

(* A callback is at a later clock, or its event is due no more. *)
LEMMA FireMovesOn ==
  ASSUME ManagerInv, AsRegistered, AskedAhead, FireHead
  PROVE  MovesOn
<1> DEFINE s == firstFireEvent
           now == event[s].expired
           e == Rearmed(event[s])
<1>1. Whole(event, firstFireEvent, firstFreeEvent) /\ NoneOverdue
  BY DEF ManagerInv
<1>2. /\ s \in Slots /\ event[s] \in Handle /\ event[s].active
      /\ eventClocks' = now /\ now \in Nat
      /\ goal' = goal /\ goal \in Nat /\ now <= goal
  BY FireClock
<1>3. eventClocks \in Nat /\ eventClocks <= now
  BY <1>1, <1>2 DEF ManagerInv, UpdateTypes, NoneOverdue
<1>4. CASE eventClocks < now
  BY <1>2, <1>4 DEF MovesOn
<1>5. CASE eventClocks = now
  <2>1. /\ ~event'[s].active \/ event'[s].expired # now
        /\ \A x \in Slots \ {s} : SameTimer(event'[x], event[x])
    <3>1. CASE event[s].loop = 0
      <4>1. SetLists(Unlink(Lists, s))
        BY <1>1, <3>1, FireOnceUnlinks
      <4> HIDE DEF s
      <4>2. /\ event'[s] = FreeHandle(firstFreeEvent)
            /\ \A x \in Slots \ {s} : SameTimer(event'[x], event[x])
        BY <1>1, <1>2, <4>1, UnlinkEffect
      <4> QED
        BY <4>2 DEF FreeHandle
    <3>2. CASE event[s].loop # 0
      <4>1. /\ SameTimer(event'[s], e)
            /\ \A x \in Slots \ {s} : SameTimer(event'[x], event[x])
        BY <1>1, <3>2, FireLoopEffect
      <4> HIDE DEF s
      <4>2. /\ e \in Handle
            /\ e.expired * Frac + e.accum
                 = event[s].expired * Frac + event[s].accum + event[s].loop
        BY <1>2, RearmedType
      <4>3. event[s].loop \in Nat /\ event[s].loop >= Frac
        BY <1>2, <3>2, LoopsAreLong DEF AsRegistered
      <4> HIDE DEF e
      <4>4. e.expired # now
        <5>1. SUFFICES ASSUME e.expired = now
                       PROVE  FALSE
          OBVIOUS
        <5> DEFINE y == now * Frac
        <5>2. y + e.accum = y + event[s].accum + event[s].loop
          BY <4>2, <5>1
        <5>3. y \in Int /\ e.accum \in 0 .. Frac - 1
              /\ event[s].accum \in 0 .. Frac - 1 /\ Frac \in Nat
          BY <1>2, <4>2, TimersAssumption DEF Handle
        <5> HIDE DEF y
        <5> QED
          BY <4>3, <5>2, <5>3
      <4> QED
        BY <4>1, <4>4 DEF SameTimer
    <3> QED
      BY <3>1, <3>2
  <2>2. eventClocks' = eventClocks
    BY <1>2, <1>5
  <2>3. s \in DueNow
    BY <1>2, <1>5 DEF DueNow
  <2> HIDE DEF s
  <2>4. s \notin DueNow' /\ DueNow' \subseteq DueNow
    BY <1>2, <2>1, <2>2 DEF DueNow, SameTimer
  <2> QED
    BY <2>2, <2>3, <2>4 DEF MovesOn
<1> QED
  BY <1>2, <1>3, <1>4, <1>5

(* Where devices ask for delays and periods of at least a clock, as they   *)
(* do (100 us and 1/44100 s), an update cannot go on calling back for ever *)
(* at one clock: each callback is at a later clock, none past the goal, or *)
(* leaves fewer of the events that the clock has come to. It is why        *)
(* UpdateTerminates holds.                                                 *)
THEOREM UpdateMovesOn ==
  ASSUME AskedAhead
  PROVE  Spec => [][MovesOn]_vars
<1>1. ManagerInv /\ AsRegistered /\ [Next]_vars => [MovesOn]_vars
  <2> SUFFICES ASSUME ManagerInv, AsRegistered, [Next]_vars
               PROVE  [MovesOn]_vars
    OBVIOUS
  <2>1. ASSUME NEW d \in Devices, NEW c \in Delays, RegisterOnce(d, c)
        PROVE  MovesOn
    <3>1. c \in Nat \ {0}
      BY DelayType DEF AskedAhead
    <3> QED
      BY <2>1, <3>1, DelayType, RegisterMovesOn DEF RegisterOnce
  <2>2. ASSUME NEW d \in Devices, NEW p \in Periods, RegisterLoop(d, p)
        PROVE  MovesOn
    <3>1. PICK q \in Nat, r \in 0 .. Frac - 1 :
            q = p \div Frac /\ r = p % Frac /\ q * Frac + r = p
      BY LoopIsOnePeriodAhead
    <3>2. Register(d, q, p, r) /\ p \in Nat
      BY <2>2, <3>1, LoopIsOnePeriodAhead DEF RegisterLoop
    <3>3. q # 0
      <4>1. p >= Frac /\ Frac \in Nat
        BY TimersAssumption DEF AskedAhead
      <4>2. q = 0 => p = r
        <5>1. q * Frac + r = p
          BY <3>1
        <5> QED
          BY <4>1, <5>1
      <4> QED
        BY <4>1, <4>2
    <3> QED
      BY <3>2, <3>3, RegisterMovesOn
  <2>3. ASSUME NEW d \in Devices, NEW c \in Delays \ {0},
               RegisterLoopByClock(d, c)
        PROVE  MovesOn
    <3>1. c \in Nat \ {0}
      BY DelayType
    <3> QED
      BY <2>3, <3>1, DelayType, RegisterMovesOn DEF RegisterLoopByClock
  <2>4. ASSUME NEW d \in Devices, NEW s \in Slots, CancelEvent(d, s)
        PROVE  MovesOn
    <3>1. /\ Whole(event, firstFireEvent, firstFreeEvent)
          /\ event[s].active
          /\ SetLists(Unlink(Lists, s))
          /\ UNCHANGED <<eventClocks, goal, calling>>
      BY <2>4 DEF ManagerInv, CancelEvent
    <3>2. /\ event'[s] = FreeHandle(firstFreeEvent)
          /\ \A x \in Slots \ {s} : SameTimer(event'[x], event[x])
      BY <3>1, UnlinkEffect
    <3>3. DueNow' \subseteq DueNow
      BY <3>1, <3>2 DEF DueNow, SameTimer, FreeHandle
    <3> QED
      BY <3>1, <3>3 DEF MovesOn
  <2>5. CASE FireHead
    BY <2>5, FireMovesOn
  <2>6. CASE CallbackReturns
    BY <2>6 DEF CallbackReturns, MovesOn, DueNow
  <2>7. CASE Reset \/ (\E c \in Steps : StartUpdate(c)) \/ FinishUpdate
    BY <2>7 DEF Reset, StartUpdate, FinishUpdate, MovesOn
  <2> QED
    BY <2>1, <2>2, <2>3, <2>4, <2>5, <2>6, <2>7 DEF Next
<1> QED
  BY <1>1, ManagerHolds, AsRegisteredHolds, PTL DEF Spec
=============================================================================
