--------------------------- MODULE RecordListProofs ---------------------------
(***************************************************************************)
(* What get_all_nodes() returns: the walk along next_node from address 0   *)
(* meets exactly the slots up to the last one of the list and then ends,   *)
(* so an acknowledged record is listed, the list only grows when it is     *)
(* full, and insert_node() and delete_node() implement the RecordStore.    *)
(* As in EepromStorageProofs: for every page size, chip size and set of    *)
(* entries, on a chip that came zeroed, within the first two pages.        *)
(*                                                                         *)
(* The walk is a recursive function over Links.  What it computes is       *)
(* proved by taking the least link at which the claim fails (LeastNat).    *)
(***************************************************************************)
EXTENDS EepromStorageProofs, FiniteSetTheorems, WellFoundedInduction

\* Where the walk goes from a.
After(m, a) ==
    IF a = Stop THEN Stop
    ELSE IF InBuffer(a) /\ NextNode(m, a) # 0 THEN NextNode(m, a)
    ELSE Stop

\* The links of a list whose last slot is last (the part of ListShape the walk
\* depends on).
Linked(m, last) ==
    /\ last \in SlotAddr
    /\ last + EntryWords <= 2 * PageWords
    /\ \A a \in SlotAddr : a < last => NextNode(m, a) = NextAddress(a)
    /\ \A a \in SlotAddr : a >= last => NextNode(m, a) = 0

\* The slots of that list.
UpTo(last) == {a \in SlotAddr : a <= last}
----------------------------------------------------------------------------
(***************************************************************************)
(* The walk is well defined                                                *)
(***************************************************************************)

\* Every nonempty set of natural numbers has a least member.
LEMMA LeastNat ==
  ASSUME NEW T, T \subseteq Nat, T # {}
  PROVE  \E x \in T : \A y \in T : x <= y
  <1> DEFINE Less == {p \in Nat \X Nat : p[1] < p[2]}
  <1>1. OpToRel(<, Nat) = Less
    BY Zenon DEF OpToRel
  <1>2. IsWellFoundedOn(Less, Nat)
    BY <1>1, NatLessThanWellFounded, Zenon
  <1> HIDE DEF Less
  <1>3. PICK x \in T : \A y \in T : ~(<<y, x>> \in Less)
    BY <1>2, WFMin, Zenon
  <1>4. \A y \in T : ~(y < x)
    BY <1>3 DEF Less
  <1>5. QED
    BY <1>4

\* The recursive definition of the walk has a solution for any number of links.
LEMMA WalkExists ==
  ASSUME NEW m, NEW N \in Nat
  PROVE  \E f : f = [n \in 0 .. N |-> IF n = 0 THEN 0 ELSE After(m, f[n - 1])]
  <1> DEFINE Solved(k) ==
               \E f : f = [n \in 0 .. k |-> IF n = 0 THEN 0 ELSE After(m, f[n - 1])]
             T == {k \in Nat : ~Solved(k)}
  <1>1. SUFFICES ASSUME T # {}
                 PROVE  FALSE
    OBVIOUS
  <1>2. PICK k \in T : \A y \in T : k <= y
    BY <1>1, LeastNat
  <1>3. CASE k = 0
    <2> DEFINE f == [n \in 0 .. 0 |-> 0]
    <2>1. f = [n \in 0 .. 0 |-> IF n = 0 THEN 0 ELSE After(m, f[n - 1])]
      OBVIOUS
    <2>2. Solved(0)
      BY <2>1
    <2>3. QED
      BY <1>2, <1>3, <2>2
  <1>4. CASE k # 0
    <2>1. k \in Nat /\ k - 1 \in Nat /\ k - 1 \notin T
      BY <1>2, <1>4
    <2>2. PICK f : f = [n \in 0 .. (k - 1) |-> IF n = 0 THEN 0 ELSE After(m, f[n - 1])]
      BY <2>1
    <2> DEFINE g == [n \in 0 .. k |-> IF n < k THEN f[n] ELSE After(m, f[k - 1])]
    <2>3. \A n \in 0 .. k : g[n] = IF n = 0 THEN 0 ELSE After(m, g[n - 1])
      <3> SUFFICES ASSUME NEW n \in 0 .. k
                   PROVE  g[n] = IF n = 0 THEN 0 ELSE After(m, g[n - 1])
        OBVIOUS
      <3>1. n # 0 => g[n - 1] = f[n - 1]
        BY <2>1
      <3>2. CASE n < k
        <4>1. n \in 0 .. (k - 1) /\ g[n] = f[n]
          BY <2>1, <3>2
        <4>2. f[n] = IF n = 0 THEN 0 ELSE After(m, f[n - 1])
          BY <4>1, <2>2
        <4>3. QED
          BY <4>1, <4>2, <3>1
      <3>3. CASE n = k
        BY <2>1, <3>1, <3>3
      <3>4. QED
        BY <2>1, <3>2, <3>3
    <2>4. g = [n \in 0 .. k |-> IF n = 0 THEN 0 ELSE After(m, g[n - 1])]
      <3> HIDE DEF g
      <3>1. g = [n \in 0 .. k |-> g[n]]
        BY DEF g
      <3>2. QED
        BY <2>3, <3>1, Zenon
    <2>5. Solved(k)
      BY <2>4, Zenon
    <2>6. QED
      BY <1>2, <2>5
  <1>5. QED
    BY <1>3, <1>4

\* There are finitely many slots.
LEMMA SlotsFinite == IsFiniteSet(SlotAddr) /\ Cardinality(SlotAddr) \in Nat
  <1>1. IsFiniteSet(Addr)
    BY StorageSize, FS_Interval DEF Addr
  <1>2. SlotAddr \in SUBSET Addr
    BY DEF SlotAddr
  <1>3. QED
    BY <1>1, <1>2, FS_Subset, FS_CardinalityType

\* The walk starts at address 0 and takes one link at a time.
LEMMA WalkStep ==
  ASSUME NEW m
  PROVE  /\ Walk(m) = [n \in Links |-> Walk(m)[n]]
         /\ Walk(m)[0] = 0
         /\ \A n \in Links : n # 0 => /\ n - 1 \in Links
                                      /\ Walk(m)[n] = After(m, Walk(m)[n - 1])
  <1> DEFINE N == Cardinality(SlotAddr) + 1
             at == CHOOSE f : f = [n \in Links |-> IF n = 0 THEN 0 ELSE After(m, f[n - 1])]
  <1>1. N \in Nat /\ Links = 0 .. N
    BY SlotsFinite DEF Links
  <1> HIDE DEF N
  <1>2. \E f : f = [n \in Links |-> IF n = 0 THEN 0 ELSE After(m, f[n - 1])]
    <2>1. \E f : f = [n \in 0 .. N |-> IF n = 0 THEN 0 ELSE After(m, f[n - 1])]
      BY <1>1, WalkExists
    <2>2. QED
      BY <1>1, <2>1, Zenon
  <1>3. at = [n \in Links |-> IF n = 0 THEN 0 ELSE After(m, at[n - 1])]
    BY <1>2, Zenon
  <1>4. Walk(m) = [n \in Links |-> at[n]]
    BY Zenon DEF Walk, After
  <1> HIDE DEF at
  <1>5. \A n \in Links : /\ Walk(m)[n] = at[n]
                         /\ at[n] = IF n = 0 THEN 0 ELSE After(m, at[n - 1])
    BY <1>3, <1>4, Zenon
  <1>6. 0 \in Links /\ \A n \in Links : n # 0 => n - 1 \in Links
    BY <1>1
  <1>7. Walk(m) = [n \in Links |-> Walk(m)[n]]
    BY <1>4
  <1>8. QED
    BY <1>5, <1>6, <1>7
----------------------------------------------------------------------------
(***************************************************************************)
(* The walk on a linked list                                               *)
(***************************************************************************)

\* The list starts at address 0.
LEMMA FirstSlot == 0 \in SlotAddr
  BY StorageSize, StorageAssumption DEF SlotAddr, Addr, EntryWords

\* From a slot of the list the walk goes on to the next higher slot, and stops
\* behind the last one.
LEMMA AfterSlot ==
  ASSUME NEW m, NEW last, Linked(m, last), NEW a \in UpTo(last)
  PROVE  /\ a \in Nat /\ last \in Nat /\ a # Stop
         /\ a = last => After(m, a) = Stop
         /\ a # last => /\ After(m, a) = NextAddress(a)
                        /\ NextAddress(a) \in UpTo(last)
                        /\ a < NextAddress(a)
                        /\ \A b \in SlotAddr : a < b => NextAddress(a) <= b
  <1>1. /\ a \in SlotAddr /\ a <= last /\ last \in SlotAddr
        /\ a \in Nat /\ last \in Nat
    BY SlotInChip DEF UpTo, Linked
  <1>2. a # Stop
    BY <1>1 DEF Stop
  <1>3. InBuffer(a)
    BY <1>1 DEF InBuffer, SlotAddr
  <1>4. CASE a = last
    <2>1. NextNode(m, a) = 0
      BY <1>1, <1>4 DEF Linked
    <2>2. QED
      BY <1>1, <1>2, <1>4, <2>1 DEF After
  <1>5. CASE a # last
    <2>1. a < last /\ NextNode(m, a) = NextAddress(a)
      BY <1>1, <1>5 DEF Linked
    <2>2. a + 2 * EntryWords <= 2 * PageWords
      <3>1. a + EntryWords <= last
        BY <1>1, <2>1, SlotsApart
      <3>2. QED
        BY <1>1, <3>1, StorageAssumption DEF Linked, EntryWords
    <2>3. /\ NextAddress(a) \in SlotAddr /\ a < NextAddress(a)
          /\ \A b \in SlotAddr : a < b => NextAddress(a) <= b
      BY <1>1, <2>2, NextIsAdjacent
    <2>4. NextAddress(a) \in Nat /\ NextAddress(a) <= last
      BY <1>1, <2>1, <2>3, SlotInChip
    <2>5. After(m, a) = NextAddress(a)
      BY <1>1, <1>2, <1>3, <2>1, <2>3, <2>4 DEF After
    <2>6. QED
      BY <1>1, <1>2, <1>5, <2>3, <2>4, <2>5 DEF UpTo
  <1>6. QED
    BY <1>4, <1>5

\* The walk never leaves the list.
LEMMA WalkStays ==
  ASSUME NEW m, NEW last, Linked(m, last)
  PROVE  \A n \in Links : Walk(m)[n] \in UpTo(last) \cup {Stop}
  <1> DEFINE T == {n \in Links : Walk(m)[n] \notin UpTo(last) \cup {Stop}}
  <1>1. SUFFICES ASSUME T # {}
                 PROVE  FALSE
    OBVIOUS
  <1>2. T \subseteq Nat
    BY SlotsFinite DEF Links
  <1>3. PICK n \in T : \A k \in T : n <= k
    BY <1>1, <1>2, LeastNat
  <1>4. CASE n = 0
    <2>1. 0 \in UpTo(last)
      BY FirstSlot, SlotInChip DEF UpTo, Linked
    <2>2. QED
      BY <1>3, <1>4, <2>1, WalkStep
  <1>5. CASE n # 0
    <2>1. n \in Links /\ n - 1 \in Links /\ Walk(m)[n] = After(m, Walk(m)[n - 1])
      BY <1>3, <1>5, WalkStep
    <2>2. n - 1 \notin T
      BY <1>2, <1>3, <2>1
    <2>3. Walk(m)[n - 1] \in UpTo(last) \/ Walk(m)[n - 1] = Stop
      BY <2>1, <2>2
    <2>4. CASE Walk(m)[n - 1] = Stop
      BY <1>3, <2>1, <2>4 DEF After
    <2>5. CASE Walk(m)[n - 1] \in UpTo(last)
      BY <1>3, <2>1, <2>5, AfterSlot
    <2>6. QED
      BY <2>3, <2>4, <2>5
  <1>6. QED
    BY <1>4, <1>5

\* The walk only goes up: what it met before lies below.
LEMMA WalkClimbs ==
  ASSUME NEW m, NEW last, Linked(m, last)
  PROVE  \A n \in Links : Walk(m)[n] # Stop =>
            \A k \in Links : k < n => Walk(m)[k] # Stop /\ Walk(m)[k] < Walk(m)[n]
  <1> DEFINE w == Walk(m)
             Climbs(n) == w[n] # Stop =>
                            \A k \in Links : k < n => w[k] # Stop /\ w[k] < w[n]
             T == {n \in Links : ~Climbs(n)}
  <1>1. SUFFICES ASSUME T # {}
                 PROVE  FALSE
    BY DEF UpTo
  <1>2. Links \subseteq Nat
    BY SlotsFinite DEF Links
  <1>3. PICK n \in T : \A k \in T : n <= k
    BY <1>1, <1>2, LeastNat
  <1>4. \A k \in Links : w[k] \in UpTo(last) \cup {Stop}
    BY WalkStays
  <1>5. \A k \in Links : w[k] # Stop => w[k] \in Nat
    BY <1>4, AfterSlot
  <1>6. \A k \in Links : k # 0 => k - 1 \in Links /\ w[k] = After(m, w[k - 1])
    BY WalkStep
  <1> HIDE DEF w
  <1>7. n \in Links /\ n \in Nat /\ w[n] # Stop
    BY <1>2, <1>3
  <1>8. PICK k \in Links : k < n /\ ~(w[k] # Stop /\ w[k] < w[n])
    BY <1>3
  <1>9. /\ n - 1 \in Links /\ w[n] = After(m, w[n - 1]) /\ n - 1 \in Nat
    BY <1>2, <1>6, <1>7, <1>8
  <1>10. w[n - 1] # Stop /\ w[n - 1] < w[n]
    <2>1. w[n - 1] # Stop
      BY <1>7, <1>9 DEF After
    <2>2. w[n - 1] \in UpTo(last)
      BY <1>4, <1>9, <2>1
    <2>3. QED
      BY <1>7, <1>9, <2>1, <2>2, AfterSlot
  <1>11. Climbs(n - 1)
    BY <1>3, <1>7, <1>9
  <1>12. k # n - 1
    BY <1>8, <1>10
  <1>13. k < n - 1
    BY <1>2, <1>7, <1>8, <1>12
  <1>14. w[k] # Stop /\ w[k] < w[n - 1]
    BY <1>10, <1>11, <1>13
  <1>15. w[k] < w[n]
    BY <1>5, <1>7, <1>9, <1>10, <1>14
  <1>16. QED
    BY <1>8, <1>14, <1>15

\* The walk ends: there are more links than slots to go through.
LEMMA WalkEnds ==
  ASSUME NEW m, NEW last, Linked(m, last)
  PROVE  \E n \in Links : Walk(m)[n] = Stop
  <1> SUFFICES ASSUME \A n \in Links : Walk(m)[n] # Stop
               PROVE  FALSE
    OBVIOUS
  <1>1. \A n \in Links : Walk(m)[n] \in SlotAddr
    BY WalkStays DEF UpTo
  <1>2. Walk(m) \in [Links -> SlotAddr]
    BY <1>1, WalkStep
  <1>3. IsFiniteSet(Links) /\ Cardinality(SlotAddr) < Cardinality(Links)
    BY SlotsFinite, FS_Interval DEF Links
  <1>4. PICK j, n \in Links : j # n /\ Walk(m)[j] = Walk(m)[n]
    BY <1>2, <1>3, SlotsFinite, FS_PigeonHole
  <1>5. Walk(m)[j] \in Nat /\ j \in Nat /\ n \in Nat
    BY <1>1, <1>4, SlotInChip, SlotsFinite DEF Links
  <1>6. j < n \/ n < j
    BY <1>4, <1>5
  <1>7. QED
    BY <1>4, <1>5, <1>6, WalkClimbs

\* The walk meets exactly the slots of the list.
LEMMA ChainOfList ==
  ASSUME NEW m, NEW last, Linked(m, last)
  PROVE  OnChain(m) = UpTo(last)
  <1>1. OnChain(m) = {Walk(m)[n] : n \in Links} \ {Stop}
    BY DEF OnChain
  <1>2. OnChain(m) \subseteq UpTo(last)
    BY <1>1, WalkStays
  <1>3. ASSUME NEW a \in UpTo(last), a \notin OnChain(m)
        PROVE  FALSE
    <2> DEFINE w == Walk(m)
               Below(n) == w[n] \in UpTo(last) /\ w[n] < a
               T == {n \in Links : ~Below(n)}
    <2>1. a \in SlotAddr /\ a \in Nat /\ a <= last /\ last \in Nat /\ a # Stop
      BY AfterSlot DEF UpTo
    <2>2. \A n \in Links : w[n] # a
      <3> SUFFICES ASSUME NEW n \in Links, w[n] = a
                   PROVE  a \in OnChain(m)
        BY <1>3
      <3>1. QED
        BY <1>1, <2>1
    <2>3. T # {}
      <3>1. PICK n \in Links : w[n] = Stop
        BY WalkEnds
      <3>2. Stop \notin UpTo(last)
        BY AfterSlot
      <3>3. QED
        BY <3>1, <3>2
    <2>4. T \subseteq Nat
      BY SlotsFinite DEF Links
    <2>5. PICK n \in T : \A k \in T : n <= k
      BY <2>3, <2>4, LeastNat
    <2>6. w[0] = 0 /\ \A k \in Links : k # 0 => /\ k - 1 \in Links
                                                /\ w[k] = After(m, w[k - 1])
      BY WalkStep
    <2>7. 0 \in UpTo(last)
      BY <2>1, FirstSlot DEF UpTo
    <2> HIDE DEF w
    <2>8. n # 0
      BY <2>1, <2>2, <2>5, <2>6, <2>7
    <2>9. n \in Links /\ n - 1 \in Links /\ w[n] = After(m, w[n - 1]) /\ Below(n - 1)
      <3>1. n \in Links /\ n \in Nat /\ n - 1 \in Links /\ w[n] = After(m, w[n - 1])
        BY <2>4, <2>5, <2>6, <2>8
      <3>2. n - 1 \notin T
        BY <2>4, <2>5, <3>1
      <3>3. QED
        BY <3>1, <3>2
    <2> DEFINE b == w[n - 1]
    <2>10. b \in UpTo(last) /\ b < a /\ b # last /\ b \in Nat
      <3>1. b \in UpTo(last) /\ b < a
        BY <2>9
      <3>2. b \in Nat
        BY <3>1, AfterSlot
      <3>3. QED
        BY <2>1, <3>1, <3>2
    <2>11. w[n] \in UpTo(last) /\ w[n] <= a
      BY <2>1, <2>9, <2>10, AfterSlot
    <2>12. w[n] \in Nat
      BY <2>11, AfterSlot
    <2>13. Below(n)
      BY <2>1, <2>2, <2>9, <2>11, <2>12
    <2>14. QED
      BY <2>5, <2>13
  <1>4. QED
    BY <1>2, <1>3
----------------------------------------------------------------------------
(***************************************************************************)
(* The records of the list                                                 *)
(***************************************************************************)

\* The slots of the records get_all_nodes() returns from that list.
Held(m, last) == {a \in UpTo(last) : ~Deleted(m, a)}

\* get_all_nodes() returns the undeleted slots of the list.
LEMMA RecordsOfList ==
  ASSUME NEW m, NEW last, Linked(m, last)
  PROVE  get_all_nodes(m) = [a \in Held(m, last) |-> EntryAt(m, a)]
  <1>1. \A a \in UpTo(last) : InBuffer(a)
    BY DEF UpTo, InBuffer, SlotAddr
  <1>2. {a \in OnChain(m) : InBuffer(a) /\ ~Deleted(m, a)} = Held(m, last)
    BY <1>1, ChainOfList DEF Held
  <1>3. QED
    BY <1>2, Zenon DEF get_all_nodes

\* Two halves of one record decode to that record.
LEMMA WholeRecord ==
  ASSUME NEW m, NEW a, NEW e \in Data, m[a] = Lo(e), m[a + 1] = Hi(e)
  PROVE  EntryAt(m, a) = e
  <1>1. \A d \in Data : Lo(d) = Lo(e) => d = e
    BY DEF Lo
  <1>2. QED
    BY <1>1 DEF EntryAt

\* A slot decodes from its own words alone.
LEMMA SameWords ==
  ASSUME NEW m, NEW w, NEW a, w[a] = m[a], w[a + 1] = m[a + 1]
  PROVE  EntryAt(w, a) = EntryAt(m, a)
  BY Zenon DEF EntryAt

\* The list of ListShape is linked.
LEMMA ShapeLinked ==
  ASSUME NEW last, ListShape(last)
  PROVE  Linked(mem, last)
  BY DEF ListShape, Linked
----------------------------------------------------------------------------
(***************************************************************************)
(* The walk of every reachable state                                       *)
(***************************************************************************)

\* A record whose insertion was acknowledged is returned by get_all_nodes(),
\* unchanged and under its own address, until it is deleted, whatever the other
\* insertions and deletions do and wherever a bus error or a power cut interrupts
\* them.
THEOREM AckedStaysListed ==
  ASSUME ~Erased, TwoPages
  PROVE  Spec => []AckedListed
  <1>1. IInv => AckedListed
    <2> SUFFICES ASSUME IInv, NEW r \in acked
                 PROVE  /\ r[1] \in DOMAIN get_all_nodes(mem)
                        /\ get_all_nodes(mem)[r[1]] = r[2]
      BY DEF AckedListed
    <2>1. PICK last \in SlotAddr : ListShape(last)
      BY DEF IInv
    <2>2. get_all_nodes(mem) = [a \in Held(mem, last) |-> EntryAt(mem, a)]
      BY <2>1, RecordsOfList, ShapeLinked
    <2>3. r[1] \in SlotAddr /\ r[2] \in Data
      BY DEF IInv, TypeOK, Data
    <2>4. /\ r[1] <= last /\ ~Deleted(mem, r[1])
          /\ mem[r[1]] = Lo(r[2]) /\ mem[r[1] + 1] = Hi(r[2])
      BY <2>1 DEF ListShape
    <2>5. r[1] \in Held(mem, last)
      BY <2>3, <2>4 DEF Held, UpTo
    <2>6. EntryAt(mem, r[1]) = r[2]
      BY <2>3, <2>4, WholeRecord
    <2>7. QED
      BY <2>2, <2>5, <2>6
  <1>2. QED
    BY <1>1, Inductive, PTL

\* get_all_nodes() and cache() never read past their page buffer and never loop:
\* the walk along next_node only meets whole slots, and it ends.
THEOREM ChainStaysSound ==
  ASSUME ~Erased, TwoPages
  PROVE  Spec => []ChainSound
  <1>1. IInv => ChainSound
    <2> SUFFICES ASSUME IInv
                 PROVE  /\ \A a \in OnChain(mem) : InBuffer(a)
                        /\ \E n \in Links : Walk(mem)[n] = Stop
      BY DEF ChainSound
    <2>1. PICK last \in SlotAddr : ListShape(last)
      BY DEF IInv
    <2>2. Linked(mem, last)
      BY <2>1, ShapeLinked
    <2>3. \A a \in OnChain(mem) : InBuffer(a)
      BY <2>2, ChainOfList DEF UpTo, InBuffer, SlotAddr
    <2>4. QED
      BY <2>2, <2>3, WalkEnds
  <1>2. QED
    BY <1>1, Inductive, PTL

\* The scan of insert_node() goes past every slot in use: it comes to the last
\* one only when none of the list is deleted.
LEMMA AppendsWhenFull ==
  ASSUME NEW last, ListShape(last), last \in Stops(mem), ~Deleted(mem, last),
         \A b \in Stops(mem) : last <= b
  PROVE  \A b \in UpTo(last) : ~Deleted(mem, b)
  <1> SUFFICES ASSUME NEW b \in UpTo(last), Deleted(mem, b)
               PROVE  FALSE
    OBVIOUS
  <1>1. b \in Stops(mem) /\ b <= last /\ b \in Nat /\ last \in Nat
    BY SlotInChip DEF UpTo, Stops, ListShape
  <1>2. b = last
    BY <1>1
  <1>3. QED
    BY <1>2

\* No space is lost: insert_node() makes the chain longer only when every record
\* of the chain is in use, so a deletion always pays for an insertion.
THEOREM GrowsOnlyWhenFull ==
  ASSUME ~Erased, TwoPages
  PROVE  Spec => GrowOnlyWhenFull
  <1>1. IInv /\ [Next]_vars =>
           [OnChain(mem)' # OnChain(mem) => \A a \in OnChain(mem) : ~Deleted(mem, a)]_vars
    <2> SUFFICES ASSUME IInv, Next, OnChain(mem') # OnChain(mem)
                 PROVE  \A a \in OnChain(mem) : ~Deleted(mem, a)
      BY DEF vars
    <2>1. PICK last \in SlotAddr : ListShape(last)
      BY DEF IInv
    <2>2. TypeOK /\ OnChain(mem) = UpTo(last)
      BY <2>1, ShapeLinked, ChainOfList DEF IInv
    <2>3. ASSUME ListShape(last)'
          PROVE  FALSE
      <3>1. Linked(mem', last)
        BY <2>3 DEF ListShape, Linked
      <3>2. QED
        BY <2>2, <3>1, ChainOfList
    <2>4. ASSUME NEW e \in Entry, insert_node(e)
          PROVE  \A a \in OnChain(mem) : ~Deleted(mem, a)
      <3>1. PICK a \in Stops(mem) : /\ \A b \in Stops(mem) : a <= b
                                    /\ ReuseSlot(a, e) \/ AppendSlot(a, e)
        BY <2>4 DEF insert_node
      <3>2. a \in SlotAddr /\ a <= last /\ (~Deleted(mem, a) => a = last)
        BY <2>1, <2>2, <3>1, FirstStop
      <3>3. ~ReuseSlot(a, e)
        BY <2>1, <2>2, <2>3, <3>2, ReuseIInv
      <3>4. a = last /\ ~Deleted(mem, last)
        BY <3>1, <3>2, <3>3 DEF AppendSlot
      <3>5. QED
        BY <2>1, <2>2, <3>1, <3>4, AppendsWhenFull
    <2>5. ASSUME NEW a \in SlotAddr, delete_node(a)
          PROVE  FALSE
      BY <2>1, <2>2, <2>3, <2>5, DeleteIInv
    <2>6. QED
      BY <2>4, <2>5 DEF Next
  <1>2. QED
    BY <1>1, Inductive, PTL DEF Spec, GrowOnlyWhenFull
----------------------------------------------------------------------------
(***************************************************************************)
(* The list implements the record store                                    *)
(***************************************************************************)

\* Behind the last slot of the list nothing was ever written but a deleted flag,
\* so that an insertion cut short shows a blank record and no old one.
Unwritten(last) ==
    \A a \in SlotAddr : a > last => mem[a] = Lo(BlankEntry) /\ mem[a + 1] = Hi(BlankEntry)

ListInv == TypeOK /\ \E last \in SlotAddr : ListShape(last) /\ Unwritten(last)

\* One operation as the store sees it.
StoreStep == Records!Next \/ get_all_nodes(mem') = get_all_nodes(mem)

\* Writing over a deleted record adds one record to the store.
LEMMA ReuseRefines ==
  ASSUME TypeOK, NEW last \in SlotAddr, ListShape(last), Unwritten(last),
         NEW a \in SlotAddr, a <= last, NEW e \in Entry, ReuseSlot(a, e)
  PROVE  Unwritten(last)' /\ StoreStep
  <1>1. CASE mem' = mem
    BY <1>1 DEF Unwritten, StoreStep
  <1>2. CASE /\ mem'[a] = Lo(e) /\ mem'[a + 1] = Hi(e)
             /\ NextNode(mem', a) = NextNode(mem, a) /\ ~Deleted(mem', a)
             /\ \A b \in SlotAddr \ {a} : SlotKept(b)
    <2>1. a \in Nat /\ last \in Nat
      BY SlotInChip
    <2>2. Unwritten(last)'
      BY <1>2, <2>1 DEF Unwritten, SlotKept
    <2>3. Linked(mem, last) /\ Linked(mem', last)
      BY ReuseIInv DEF ListShape, Linked
    <2>4. /\ get_all_nodes(mem) = [b \in Held(mem, last) |-> EntryAt(mem, b)]
          /\ get_all_nodes(mem') = [b \in Held(mem', last) |-> EntryAt(mem', b)]
      BY <2>3, RecordsOfList
    <2>5. a \notin Held(mem, last) /\ Held(mem', last) = Held(mem, last) \cup {a}
      <3>1. Deleted(mem, a)
        BY DEF ReuseSlot
      <3>2. \A b \in SlotAddr \ {a} : Deleted(mem', b) <=> Deleted(mem, b)
        BY <1>2 DEF SlotKept, Deleted
      <3>3. QED
        BY <1>2, <3>1, <3>2 DEF Held, UpTo
    <2>6. EntryAt(mem', a) = e
      BY <1>2, WholeRecord DEF Data
    <2>7. \A b \in Held(mem, last) : EntryAt(mem', b) = EntryAt(mem, b)
      BY <1>2, <2>5, SameWords DEF SlotKept, Held, UpTo
    <2>8. Records!Add(a, e)
      BY <2>4, <2>5, <2>6, <2>7 DEF Records!Add
    <2>9. QED
      BY <2>2, <2>8 DEF StoreStep, Records!Next
  <1>3. QED
    BY <1>1, <1>2, ReuseEffect

\* Setting the flag removes one record from the store, or none when the slot is
\* not one of the list.
LEMMA DeleteRefines ==
  ASSUME TypeOK, NEW last \in SlotAddr, ListShape(last), Unwritten(last),
         NEW a \in SlotAddr, delete_node(a)
  PROVE  Unwritten(last)' /\ StoreStep
  <1>1. /\ mem'[a] = mem[a] /\ mem'[a + 1] = mem[a + 1]
        /\ Deleted(mem', a) /\ ~Deleted(mem, a)
        /\ \A b \in SlotAddr \ {a} : SlotKept(b)
    BY DeleteEffect DEF delete_node
  <1>2. Unwritten(last)'
    BY <1>1 DEF Unwritten, SlotKept
  <1>3. Linked(mem, last) /\ Linked(mem', last)
    BY DeleteIInv DEF ListShape, Linked
  <1>4. /\ get_all_nodes(mem) = [b \in Held(mem, last) |-> EntryAt(mem, b)]
        /\ get_all_nodes(mem') = [b \in Held(mem', last) |-> EntryAt(mem', b)]
    BY <1>3, RecordsOfList
  <1>5. Held(mem', last) = Held(mem, last) \ {a}
    <2>1. \A b \in SlotAddr \ {a} : Deleted(mem', b) <=> Deleted(mem, b)
      BY <1>1 DEF SlotKept, Deleted
    <2>2. QED
      BY <1>1, <2>1 DEF Held, UpTo
  <1>6. \A b \in Held(mem, last) \ {a} : EntryAt(mem', b) = EntryAt(mem, b)
    BY <1>1, SameWords DEF SlotKept, Held, UpTo
  <1>7. CASE a \in Held(mem, last)
    <2>1. Records!Remove(a)
      BY <1>4, <1>5, <1>6, <1>7 DEF Records!Remove
    <2>2. QED
      BY <1>2, <2>1 DEF StoreStep, Records!Next
  <1>8. CASE a \notin Held(mem, last)
    <2>1. get_all_nodes(mem') = get_all_nodes(mem)
      BY <1>4, <1>5, <1>6, <1>8
    <2>2. QED
      BY <1>2, <2>1 DEF StoreStep
  <1>9. QED
    BY <1>7, <1>8

\* Appending adds one record, the new one or, cut short, a blank one.
LEMMA AppendRefines ==
  ASSUME TwoPages, TypeOK, NEW last \in SlotAddr, ListShape(last), Unwritten(last),
         NEW e \in Entry, AppendSlot(last, e)
  PROVE  Unwritten(NextAddress(last))' /\ StoreStep
  <1> DEFINE b == NextAddress(last)
  <1>1. /\ b \in SlotAddr /\ last < b
        /\ \A c \in SlotAddr : last < c => b <= c
        /\ mem'[last] = mem[last] /\ mem'[last + 1] = mem[last + 1]
        /\ ~Deleted(mem', last)
        /\ \A c \in SlotAddr \ {last, b} : SlotKept(c)
        /\ \/ SlotKept(b)
           \/ mem'[b] = Lo(e) /\ mem'[b + 1] = Hi(e) /\ ~Deleted(mem', b)
    BY AppendEffect
  <1>2. Linked(mem, last) /\ Linked(mem', b)
    BY AppendIInv DEF ListShape, Linked
  <1>3. /\ last \in Nat /\ b \in Nat /\ b # last /\ ~Deleted(mem, last)
        /\ mem[b] = Lo(BlankEntry) /\ mem[b + 1] = Hi(BlankEntry)
    BY <1>1, SlotInChip DEF Unwritten, AppendSlot
  <1>b. NextAddress(last) = b
    OBVIOUS
  <1> HIDE DEF b
  <1>4. Unwritten(b)'
    <2> SUFFICES ASSUME NEW c \in SlotAddr, c > b
                 PROVE  mem'[c] = Lo(BlankEntry) /\ mem'[c + 1] = Hi(BlankEntry)
      BY DEF Unwritten
    <2>1. c \in Nat /\ c > last /\ c # b /\ c # last
      BY <1>1, <1>3, SlotInChip
    <2>2. QED
      BY <1>1, <2>1 DEF Unwritten, SlotKept
  <1>5. /\ get_all_nodes(mem) = [c \in Held(mem, last) |-> EntryAt(mem, c)]
        /\ get_all_nodes(mem') = [c \in Held(mem', b) |-> EntryAt(mem', c)]
    BY <1>2, RecordsOfList
  <1>6. UpTo(b) = UpTo(last) \cup {b} /\ b \notin UpTo(last)
    <2>1. \A c \in SlotAddr : c \in Nat
      BY SlotInChip
    <2>2. \A c \in SlotAddr : c <= b <=> c <= last \/ c = b
      BY <1>1, <1>3, <2>1
    <2>3. b \notin UpTo(last)
      BY <1>1, <1>3 DEF UpTo
    <2>4. \A c : c \in UpTo(b) <=> c \in UpTo(last) \cup {b}
      BY <1>1, <2>2 DEF UpTo
    <2>5. QED
      BY <2>3, <2>4
  <1>7. \A c \in UpTo(last) : /\ Deleted(mem', c) <=> Deleted(mem, c)
                              /\ EntryAt(mem', c) = EntryAt(mem, c)
    <2> TAKE c \in UpTo(last)
    <2>1. CASE c = last
      BY <1>1, <1>3, <2>1, SameWords
    <2>2. CASE c # last
      <3>1. SlotKept(c)
        BY <1>1, <1>6, <2>2 DEF UpTo
      <3>2. QED
        BY <3>1, SameWords DEF SlotKept, Deleted
    <2>3. QED
      BY <2>1, <2>2
  <1>8. /\ b \notin Held(mem, last)
        /\ Held(mem', b) = IF Deleted(mem', b) THEN Held(mem, last)
                           ELSE Held(mem, last) \cup {b}
        /\ \A c \in Held(mem, last) : EntryAt(mem', c) = EntryAt(mem, c)
    BY <1>6, <1>7 DEF Held
  <1>9. CASE Deleted(mem', b)
    <2>1. get_all_nodes(mem') = get_all_nodes(mem)
      BY <1>5, <1>8, <1>9
    <2>2. QED
      BY <1>4, <1>b, <2>1 DEF StoreStep
  <1>10. CASE ~Deleted(mem', b)
    <2>1. PICK d \in Entry \cup {BlankEntry} : mem'[b] = Lo(d) /\ mem'[b + 1] = Hi(d)
      BY <1>1, <1>3 DEF SlotKept
    <2>2. EntryAt(mem', b) = d
      BY <2>1, WholeRecord DEF Data
    <2>3. Records!Add(b, d)
      BY <1>5, <1>8, <1>10, <2>2 DEF Records!Add
    <2>4. QED
      BY <1>1, <1>4, <1>b, <2>3 DEF StoreStep, Records!Next
  <1>11. QED
    BY <1>9, <1>10

\* The blank first slot of a zeroed chip is the store's one record at first.
LEMMA InitRefines ==
  ASSUME Init, ~Erased
  PROVE  ListInv /\ Records!Init
  <1>1. TypeOK /\ 0 \in SlotAddr /\ ListShape(0)
    BY InitIInv
  <1>2. \A a \in SlotAddr : /\ mem[a] = Lo(BlankEntry) /\ mem[a + 1] = Hi(BlankEntry)
                            /\ ~Deleted(mem, a)
    BY InitWords
  <1>3. ListInv
    BY <1>1, <1>2 DEF ListInv, Unwritten
  <1>4. Held(mem, 0) = {0}
    BY <1>1, <1>2, SlotInChip DEF Held, UpTo
  <1>5. EntryAt(mem, 0) = BlankEntry
    BY <1>1, <1>2, WholeRecord DEF Data
  <1>6. get_all_nodes(mem) = [a \in {0} |-> BlankEntry]
    <2>1. get_all_nodes(mem) = [a \in {0} |-> EntryAt(mem, a)]
      BY <1>1, <1>4, RecordsOfList, ShapeLinked
    <2>2. QED
      BY <1>5, <2>1
  <1>7. QED
    BY <1>3, <1>6 DEF Records!Init

\* ListInv is inductive, and every step of the list is one of the store or
\* leaves it alone: one case per action of the specification.
LEMMA NextRefines ==
  ASSUME TwoPages, ListInv, [Next]_vars
  PROVE  ListInv' /\ StoreStep
  <1>1. TypeOK
    BY DEF ListInv
  <1>2. PICK last \in SlotAddr : ListShape(last) /\ Unwritten(last)
    BY DEF ListInv
  <1>3. ASSUME NEW e \in Entry, insert_node(e)
        PROVE  ListInv' /\ StoreStep
    <2>1. PICK a \in Stops(mem) : /\ \A b \in Stops(mem) : a <= b
                                  /\ ReuseSlot(a, e) \/ AppendSlot(a, e)
      BY <1>3 DEF insert_node
    <2>2. a \in SlotAddr /\ a <= last /\ (~Deleted(mem, a) => a = last)
      BY <1>1, <1>2, <2>1, FirstStop
    <2>3. CASE ReuseSlot(a, e)
      <3>1. TypeOK' /\ ListShape(last)'
        BY <1>1, <1>2, <2>2, <2>3, ReuseIInv
      <3>2. Unwritten(last)' /\ StoreStep
        BY <1>1, <1>2, <2>2, <2>3, ReuseRefines
      <3>3. QED
        BY <3>1, <3>2 DEF ListInv
    <2>4. CASE AppendSlot(a, e)
      <3>1. a = last
        BY <2>2, <2>4 DEF AppendSlot
      <3>2. TypeOK' /\ NextAddress(last) \in SlotAddr /\ ListShape(NextAddress(last))'
        BY <1>1, <1>2, <2>4, <3>1, AppendIInv
      <3>3. Unwritten(NextAddress(last))' /\ StoreStep
        BY <1>1, <1>2, <2>4, <3>1, AppendRefines
      <3>4. QED
        BY <3>2, <3>3 DEF ListInv
    <2>5. QED
      BY <2>1, <2>3, <2>4
  <1>4. ASSUME NEW a \in SlotAddr, delete_node(a)
        PROVE  ListInv' /\ StoreStep
    <2>1. TypeOK' /\ ListShape(last)'
      BY <1>1, <1>2, <1>4, DeleteIInv
    <2>2. Unwritten(last)' /\ StoreStep
      BY <1>1, <1>2, <1>4, DeleteRefines
    <2>3. QED
      BY <2>1, <2>2 DEF ListInv
  <1>5. CASE UNCHANGED vars
    <2>1. mem' = mem /\ acked' = acked
      BY <1>5 DEF vars
    <2>2. ListInv'
      BY <1>1, <1>2, <2>1 DEF ListInv, TypeOK, ListShape, Unwritten, NextNode, Deleted
    <2>3. QED
      BY <2>1, <2>2 DEF StoreStep
  <1>6. QED
    BY <1>3, <1>4, <1>5 DEF Next

\* insert_node() and delete_node() implement the store their callers rely on:
\* an insertion adds one record where there was none, a deletion removes the one
\* it names, an interruption leaves the records alone or shows one blank record
\* more, and no other record is ever disturbed.
THEOREM ImplementsStore ==
  ASSUME ~Erased, TwoPages
  PROVE  Spec => ImplementsRecordStore
  <1>1. Init => ListInv /\ Records!Init
    BY InitRefines
  <1>2. ListInv /\ [Next]_vars => ListInv' /\ [Records!Next]_(get_all_nodes(mem))
    BY NextRefines DEF StoreStep
  <1>3. QED
    BY <1>1, <1>2, PTL DEF Spec, ImplementsRecordStore, Records!Spec
=============================================================================
