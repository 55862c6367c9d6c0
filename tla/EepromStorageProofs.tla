------------------------ MODULE EepromStorageProofs ------------------------
(***************************************************************************)
(* What holds of the record list for every page size, chip size and set of *)
(* entries, as long as the chip came zeroed and the list stays within the  *)
(* first two pages (TwoPages): outside of that budget it does not hold,    *)
(* see the run eeprom_third_page.                                          *)
(***************************************************************************)
EXTENDS EepromStorage, TLAPS

\* A record appended behind LastAppend still ends inside the second page.
TwoPages == LastAppend + 2 * EntryWords <= 2 * PageWords

\* The shape of the list: up to its last slot every slot links to the slot
\* behind it, from there on no slot links anywhere, and an acknowledged record
\* lies in an undeleted slot of the list.
ListShape(last) ==
    /\ last \in SlotAddr
    /\ last + EntryWords <= 2 * PageWords
    /\ \A a \in SlotAddr : a < last => NextNode(mem, a) = NextAddress(a)
    /\ \A a \in SlotAddr : a >= last => NextNode(mem, a) = 0
    /\ \A r \in acked : /\ r[1] <= last
                        /\ ~Deleted(mem, r[1])
                        /\ mem[r[1]] = Lo(r[2]) /\ mem[r[1] + 1] = Hi(r[2])

IInv == TypeOK /\ \E last \in SlotAddr : ListShape(last)
----------------------------------------------------------------------------
(***************************************************************************)
(* Geometry                                                                *)
(***************************************************************************)

\* The chip is at least two pages long.
LEMMA StorageSize == Storage \in Nat /\ Storage >= 2 * PageWords
  BY StorageAssumption DEF Storage, EntryWords

\* An address is its page times the page size plus its place in the page.
LEMMA PageSplit ==
  ASSUME NEW a \in Nat
  PROVE  /\ a \div PageWords \in Nat
         /\ a % PageWords \in 0 .. PageWords - 1
         /\ a = PageWords * (a \div PageWords) + (a % PageWords)
  BY StorageAssumption DEF EntryWords

\* Within a page the place in the page counts the words.
LEMMA PlaceInPage ==
  ASSUME NEW a \in Nat, (a % PageWords) + 2 < PageWords
  PROVE  /\ (a + 1) % PageWords = (a % PageWords) + 1
         /\ (a + 2) % PageWords = (a % PageWords) + 2
  BY PageSplit, StorageAssumption, SMTT(30) DEF EntryWords

\* A page before another one ends before the other begins.
LEMMA PageOrder ==
  ASSUME NEW p \in Nat, NEW q \in Nat, p < q
  PROVE  PageWords * p + PageWords <= PageWords * q
  <1>1. PageWords * (q - p) >= PageWords * 1
    BY StorageAssumption DEF EntryWords
  <1>2. QED
    BY <1>1, StorageAssumption DEF EntryWords

\* A slot lies within the chip.
LEMMA SlotInChip ==
  ASSUME NEW a \in SlotAddr
  PROVE  a \in Nat /\ a + 2 < Storage
  <1>1. a \in Nat /\ a < PageWords * Pages /\ (a % PageWords) + EntryWords <= PageWords
    BY StorageSize DEF SlotAddr, Addr, Storage
  <1>2. a \div PageWords < Pages
    <2> SUFFICES ASSUME a \div PageWords >= Pages
                 PROVE  FALSE
      BY <1>1, PageSplit, StorageAssumption
    <2>1. PageWords * (a \div PageWords) >= PageWords * Pages
      BY <1>1, PageSplit, PageOrder, StorageAssumption DEF EntryWords
    <2>2. QED
      BY <1>1, <2>1, PageSplit, StorageAssumption DEF EntryWords
  <1>3. PageWords * (a \div PageWords) + PageWords <= PageWords * Pages
    BY <1>1, <1>2, PageSplit, PageOrder, StorageAssumption
  <1>4. QED
    BY <1>1, <1>3, PageSplit, StorageAssumption DEF EntryWords, Storage

\* Two slots do not overlap.
LEMMA SlotsApart ==
  ASSUME NEW a \in SlotAddr, NEW b \in SlotAddr, a < b
  PROVE  a + EntryWords <= b
  <1> DEFINE pa == a \div PageWords
             pb == b \div PageWords
             oa == a % PageWords
             ob == b % PageWords
  <1>1. /\ a \in Nat /\ oa % 3 = 0 /\ oa + 3 <= PageWords
        /\ b \in Nat /\ ob % 3 = 0 /\ ob + 3 <= PageWords
    BY SlotInChip DEF SlotAddr, EntryWords
  <1>2. /\ pa \in Nat /\ oa \in Nat /\ a = PageWords * pa + oa
        /\ pb \in Nat /\ ob \in Nat /\ b = PageWords * pb + ob
    BY <1>1, PageSplit
  <1> HIDE DEF pa, pb, oa, ob
  <1>3. CASE pa = pb
    BY <1>1, <1>2, <1>3, StorageAssumption DEF EntryWords
  <1>4. CASE pa < pb
    <2>1. PageWords * pa + PageWords <= PageWords * pb
      BY <1>2, <1>4, PageOrder
    <2>2. QED
      BY <1>1, <1>2, <2>1, StorageAssumption DEF EntryWords
  <1>5. CASE pb < pa
    <2>1. PageWords * pb + PageWords <= PageWords * pa
      BY <1>2, <1>5, PageOrder
    <2>2. QED
      BY <1>1, <1>2, <2>1, StorageAssumption DEF EntryWords
  <1>6. QED
    BY <1>2, <1>3, <1>4, <1>5

\* The slot behind the last but one within the first two pages.
LEMMA NextIsAdjacent ==
  ASSUME NEW a \in SlotAddr, a + 2 * EntryWords <= 2 * PageWords
  PROVE  /\ NextAddress(a) \in SlotAddr
         /\ a < NextAddress(a)
         /\ NextAddress(a) + EntryWords <= 2 * PageWords
         /\ \A b \in SlotAddr : a < b => NextAddress(a) <= b
  <1> DEFINE n == a + 3
  <1>1. /\ a \in Nat /\ (a % PageWords) % 3 = 0 /\ (a % PageWords) + 3 <= PageWords
        /\ PageWords \in Nat /\ PageWords >= 3
        /\ a + 6 <= 2 * PageWords
    BY SlotInChip, StorageAssumption DEF SlotAddr, EntryWords
  <1>2. \A b \in SlotAddr : /\ b \in Nat
                            /\ a < b => n <= b
                            /\ (b % PageWords) + 3 <= PageWords
    BY SlotInChip, SlotsApart DEF EntryWords, SlotAddr
  <1>3. CASE a < PageWords /\ PageWords - n < 3
    <2>1. a % PageWords = a /\ a \div PageWords = 0 /\ n <= PageWords
      BY <1>1, <1>3
    <2>2. NextAddress(a) = PageWords
      BY <2>1, <1>3, <1>1 DEF NextAddress, EntryWords
    <2>3. PageWords \in SlotAddr
      BY <1>1, StorageSize DEF SlotAddr, Addr, EntryWords
    <2>4. ASSUME NEW b \in SlotAddr, a < b, b < PageWords
          PROVE  FALSE
      <3>1. b % PageWords = b
        BY <1>2, <2>4, <1>1
      <3>2. QED
        BY <3>1, <1>2, <2>4, <1>3, <1>1
    <2>5. QED
      BY <1>1, <1>2, <1>3, <2>2, <2>3, <2>4 DEF EntryWords
  <1>4. CASE ~(a < PageWords /\ PageWords - n < 3)
    <2>1. NextAddress(a) = n
      <3>1. CASE a < PageWords
        BY <1>1, <1>4, <3>1 DEF NextAddress, EntryWords
      <3>2. CASE a >= PageWords
        BY <1>1, <3>2 DEF NextAddress, EntryWords
      <3>3. QED
        BY <1>1, <3>1, <3>2
    <2>2. n % PageWords = (a % PageWords) + 3 /\ (n % PageWords) + 3 <= PageWords
      <3>1. CASE a < PageWords
        BY <1>1, <1>4, <3>1
      <3>2. CASE a >= PageWords
        <4>1. a % PageWords = a - PageWords
          BY <1>1, <3>2
        <4>2. n % PageWords = n - PageWords
          BY <1>1, <3>2
        <4>3. QED
          BY <4>1, <4>2, <1>1, <3>2
      <3>3. QED
        BY <1>1, <3>1, <3>2
    <2>3. (n % PageWords) % 3 = 0
      BY <2>2, <1>1
    <2>4. n \in SlotAddr
      BY <1>1, <2>2, <2>3, StorageSize DEF SlotAddr, Addr, EntryWords
    <2>5. QED
      BY <1>1, <1>2, <2>1, <2>4 DEF EntryWords
  <1>5. QED
    BY <1>3, <1>4
----------------------------------------------------------------------------
(***************************************************************************)
(* What a write does to the slots                                          *)
(***************************************************************************)

\* A record that lies in one page is written whole or not at all.
LEMMA SlotProgress ==
  ASSUME NEW a \in SlotAddr
  PROVE  Progress(a) = {0, EntryWords}
  BY StorageAssumption, SlotInChip DEF Progress, SlotAddr, EntryWords

\* The words a write of n words at slot a reaches.
LEMMA WrittenOffsets ==
  ASSUME NEW a \in SlotAddr, NEW x \in Addr
  PROVE  /\ (x - a) % Storage \in Nat
         /\ x \in a .. a + 2 => (x - a) % Storage = x - a
         /\ x \notin a .. a + 2 => (x - a) % Storage >= EntryWords
  <1>1. a \in Nat /\ x \in Nat /\ a + 2 < Storage /\ x < Storage /\ Storage \in Nat
    BY SlotInChip, StorageSize DEF Addr
  <1>2. CASE x >= a
    BY <1>1, <1>2 DEF EntryWords
  <1>3. CASE x < a
    <2>1. (x - a) % Storage = x - a + Storage
      BY <1>1, <1>3
    <2>2. QED
      BY <1>1, <1>3, <2>1 DEF EntryWords
  <1>4. QED
    BY <1>1, <1>2, <1>3

\* A write of no words changes nothing.
LEMMA WrittenNothing ==
  ASSUME NEW m, WellFormed(m), NEW a \in SlotAddr, NEW ws
  PROVE  Written(m, a, ws, 0) = m
  <1>1. \A x \in Addr : (x - a) % Storage \in Nat
    BY WrittenOffsets
  <1>2. QED
    BY <1>1 DEF Written, WellFormed

\* Writing a record replaces the words of its slot and no others.
LEMMA WrittenRecord ==
  ASSUME NEW m, WellFormed(m), NEW a \in SlotAddr,
         NEW ws, ws[1] \in HalfWord, ws[2] \in HalfWord, ws[3] \in LinkWord,
         NEW w, w = Written(m, a, ws, EntryWords)
  PROVE  /\ WellFormed(w)
         /\ w[a] = ws[1] /\ w[a + 1] = ws[2] /\ w[a + 2] = ws[3]
         /\ \A b \in SlotAddr \ {a} :
               w[b] = m[b] /\ w[b + 1] = m[b + 1] /\ w[b + 2] = m[b + 2]
  <1> DEFINE off == [x \in Addr |-> (x - a) % Storage]
  <1>1. w = [x \in Addr |-> IF off[x] < 3 THEN ws[off[x] + 1] ELSE m[x]]
    BY DEF Written, EntryWords
  <1>2. \A x \in Addr : /\ off[x] \in Nat
                        /\ x \in a .. a + 2 => off[x] = x - a
                        /\ x \notin a .. a + 2 => off[x] >= 3
    BY WrittenOffsets DEF EntryWords
  <1>3. /\ a \in Nat /\ a + 2 < Storage /\ Storage \in Nat
        /\ a \in Addr /\ a + 1 \in Addr /\ a + 2 \in Addr
    BY SlotInChip, StorageSize DEF Addr
  <1> HIDE DEF off
  <1>4. w[a] = ws[1] /\ w[a + 1] = ws[2] /\ w[a + 2] = ws[3]
    <2>1. off[a] = 0 /\ off[a + 1] = 1 /\ off[a + 2] = 2
      BY <1>2, <1>3
    <2>2. QED
      BY <1>1, <1>3, <2>1
  <1>5. \A x \in Addr : x \notin a .. a + 2 => w[x] = m[x]
    BY <1>1, <1>2
  <1>6. \A x \in Addr : w[x] \in HalfWord \cup LinkWord
    <2> TAKE x \in Addr
    <2>1. CASE x \in a .. a + 2
      <3>1. x = a \/ x = a + 1 \/ x = a + 2
        BY <2>1, <1>3 DEF Addr
      <3>2. QED
        BY <3>1, <1>4
    <2>2. CASE x \notin a .. a + 2
      BY <1>5, <2>2 DEF WellFormed
    <2>3. QED
      BY <2>1, <2>2
  <1>7. w \in [Addr -> HalfWord \cup LinkWord]
    BY <1>1, <1>6
  <1>8. ASSUME NEW b \in SlotAddr, b # a
        PROVE  w[b] = m[b] /\ w[b + 1] = m[b + 1] /\ w[b + 2] = m[b + 2]
    <2>1. /\ b \in Nat /\ b + 2 < Storage
          /\ b + 3 <= a \/ a + 3 <= b
      BY <1>8, <1>3, SlotInChip, SlotsApart DEF EntryWords
    <2>2. /\ b \in Addr \ (a .. a + 2) /\ b + 1 \in Addr \ (a .. a + 2)
          /\ b + 2 \in Addr \ (a .. a + 2)
      BY <2>1, <1>3 DEF Addr
    <2>3. QED
      BY <1>5, <2>2
  <1>9. WellFormed(w)
    <2>1. \A b \in SlotAddr : /\ m[b] \in HalfWord /\ m[b + 1] \in HalfWord
                              /\ m[b + 2] \in LinkWord
      BY DEF WellFormed
    <2>2. QED
      BY <1>4, <1>7, <1>8, <2>1 DEF WellFormed
  <1>10. QED
    BY <1>4, <1>8, <1>9
----------------------------------------------------------------------------
(***************************************************************************)
(* The inductive invariant                                                 *)
(***************************************************************************)

\* The slots before the last one are linked, and only insertion at the first
\* stop of the scan makes the list longer.
LEMMA FirstStop ==
  ASSUME TypeOK, NEW last, ListShape(last), NEW a \in Stops(mem),
         \A b \in Stops(mem) : a <= b
  PROVE  /\ a \in SlotAddr /\ a <= last
         /\ ~Deleted(mem, a) => a = last
  <1>1. last \in SlotAddr /\ last \in Stops(mem) /\ last \in Nat
    BY SlotInChip DEF ListShape, Stops
  <1>2. a \in SlotAddr /\ a <= last /\ a \in Nat
    BY <1>1, SlotInChip DEF Stops
  <1>3. ASSUME a < last
        PROVE  NextNode(mem, a) # 0
    <2>1. a + EntryWords <= last /\ last + EntryWords <= 2 * PageWords
      BY <1>1, <1>2, <1>3, SlotsApart DEF ListShape
    <2>2. a < NextAddress(a) /\ NextAddress(a) \in Nat
      <3>1. a + 2 * EntryWords <= 2 * PageWords
        BY <1>1, <1>2, <2>1, StorageAssumption DEF EntryWords
      <3>2. QED
        BY <3>1, <1>2, NextIsAdjacent, SlotInChip
    <2>3. NextNode(mem, a) = NextAddress(a)
      BY <1>2, <1>3 DEF ListShape
    <2>4. QED
      BY <1>2, <2>2, <2>3
  <1>4. QED
    BY <1>1, <1>2, <1>3 DEF Stops

\* The chip of the device comes zeroed: the words of every slot are those of a
\* blank record without a link.
LEMMA InitWords ==
  ASSUME Init, ~Erased
  PROVE  /\ WellFormed(mem)
         /\ \A a \in SlotAddr : /\ mem[a] = Lo(BlankEntry) /\ mem[a + 1] = Hi(BlankEntry)
                                /\ NextNode(mem, a) = 0 /\ ~Deleted(mem, a)
  <1>1. \A a \in SlotAddr : /\ a \in Addr /\ a + 1 \in Addr /\ a + 2 \in Addr
                            /\ (a % PageWords) % 3 = 0
                            /\ ((a + 1) % PageWords) % 3 = 1
                            /\ ((a + 2) % PageWords) % 3 = 2
    <2> TAKE a \in SlotAddr
    <2>1. /\ a \in Nat /\ a + 2 < Storage /\ Storage \in Nat
          /\ (a % PageWords) % 3 = 0 /\ (a % PageWords) + 3 <= PageWords
      BY SlotInChip, StorageSize DEF SlotAddr, EntryWords
    <2>2. a % PageWords \in Nat
      BY <2>1, PageSplit
    <2>3. /\ (a + 1) % PageWords = (a % PageWords) + 1
          /\ (a + 2) % PageWords = (a % PageWords) + 2
      BY <2>1, <2>2, PlaceInPage, StorageAssumption
    <2>4. QED
      BY <2>1, <2>2, <2>3 DEF Addr
  <1>2. \A x \in Addr :
           /\ (x % PageWords) % 3 = 0 => mem[x] = Lo(BlankEntry)
           /\ (x % PageWords) % 3 = 1 => mem[x] = Hi(BlankEntry)
           /\ (x % PageWords) % 3 = 2 => mem[x] = Link(0, FALSE)
    <2> TAKE x \in Addr
    <2> DEFINE place == (x % PageWords) % 3
    <2>1. mem[x] = FreshSlot[place + 1]
      BY DEF Init, EntryWords
    <2>2. FreshSlot = <<Lo(BlankEntry), Hi(BlankEntry), Link(0, FALSE)>>
      BY DEF FreshSlot
    <2> HIDE DEF place
    <2>3. /\ FreshSlot[1] = Lo(BlankEntry) /\ FreshSlot[2] = Hi(BlankEntry)
          /\ FreshSlot[3] = Link(0, FALSE)
      BY <2>2
    <2>4. place = 0 => mem[x] = Lo(BlankEntry)
      BY <2>1, <2>3
    <2>5. place = 1 => mem[x] = Hi(BlankEntry)
      BY <2>1, <2>3
    <2>6. place = 2 => mem[x] = Link(0, FALSE)
      <3>1. 2 + 1 = 3
        OBVIOUS
      <3>2. QED
        BY <2>1, <2>3, <3>1, Zenon
    <2>7. QED
      BY <2>4, <2>5, <2>6 DEF place
  <1>3. Lo(BlankEntry) \in HalfWord /\ Hi(BlankEntry) \in HalfWord
    BY DEF Lo, Hi, HalfWord, Data
  <1>4. Link(0, FALSE) \in LinkWord /\ Link(0, FALSE).next = 0
    BY StorageSize, StorageAssumption DEF Link, LinkWord, Addr, EntryWords
  <1>5. mem \in [Addr -> HalfWord \cup LinkWord]
    <2>1. \A x \in Addr : mem[x] \in HalfWord \cup LinkWord
      <3> TAKE x \in Addr
      <3>1. x % PageWords \in Nat
        BY PageSplit, StorageSize DEF Addr
      <3>2. (x % PageWords) % 3 \in {0, 1, 2}
        BY <3>1
      <3>3. QED
        BY <3>2, <1>2, <1>3, <1>4
    <2>2. QED
      BY <2>1 DEF Init
  <1>6. \A a \in SlotAddr : /\ mem[a] = Lo(BlankEntry) /\ mem[a + 1] = Hi(BlankEntry)
                            /\ mem[a + 2] = Link(0, FALSE)
    BY <1>1, <1>2
  <1>7. Link(0, FALSE).deleted = FALSE
    BY DEF Link
  <1>8. QED
    BY <1>3, <1>4, <1>5, <1>6, <1>7 DEF WellFormed, NextNode, Deleted

\* Its list is the one blank slot at address 0; nothing is acknowledged.
LEMMA InitIInv ==
  ASSUME Init, ~Erased
  PROVE  TypeOK /\ 0 \in SlotAddr /\ ListShape(0)
  <1>1. 0 \in SlotAddr
    BY StorageSize, StorageAssumption DEF SlotAddr, Addr, EntryWords
  <1>2. acked = {}
    BY DEF Init
  <1>3. ListShape(0)
    BY <1>1, <1>2, InitWords, SlotInChip, StorageAssumption DEF ListShape, EntryWords
  <1>4. QED
    BY <1>1, <1>2, <1>3, InitWords DEF TypeOK
----------------------------------------------------------------------------
(***************************************************************************)
(* What the operations do to the slots                                     *)
(***************************************************************************)

\* The three words of the slot b stay as they are.
SlotKept(b) == mem'[b] = mem[b] /\ mem'[b + 1] = mem[b + 1] /\ mem'[b + 2] = mem[b + 2]

\* A record that is written over a deleted one is there whole or not at all.
LEMMA ReuseEffect ==
  ASSUME TypeOK, NEW a \in SlotAddr, NEW e \in Entry, ReuseSlot(a, e)
  PROVE  /\ WellFormed(mem')
         /\ \/ mem' = mem /\ acked' = acked
            \/ /\ mem'[a] = Lo(e) /\ mem'[a + 1] = Hi(e)
               /\ NextNode(mem', a) = NextNode(mem, a) /\ ~Deleted(mem', a)
               /\ \A b \in SlotAddr \ {a} : SlotKept(b)
               /\ acked' = acked \cup {<<a, e>>}
  <1> DEFINE record == <<Lo(e), Hi(e), Link(NextNode(mem, a), FALSE)>>
  <1>1. PICK n \in {0, EntryWords} :
               /\ mem' = Written(mem, a, record, n)
               /\ acked' = IF n = EntryWords THEN acked \cup {<<a, e>>} ELSE acked
    BY SlotProgress DEF ReuseSlot
  <1>2. /\ record[1] = Lo(e) /\ record[2] = Hi(e)
        /\ record[3] = Link(NextNode(mem, a), FALSE)
    OBVIOUS
  <1> HIDE DEF record
  <1>3. CASE n = 0
    BY <1>1, <1>3, WrittenNothing DEF TypeOK, EntryWords
  <1>4. CASE n = EntryWords
    <2>1. /\ Lo(e) \in HalfWord /\ Hi(e) \in HalfWord
          /\ Link(NextNode(mem, a), FALSE) \in LinkWord
          /\ Link(NextNode(mem, a), FALSE).next = NextNode(mem, a)
          /\ Link(NextNode(mem, a), FALSE).deleted = FALSE
      BY DEF TypeOK, WellFormed, Lo, Hi, Link, HalfWord, LinkWord, Data, NextNode
    <2>2. record[1] \in HalfWord /\ record[2] \in HalfWord /\ record[3] \in LinkWord
      BY <1>2, <2>1
    <2>3. mem' = Written(mem, a, record, EntryWords)
      BY <1>1, <1>4
    <2>4. /\ WellFormed(mem')
          /\ mem'[a] = record[1] /\ mem'[a + 1] = record[2] /\ mem'[a + 2] = record[3]
          /\ \A b \in SlotAddr \ {a} :
                mem'[b] = mem[b] /\ mem'[b + 1] = mem[b + 1] /\ mem'[b + 2] = mem[b + 2]
      BY <2>2, <2>3, WrittenRecord DEF TypeOK
    <2>5. NextNode(mem', a) = NextNode(mem, a) /\ ~Deleted(mem', a)
      BY <1>2, <2>1, <2>4 DEF NextNode, Deleted
    <2>6. acked' = acked \cup {<<a, e>>}
      BY <1>1, <1>4
    <2>7. QED
      BY <1>2, <2>4, <2>5, <2>6 DEF SlotKept
  <1>5. QED
    BY <1>1, <1>3, <1>4

\* A deleted record only gets its flag.
LEMMA DeleteEffect ==
  ASSUME TypeOK, NEW a \in SlotAddr, delete_node(a)
  PROVE  /\ WellFormed(mem')
         /\ mem'[a] = mem[a] /\ mem'[a + 1] = mem[a + 1]
         /\ NextNode(mem', a) = NextNode(mem, a) /\ Deleted(mem', a)
         /\ \A b \in SlotAddr \ {a} : SlotKept(b)
         /\ acked' = {r \in acked : r[1] # a}
  <1> DEFINE record == <<mem[a], mem[a + 1], Link(NextNode(mem, a), TRUE)>>
  <1>1. /\ mem[a] \in HalfWord /\ mem[a + 1] \in HalfWord
        /\ Link(NextNode(mem, a), TRUE) \in LinkWord
        /\ Link(NextNode(mem, a), TRUE).next = NextNode(mem, a)
        /\ Link(NextNode(mem, a), TRUE).deleted = TRUE
    BY DEF TypeOK, WellFormed, Link, LinkWord, NextNode
  <1>2. /\ record[1] = mem[a] /\ record[2] = mem[a + 1]
        /\ record[3] = Link(NextNode(mem, a), TRUE)
    OBVIOUS
  <1>3. mem' = Written(mem, a, record, EntryWords)
    BY DEF delete_node
  <1> HIDE DEF record
  <1>4. record[1] \in HalfWord /\ record[2] \in HalfWord /\ record[3] \in LinkWord
    BY <1>1, <1>2
  <1>5. /\ WellFormed(mem')
        /\ mem'[a] = record[1] /\ mem'[a + 1] = record[2] /\ mem'[a + 2] = record[3]
        /\ \A b \in SlotAddr \ {a} :
              mem'[b] = mem[b] /\ mem'[b + 1] = mem[b + 1] /\ mem'[b + 2] = mem[b + 2]
    BY <1>3, <1>4, WrittenRecord DEF TypeOK
  <1>6. NextNode(mem', a) = NextNode(mem, a) /\ Deleted(mem', a)
    BY <1>1, <1>2, <1>5 DEF NextNode, Deleted
  <1>7. acked' = {r \in acked : r[1] # a}
    BY DEF delete_node
  <1>8. QED
    BY <1>2, <1>5, <1>6, <1>7 DEF SlotKept

\* An appended record is linked from the last one; it is there whole, or the
\* slot behind the last one stays as it was.
LEMMA AppendEffect ==
  ASSUME TwoPages, TypeOK, NEW last \in SlotAddr, NEW e \in Entry, AppendSlot(last, e),
         NEW b, b = NextAddress(last)
  PROVE  /\ b \in SlotAddr /\ last < b /\ b + EntryWords <= 2 * PageWords
         /\ \A c \in SlotAddr : last < c => b <= c
         /\ WellFormed(mem')
         /\ mem'[last] = mem[last] /\ mem'[last + 1] = mem[last + 1]
         /\ NextNode(mem', last) = b /\ ~Deleted(mem', last)
         /\ \A c \in SlotAddr \ {last, b} : SlotKept(c)
         /\ \/ SlotKept(b) /\ acked' = acked
            \/ /\ mem'[b] = Lo(e) /\ mem'[b + 1] = Hi(e)
               /\ NextNode(mem', b) = 0 /\ ~Deleted(mem', b)
               /\ acked' = acked \cup {<<b, e>>}
  <1> DEFINE linked == <<mem[last], mem[last + 1], Link(b, FALSE)>>
             record == <<Lo(e), Hi(e), Link(0, FALSE)>>
             mid == Written(mem, last, linked, EntryWords)
  <1>1. last \in Nat /\ last + 2 * EntryWords <= 2 * PageWords
    BY SlotInChip, StorageAssumption DEF TwoPages, AppendSlot, EntryWords
  <1>2. /\ b \in SlotAddr /\ b \in Nat /\ last < b
        /\ b + EntryWords <= 2 * PageWords
        /\ \A c \in SlotAddr : last < c => b <= c
    BY <1>1, NextIsAdjacent, SlotInChip
  <1>3. PICK n \in {0, EntryWords} :
               /\ mem' = Written(mid, b, record, n)
               /\ acked' = IF n = EntryWords THEN acked \cup {<<b, e>>} ELSE acked
    BY <1>2, SlotProgress DEF AppendSlot
  <1>4. /\ linked[1] = mem[last] /\ linked[2] = mem[last + 1]
        /\ linked[3] = Link(b, FALSE)
        /\ record[1] = Lo(e) /\ record[2] = Hi(e) /\ record[3] = Link(0, FALSE)
    OBVIOUS
  <1>5. /\ Link(b, FALSE) \in LinkWord /\ Link(0, FALSE) \in LinkWord
        /\ Link(b, FALSE).next = b /\ Link(0, FALSE).next = 0
        /\ Link(b, FALSE).deleted = FALSE /\ Link(0, FALSE).deleted = FALSE
        /\ Lo(e) \in HalfWord /\ Hi(e) \in HalfWord
    BY <1>2, StorageSize, StorageAssumption
    DEF Link, LinkWord, Lo, Hi, HalfWord, Data, SlotAddr, Addr, EntryWords
  <1> HIDE DEF linked, record, mid
  <1>6. /\ WellFormed(mid)
        /\ mid[last] = mem[last] /\ mid[last + 1] = mem[last + 1]
        /\ mid[last + 2] = Link(b, FALSE)
        /\ \A c \in SlotAddr \ {last} :
              mid[c] = mem[c] /\ mid[c + 1] = mem[c + 1] /\ mid[c + 2] = mem[c + 2]
    <2>1. /\ linked[1] \in HalfWord /\ linked[2] \in HalfWord /\ linked[3] \in LinkWord
      BY <1>4, <1>5 DEF TypeOK, WellFormed
    <2>2. /\ WellFormed(mid)
          /\ mid[last] = linked[1] /\ mid[last + 1] = linked[2]
          /\ mid[last + 2] = linked[3]
          /\ \A c \in SlotAddr \ {last} :
                mid[c] = mem[c] /\ mid[c + 1] = mem[c + 1] /\ mid[c + 2] = mem[c + 2]
      BY <2>1, WrittenRecord DEF TypeOK, mid
    <2>3. QED
      BY <1>4, <2>2
  <1>7. CASE n = 0
    <2>1. mem' = mid /\ acked' = acked
      BY <1>2, <1>3, <1>6, <1>7, WrittenNothing DEF EntryWords
    <2>2. NextNode(mem', last) = b /\ ~Deleted(mem', last)
      BY <1>5, <1>6, <2>1 DEF NextNode, Deleted
    <2>3. \A c \in SlotAddr \ {last} : SlotKept(c)
      BY <1>6, <2>1 DEF SlotKept
    <2>4. b # last
      BY <1>1, <1>2
    <2>5. QED
      BY <1>2, <1>6, <2>1, <2>2, <2>3, <2>4
  <1>8. CASE n = EntryWords
    <2>1. record[1] \in HalfWord /\ record[2] \in HalfWord /\ record[3] \in LinkWord
      BY <1>4, <1>5
    <2>2. /\ mem' = Written(mid, b, record, EntryWords)
          /\ acked' = acked \cup {<<b, e>>}
      BY <1>3, <1>8
    <2>3. /\ WellFormed(mem')
          /\ mem'[b] = record[1] /\ mem'[b + 1] = record[2] /\ mem'[b + 2] = record[3]
          /\ \A c \in SlotAddr \ {b} :
                mem'[c] = mid[c] /\ mem'[c + 1] = mid[c + 1] /\ mem'[c + 2] = mid[c + 2]
      <3>1. b \in SlotAddr /\ WellFormed(mid)
        BY <1>2, <1>6
      <3>2. mem' = Written(mid, b, record, EntryWords)
        BY <2>2
      <3>3. QED
        BY <2>1, <3>1, <3>2, WrittenRecord
    <2>4. NextNode(mem', b) = 0 /\ ~Deleted(mem', b)
      BY <1>4, <1>5, <2>3 DEF NextNode, Deleted
    <2>5. b # last
      BY <1>1, <1>2
    <2>6. /\ mem'[last] = mem[last] /\ mem'[last + 1] = mem[last + 1]
          /\ mem'[last + 2] = Link(b, FALSE)
      BY <1>6, <2>3, <2>5
    <2>7. NextNode(mem', last) = b /\ ~Deleted(mem', last)
      BY <1>5, <2>6 DEF NextNode, Deleted
    <2>8. \A c \in SlotAddr \ {last, b} : SlotKept(c)
      BY <1>6, <2>3 DEF SlotKept
    <2>9. QED
      BY <1>2, <1>4, <2>2, <2>3, <2>4, <2>6, <2>7, <2>8
  <1>9. QED
    BY <1>3, <1>7, <1>8
----------------------------------------------------------------------------
(***************************************************************************)
(* The operations keep the shape of the list                               *)
(***************************************************************************)

\* A reused slot keeps its link; its record was not acknowledged any more.
LEMMA ReuseIInv ==
  ASSUME TypeOK, NEW last \in SlotAddr, ListShape(last),
         NEW a \in SlotAddr, a <= last, NEW e \in Entry, ReuseSlot(a, e)
  PROVE  TypeOK' /\ ListShape(last)'
  <1>1. CASE mem' = mem /\ acked' = acked
    BY <1>1 DEF TypeOK, ListShape, NextNode, Deleted
  <1>2. CASE /\ mem'[a] = Lo(e) /\ mem'[a + 1] = Hi(e)
             /\ NextNode(mem', a) = NextNode(mem, a) /\ ~Deleted(mem', a)
             /\ \A b \in SlotAddr \ {a} : SlotKept(b)
             /\ acked' = acked \cup {<<a, e>>}
    <2>1. TypeOK'
      BY <1>2, ReuseEffect DEF TypeOK
    <2>2. \A b \in SlotAddr : NextNode(mem', b) = NextNode(mem, b)
      BY <1>2 DEF NextNode, SlotKept
    <2>3. ASSUME NEW r \in acked'
          PROVE  /\ r[1] <= last /\ ~Deleted(mem', r[1])
                 /\ mem'[r[1]] = Lo(r[2]) /\ mem'[r[1] + 1] = Hi(r[2])
      <3>1. CASE r = <<a, e>>
        BY <1>2, <3>1
      <3>2. CASE r \in acked
        <4>1. /\ r[1] \in SlotAddr /\ r[1] <= last /\ ~Deleted(mem, r[1])
              /\ mem[r[1]] = Lo(r[2]) /\ mem[r[1] + 1] = Hi(r[2])
          BY <3>2 DEF TypeOK, ListShape
        <4>2. r[1] # a
          BY <4>1 DEF ReuseSlot
        <4>3. QED
          BY <1>2, <4>1, <4>2 DEF Deleted, SlotKept
      <3>3. QED
        BY <1>2, <3>1, <3>2
    <2>4. ListShape(last)'
      BY <2>2, <2>3 DEF ListShape
    <2>5. QED
      BY <2>1, <2>4
  <1>3. QED
    BY <1>1, <1>2, ReuseEffect

\* A deleted slot keeps its link and is no longer acknowledged.
LEMMA DeleteIInv ==
  ASSUME TypeOK, NEW last \in SlotAddr, ListShape(last),
         NEW a \in SlotAddr, delete_node(a)
  PROVE  TypeOK' /\ ListShape(last)'
  <1>1. /\ WellFormed(mem')
        /\ NextNode(mem', a) = NextNode(mem, a)
        /\ \A b \in SlotAddr \ {a} : SlotKept(b)
        /\ acked' = {r \in acked : r[1] # a}
    BY DeleteEffect
  <1>2. TypeOK'
    BY <1>1 DEF TypeOK
  <1>3. \A b \in SlotAddr : NextNode(mem', b) = NextNode(mem, b)
    BY <1>1 DEF NextNode, SlotKept
  <1>4. \A r \in acked' : /\ r[1] <= last /\ ~Deleted(mem', r[1])
                          /\ mem'[r[1]] = Lo(r[2]) /\ mem'[r[1] + 1] = Hi(r[2])
    BY <1>1 DEF TypeOK, ListShape, Deleted, SlotKept
  <1>5. ListShape(last)'
    BY <1>3, <1>4 DEF ListShape
  <1>6. QED
    BY <1>2, <1>5

\* The last slot is linked to the slot behind it, which becomes the last.
LEMMA AppendIInv ==
  ASSUME TwoPages, TypeOK, NEW last \in SlotAddr, ListShape(last),
         NEW e \in Entry, AppendSlot(last, e)
  PROVE  TypeOK' /\ NextAddress(last) \in SlotAddr /\ ListShape(NextAddress(last))'
  <1> DEFINE b == NextAddress(last)
  <1>1. /\ b \in SlotAddr /\ last < b /\ b + EntryWords <= 2 * PageWords
        /\ \A c \in SlotAddr : last < c => b <= c
        /\ WellFormed(mem')
        /\ mem'[last] = mem[last] /\ mem'[last + 1] = mem[last + 1]
        /\ NextNode(mem', last) = b /\ ~Deleted(mem', last)
        /\ \A c \in SlotAddr \ {last, b} : SlotKept(c)
        /\ \/ SlotKept(b) /\ acked' = acked
           \/ /\ mem'[b] = Lo(e) /\ mem'[b + 1] = Hi(e)
              /\ NextNode(mem', b) = 0 /\ ~Deleted(mem', b)
              /\ acked' = acked \cup {<<b, e>>}
    BY AppendEffect
  <1>2. last \in Nat /\ b \in Nat /\ b # last
    BY <1>1, SlotInChip
  <1>b. NextAddress(last) = b
    OBVIOUS
  <1> HIDE DEF b
  <1>3. TypeOK'
    BY <1>1 DEF TypeOK
  <1>4. ASSUME NEW c \in SlotAddr, c < b
        PROVE  NextNode(mem', c) = NextAddress(c)
    <2>1. c \in Nat /\ c <= last /\ c # b
      BY <1>1, <1>2, <1>4, SlotInChip
    <2>2. CASE c = last
      BY <1>1, <1>b, <2>2
    <2>3. CASE c < last
      <3>1. NextNode(mem, c) = NextAddress(c)
        BY <2>3 DEF ListShape
      <3>2. SlotKept(c)
        BY <1>1, <1>2, <2>1, <2>3
      <3>3. QED
        BY <3>1, <3>2 DEF NextNode, SlotKept
    <2>4. QED
      BY <1>2, <2>1, <2>2, <2>3
  <1>5. ASSUME NEW c \in SlotAddr, c >= b
        PROVE  NextNode(mem', c) = 0
    <2>1. c \in Nat /\ c > last /\ NextNode(mem, c) = 0 /\ NextNode(mem, b) = 0
      BY <1>1, <1>2, <1>5, SlotInChip DEF ListShape
    <2>2. CASE c = b
      BY <1>1, <2>1, <2>2 DEF NextNode, SlotKept
    <2>3. CASE c # b
      BY <1>1, <1>2, <2>1, <2>3 DEF NextNode, SlotKept
    <2>4. QED
      BY <2>2, <2>3
  <1>6. ASSUME NEW r \in acked'
        PROVE  /\ r[1] <= b /\ ~Deleted(mem', r[1])
               /\ mem'[r[1]] = Lo(r[2]) /\ mem'[r[1] + 1] = Hi(r[2])
    <2>1. CASE r \in acked
      <3>1. /\ r[1] \in SlotAddr /\ r[1] <= last /\ ~Deleted(mem, r[1])
            /\ mem[r[1]] = Lo(r[2]) /\ mem[r[1] + 1] = Hi(r[2])
        BY <2>1 DEF TypeOK, ListShape
      <3>2. r[1] \in Nat
        BY <3>1, SlotInChip
      <3>3. r[1] <= b /\ r[1] # b
        BY <1>1, <1>2, <3>1, <3>2
      <3>4. CASE r[1] = last
        BY <1>1, <3>1, <3>3, <3>4
      <3>5. CASE r[1] # last
        <4>1. SlotKept(r[1])
          BY <1>1, <3>1, <3>3, <3>5
        <4>2. QED
          BY <3>1, <3>3, <4>1 DEF Deleted, SlotKept
      <3>6. QED
        BY <3>4, <3>5
    <2>2. CASE r \notin acked
      <3>1. /\ r = <<b, e>>
            /\ mem'[b] = Lo(e) /\ mem'[b + 1] = Hi(e) /\ ~Deleted(mem', b)
        BY <1>1, <2>2
      <3>2. QED
        BY <1>2, <3>1
    <2>3. QED
      BY <2>1, <2>2
  <1>7. ListShape(b)'
    BY <1>1, <1>4, <1>5, <1>6 DEF ListShape
  <1>8. QED
    BY <1>1, <1>3, <1>7, <1>b
----------------------------------------------------------------------------
(***************************************************************************)
(* Theorems                                                                *)
(***************************************************************************)

\* IInv is inductive: one case per action of the specification.
LEMMA NextIInv ==
  ASSUME TwoPages, IInv, [Next]_vars
  PROVE  IInv'
  <1>1. TypeOK
    BY DEF IInv
  <1>2. PICK last \in SlotAddr : ListShape(last)
    BY DEF IInv
  <1>3. ASSUME NEW e \in Entry, insert_node(e)
        PROVE  IInv'
    <2>1. PICK a \in Stops(mem) : /\ \A b \in Stops(mem) : a <= b
                                  /\ ReuseSlot(a, e) \/ AppendSlot(a, e)
      BY <1>3 DEF insert_node
    <2>2. a \in SlotAddr /\ a <= last /\ (~Deleted(mem, a) => a = last)
      BY <1>1, <1>2, <2>1, FirstStop
    <2>3. CASE ReuseSlot(a, e)
      BY <1>1, <1>2, <2>2, <2>3, ReuseIInv DEF IInv
    <2>4. CASE AppendSlot(a, e)
      <3>1. a = last
        BY <2>2, <2>4 DEF AppendSlot
      <3>2. QED
        BY <1>1, <1>2, <2>4, <3>1, AppendIInv DEF IInv
    <2>5. QED
      BY <2>1, <2>3, <2>4
  <1>4. ASSUME NEW a \in SlotAddr, delete_node(a)
        PROVE  IInv'
    BY <1>1, <1>2, <1>4, DeleteIInv DEF IInv
  <1>5. CASE UNCHANGED vars
    BY <1>1, <1>2, <1>5 DEF IInv, TypeOK, ListShape, NextNode, Deleted, vars
  <1>6. QED
    BY <1>3, <1>4, <1>5 DEF Next

\* The list keeps its shape for ever, on every chip that came zeroed.
THEOREM Inductive ==
  ASSUME ~Erased, TwoPages
  PROVE  Spec => []IInv
  <1>1. Init => IInv
    BY InitIInv DEF IInv
  <1>2. IInv /\ [Next]_vars => IInv'
    BY NextIInv
  <1>3. QED
    BY <1>1, <1>2, PTL DEF Spec

\* Payload and link words keep their places in the slots, so get_all_nodes()
\* and get_node() only ever decode what insert_node() and delete_node() wrote
\* as a record.
THEOREM TypeCorrect ==
  ASSUME ~Erased, TwoPages
  PROVE  Spec => []TypeOK
  <1>1. IInv => TypeOK
    BY DEF IInv
  <1>2. QED
    BY <1>1, Inductive, PTL

\* As long as the list stays within two pages, every link of insert_node() leads
\* to a place where a whole record fits in its page.  (From the third page on it
\* does not.)
THEOREM LinksFitTheirPage ==
  ASSUME ~Erased, TwoPages
  PROVE  Spec => []EntriesFitTheirPage
  <1>1. IInv => EntriesFitTheirPage
    <2> SUFFICES ASSUME IInv, NEW a \in SlotAddr, NextNode(mem, a) # 0
                 PROVE  InBuffer(NextNode(mem, a))
      BY DEF EntriesFitTheirPage
    <2>1. PICK last \in SlotAddr : ListShape(last)
      BY DEF IInv
    <2>2. a \in Nat /\ last \in Nat /\ a < last
      <3>1. a \in Nat /\ last \in Nat
        BY <2>1, SlotInChip
      <3>2. QED
        BY <2>1, <3>1 DEF ListShape
    <2>3. a + 2 * EntryWords <= 2 * PageWords
      <3>1. a + EntryWords <= last
        BY <2>1, <2>2, SlotsApart
      <3>2. QED
        BY <2>1, <2>2, <3>1, StorageAssumption DEF ListShape, EntryWords
    <2>4. NextNode(mem, a) = NextAddress(a) /\ NextAddress(a) \in SlotAddr
      BY <2>1, <2>2, <2>3, NextIsAdjacent DEF ListShape
    <2>5. QED
      BY <2>4 DEF InBuffer, SlotAddr
  <1>2. QED
    BY <1>1, Inductive, PTL
============================================================================
