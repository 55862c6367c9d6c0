--------------------------- MODULE EepromStorage ---------------------------
(***************************************************************************)
(* The record list kept on the 24C32 EEPROM: insert_node, delete_node and  *)
(* get_all_nodes of src/eeprom_storage.cpp over write_page of              *)
(* src/24c32.cpp.                                                          *)
(*                                                                         *)
(* The chip is a memory of 16-bit words.  sizeof(entry_t) is 6 bytes, so a *)
(* record is three words: the low half of the two 11-bit times, their high *)
(* half with transition_time, and the link word (next_node, deleted).      *)
(* Every address the code computes is even; the model counts in words.  A  *)
(* page is 32 bytes, 16 words: five records and one word left over.  The   *)
(* left-over word matters, so pages are not slots here: a record can be    *)
(* written across a page boundary, and the chip then splits the write.     *)
(*                                                                         *)
(* The program is single threaded and nothing else reads the chip, so an   *)
(* operation is one action.  What can happen inside it is that a bus       *)
(* transaction fails (the function returns false) or the power is cut:     *)
(* either way only a prefix of its page writes took effect, and the action *)
(* chooses the prefix.  A failed read, or a failed write before the first  *)
(* page write, changes nothing and is a stuttering step.                   *)
(***************************************************************************)
EXTENDS Integers, FiniteSets

CONSTANTS Entry,       \* (start, end, transition_time) of the requests
          BlankEntry,  \* what the words of an unwritten slot decode to
          Garbled,     \* what words of two different records decode to
          PageWords,   \* eeprom::PAGE_SIZE in words (16 on the device)
          Pages,       \* eeprom::STORAGE_SIZE / eeprom::PAGE_SIZE (128)
          Erased,      \* TRUE: the chip holds 0xFF bytes at first, FALSE: zeros
          LastAppend   \* bound: the list is extended from slots up to here

EntryWords == 3        \* sizeof(entry_t) in words

ASSUME StorageAssumption ==
    /\ PageWords \in Nat /\ PageWords >= EntryWords
    /\ Pages \in Nat /\ Pages >= 2
    /\ Erased \in BOOLEAN
    /\ LastAppend \in Int

Storage == PageWords * Pages
Addr == 0 .. Storage - 1
Data == Entry \cup {BlankEntry}

\* The slots insert_node() visits, page by page: whole records of each page.
SlotAddr ==
    {a \in Addr : /\ (a % PageWords) % EntryWords = 0
                  /\ (a % PageWords) + EntryWords <= PageWords}

\* The three words of entry_t.
Lo(e) == [half |-> "lo", of |-> e]
Hi(e) == [half |-> "hi", of |-> e]
Link(n, d) == [next |-> n, deleted |-> d]
HalfWord == [half : {"lo", "hi"}, of : Data]
LinkWord == [next : Addr, deleted : BOOLEAN]

VARIABLES mem,     \* the words of the chip
          acked    \* observer: <<address, entry>> of insertions that returned true
                   \* and have not been deleted since
vars == <<mem, acked>>

NextNode(m, a) == m[a + 2].next
Deleted(m, a) == m[a + 2].deleted

\* The payload at a: a record again only if both halves are of one record.
EntryAt(m, a) ==
    IF \E e \in Data : m[a] = Lo(e) /\ m[a + 1] = Hi(e)
    THEN CHOOSE e \in Data : m[a] = Lo(e) /\ m[a + 1] = Hi(e)
    ELSE Garbled
----------------------------------------------------------------------------
(***************************************************************************)
(* eeprom::write_page: at most one page per bus transaction, a transaction *)
(* that fails ends the write.  Progress(a) is the set of word counts after *)
(* which writing a record at a can stop.  The chip ignores address bits    *)
(* beyond its size, hence the modulus.                                     *)
(***************************************************************************)
Progress(a) ==
    LET inPage == PageWords - (a % PageWords)
    IN  {0, EntryWords} \cup (IF inPage < EntryWords THEN {inPage} ELSE {})

\* m after the first n of the words ws have been written from address a on.
Written(m, a, ws, n) ==
    [x \in Addr |-> LET k == (x - a) % Storage
                    IN  IF k < n THEN ws[k + 1] ELSE m[x]]

\* Mutant: the next record always follows immediately.
NextAddress_NoPageCheck(a) == a + EntryWords

\* Where insert_node() puts the record after the one at a.  The comparison is
\* on size_t: in any page but the first PAGE_SIZE - next_address wraps to a
\* huge number, and the check for room in the page never fires.
NextAddress(a) ==
    LET n == a + EntryWords
    IN  IF n <= PageWords /\ PageWords - n < EntryWords
        THEN (a \div PageWords + 1) * PageWords
        ELSE n

\* Mutant: only the end of the chain is looked for.
Stops_LastOnly(m) == {a \in SlotAddr : NextNode(m, a) = 0}

\* The slots at which the scan of insert_node() stops.
Stops(m) == {a \in SlotAddr : Deleted(m, a) \/ NextNode(m, a) = 0}

\* Mutant: the reused slot is written as it came, with next_node 0.
ReuseSlot_DropsLink(a, e) ==
    /\ Deleted(mem, a)
    /\ mem' = Written(mem, a, <<Lo(e), Hi(e), Link(0, FALSE)>>, EntryWords)
    /\ acked' = acked \cup {<<a, e>>}

\* A deleted slot is overwritten and keeps its place in the chain.
ReuseSlot(a, e) ==
    /\ Deleted(mem, a)
    /\ \E n \in Progress(a) :
         /\ mem' = Written(mem, a, <<Lo(e), Hi(e), Link(NextNode(mem, a), FALSE)>>, n)
         /\ acked' = IF n = EntryWords THEN acked \cup {<<a, e>>} ELSE acked

\* Mutant: the new record carries the link of the old end, to itself.
AppendSlot_SelfLink(a, e) ==
    LET b == NextAddress(a)
        linked == <<mem[a], mem[a + 1], Link(b, FALSE)>>
    IN  /\ ~Deleted(mem, a)
        /\ a <= LastAppend
        /\ mem' = Written(Written(mem, a, linked, EntryWords), b,
                          <<Lo(e), Hi(e), Link(b, FALSE)>>, EntryWords)
        /\ acked' = acked \cup {<<b, e>>}

\* The last record of the chain is rewritten with its new link, then the new
\* record is written behind it and can be cut short.  (The first write is one
\* transaction: the scan only stops at slots that lie in one page.)
AppendSlot(a, e) ==
    LET b == NextAddress(a)
        linked == <<mem[a], mem[a + 1], Link(b, FALSE)>>
        record == <<Lo(e), Hi(e), Link(0, FALSE)>>
    IN  /\ ~Deleted(mem, a)
        /\ a <= LastAppend
        /\ \E n \in Progress(b) :
             /\ mem' = Written(Written(mem, a, linked, EntryWords), b, record, n)
             /\ acked' = IF n = EntryWords THEN acked \cup {<<b, e>>} ELSE acked

\* The scan goes page by page and slot by slot: the lowest address counts.
insert_node(e) ==
    \E a \in Stops(mem) : /\ \A b \in Stops(mem) : a <= b
                          /\ ReuseSlot(a, e) \/ AppendSlot(a, e)

\* Mutant: the deleted record also loses its link.
delete_node_CutsChain(a) ==
    /\ ~Deleted(mem, a)
    /\ mem' = Written(mem, a, <<mem[a], mem[a + 1], Link(0, TRUE)>>, EntryWords)
    /\ acked' = {r \in acked : r[1] # a}

\* The flag is set in place; the link stays.  Deleting a deleted record writes
\* nothing.
delete_node(a) ==
    /\ ~Deleted(mem, a)
    /\ mem' = Written(mem, a, <<mem[a], mem[a + 1], Link(NextNode(mem, a), TRUE)>>,
                      EntryWords)
    /\ acked' = {r \in acked : r[1] # a}

\* A slot of a chip as it comes, all zero bytes or all 0xFF bytes.  The latter
\* reads as deleted with next_node 0xFFF, the last byte of the chip.
FreshSlot == <<Lo(BlankEntry), Hi(BlankEntry),
               IF Erased THEN Link(Storage - 1, TRUE) ELSE Link(0, FALSE)>>

Init ==
    /\ mem = [x \in Addr |-> FreshSlot[((x % PageWords) % EntryWords) + 1]]
    /\ acked = {}

Next == \/ \E e \in Entry : insert_node(e)
        \/ \E a \in SlotAddr : delete_node(a)

Spec == Init /\ [][Next]_vars
----------------------------------------------------------------------------
(***************************************************************************)
(* get_all_nodes: follow next_node from address 0.  Each record is decoded *)
(* from a buffer of one page, so a record that starts less than three      *)
(* words before the end of its page is read past the end of the buffer;    *)
(* the walk of the model stops there, since nothing is defined any more.   *)
(***************************************************************************)
InBuffer(a) == (a % PageWords) + EntryWords <= PageWords
Stop == -1

\* The address the walk is at after n links, Stop when it has ended.  A walk of
\* more links than there are slots has met one twice and never ends.
Links == 0 .. Cardinality(SlotAddr) + 1
Walk(m) ==
    LET at[n \in Links] ==
          IF n = 0 THEN 0
          ELSE LET a == at[n - 1]
               IN  IF a = Stop THEN Stop
                   ELSE IF InBuffer(a) /\ NextNode(m, a) # 0 THEN NextNode(m, a)
                   ELSE Stop
    IN  [n \in Links |-> at[n]]

OnChain(m) == LET w == Walk(m) IN {w[n] : n \in Links} \ {Stop}

get_all_nodes(m) ==
    [a \in {b \in OnChain(m) : InBuffer(b) /\ ~Deleted(m, b)} |-> EntryAt(m, a)]
----------------------------------------------------------------------------
(***************************************************************************)
(* Properties                                                              *)
(***************************************************************************)

\* Every word is of the kind its place in a slot calls for.
WellFormed(m) ==
    /\ m \in [Addr -> HalfWord \cup LinkWord]
    /\ \A a \in SlotAddr : /\ m[a] \in HalfWord
                           /\ m[a + 1] \in HalfWord
                           /\ m[a + 2] \in LinkWord

\* Payload words and link words never mix in a slot, and insertions are only
\* acknowledged for whole slots.
TypeOK == WellFormed(mem) /\ acked \in SUBSET (SlotAddr \X Entry)

\* A record whose insert_node() returned true is returned by get_all_nodes(),
\* unchanged and under its own address, until it is deleted, whatever
\* insertions, deletions, bus errors and power cuts come in between.
AckedListed ==
    LET nodes == get_all_nodes(mem)
    IN  \A r \in acked : r[1] \in DOMAIN nodes /\ nodes[r[1]] = r[2]

\* get_all_nodes() and cache() never read past their page buffer and never
\* loop: the walk along next_node only meets whole slots and it ends.
ChainSound ==
    /\ \A a \in OnChain(mem) : InBuffer(a)
    /\ LET w == Walk(mem) IN \E n \in Links : w[n] = Stop

\* No space is lost: insert_node() makes the chain longer only when every
\* record of the chain is in use, so deletions always pay for insertions.
GrowOnlyWhenFull ==
    [][OnChain(mem)' # OnChain(mem) => \A a \in OnChain(mem) : ~Deleted(mem, a)]_vars

\* The list implements the abstract store: no operation touches a record but
\* its own, and interrupted insertions leave at most one blank record.
Records == INSTANCE RecordStore WITH Slot <- SlotAddr, records <- get_all_nodes(mem)
ImplementsRecordStore == Records!Spec

\* "If the next element does not fit in the current page, go to the next page"
\* (src/eeprom_storage.cpp:82): every link leads to a place where a whole record
\* fits in its page.
EntriesFitTheirPage ==
    \A a \in SlotAddr : NextNode(mem, a) # 0 => InBuffer(NextNode(mem, a))
============================================================================
