---------------------------- MODULE RecordStore ----------------------------
(***************************************************************************)
(* What the record list of include/eeprom_storage.h promises its callers:  *)
(* a finite map from addresses to schedule entries.  An insertion adds one *)
(* record at an address that holds none, a deletion removes exactly the    *)
(* record it names, and an insertion that is interrupted (bus error, power *)
(* cut) either changes nothing or leaves one blank record; no operation    *)
(* ever disturbs a record other than its own.                              *)
(***************************************************************************)
EXTENDS Integers, FiniteSets

CONSTANTS Slot,        \* the addresses a record can have
          Entry,       \* what a record can hold: start, end, transition_time
          BlankEntry   \* what a slot decodes to before anything is written there

VARIABLE records       \* the records get_all_nodes() returns, by address

\* insert_node() on a slot a that holds no record.
Add(a, e) ==
    /\ a \notin DOMAIN records
    /\ records' = [b \in DOMAIN records \cup {a} |->
                        IF b = a THEN e ELSE records[b]]

\* delete_node() on the address of a record.
Remove(a) ==
    /\ a \in DOMAIN records
    /\ records' = [b \in DOMAIN records \ {a} |-> records[b]]

\* The list of a chip that was never written: nothing, or the blank first slot.
Init == records \in {[b \in {} |-> BlankEntry], [b \in {0} |-> BlankEntry]}

\* An interrupted insertion is Add with the blank entry.
Next == \E a \in Slot : Remove(a) \/ \E e \in Entry \cup {BlankEntry} : Add(a, e)

Spec == Init /\ [][Next]_records
============================================================================
