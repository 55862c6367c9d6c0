---------------------------- MODULE MCScheduler ----------------------------
(***************************************************************************)
(* Entries for the model checking of Scheduler.                            *)
(***************************************************************************)
EXTENDS Scheduler

MCSlot == 0 .. 2
MCTwoSlots == 0 .. 1

\* Every window of a short day, with and without transitions.
MCAllEntries ==
    {e \in EntryType : /\ e.start < e.end
                       /\ e.transition_time <= 2
                       /\ 2 * e.transition_time <= e.end - e.start}

\* Two windows in a row, and one that overlaps both, with a long transition, and
\* lasts until the last minute of the day.
MCFewEntries ==
    {[start |-> 0, end |-> 2, transition_time |-> 0],
     [start |-> 2, end |-> 4, transition_time |-> 1],
     [start |-> 1, end |-> 5, transition_time |-> 2]}

\* Windows of the real day: from midnight on, with the longest transition the
\* form allows, back to back, and until 23:59.
MCRealEntries ==
    {[start |-> 0, end |-> 250, transition_time |-> 1],
     [start |-> 250, end |-> 1000, transition_time |-> 120],
     [start |-> 1001, end |-> 1100, transition_time |-> 0],
     [start |-> 1100, end |-> 1439, transition_time |-> 17]}
============================================================================
