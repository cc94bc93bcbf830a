------------------------------ MODULE RecordLog ------------------------------
(***************************************************************************)
(* What collecting the records of a data logger promises, whatever the     *)
(* line, the files and the processes do: a table is a log that grows at    *)
(* its end; what has been accounted for stays accounted for and was really *)
(* produced; and the durable mark, behind which collecting resumes, never  *)
(* stands before a record that is not accounted for.                       *)
(***************************************************************************)
EXTENDS Integers

CONSTANTS
    Table,      \* the logger's tables
    MaxLog      \* bound: records of a table, a natural number

VARIABLES
    produced,   \* records 0..produced[t]-1 of table t exist
    kept,       \* kept[t]: the records accounted for
    mark        \* mark[t]: the records below it need not be asked for again

log == <<produced, kept, mark>>
-----------------------------------------------------------------------------
Init ==
    /\ produced = [t \in Table |-> 1]
    /\ kept = [t \in Table |-> {}]
    /\ mark = [t \in Table |-> 0]

Grow(t) ==
    /\ produced[t] < MaxLog
    /\ produced' = [produced EXCEPT ![t] = @ + 1]
    /\ UNCHANGED <<kept, mark>>

\* Some records of one table are accounted for.
Keep(t) ==
    /\ kept[t] \subseteq kept'[t]
    /\ kept'[t] \subseteq kept[t] \cup 0..produced[t] - 1
    /\ kept' = [kept EXCEPT ![t] = kept'[t]]
    /\ UNCHANGED <<produced, mark>>

\* Marks move, in either direction, over what is accounted for.
Move ==
    /\ DOMAIN mark' = Table
    /\ \A t \in Table : 0..mark'[t] - 1 \subseteq kept[t]
    /\ UNCHANGED <<produced, kept>>

Next == (\E t \in Table : Grow(t) \/ Keep(t)) \/ Move

Spec == Init /\ [][Next]_log
=============================================================================
