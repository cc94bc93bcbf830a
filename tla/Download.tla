------------------------------ MODULE Download ------------------------------
(***************************************************************************)
(* `gcampda --download` and `gcampda --init`: how the records that a       *)
(* Campbell data logger keeps in its table memory reach the data files,    *)
(* and how the cursors that say where to resume (data/STATION.conf) are    *)
(* read, advanced and saved.  gcampda.c and gcampda_conf.c, with the       *)
(* record collecting functions of pakbus.c.                                *)
(*                                                                         *)
(* One process runs at a time (module LockFile is about two of them).  It  *)
(* may die at any step; what stdio had not flushed is then lost, possibly  *)
(* in the middle of a line.  The logger goes on producing records, and its *)
(* table memory is a ring that overwrites the oldest ones.                 *)
(***************************************************************************)
EXTENDS Integers, FiniteSets

CONSTANTS
    NTables,        \* tables in the logger's table definitions, numbered from 1
    Downloadable,   \* those with "download = 1" and an unchanged signature
    Capacity,       \* records the logger keeps of each table
    Batch,          \* most records one reply of the logger carries
    ChkLastRecord,  \* the settings of chk_last_record that processes run with
    MaxRecord,      \* bound: records a table produces
    MaxCrash,       \* bound: deaths of the process
    Trouble,        \* what goes wrong: "reply", "file" or "check" (lost, not
                    \* opened, the cursor moved by the check of the last line)
    MaxFault,       \* bound: times that it does
    MaxInit         \* bound: runs with --init

ASSUME DownloadAssumption ==
    /\ NTables \in Nat
    /\ Downloadable \subseteq 1..NTables
    /\ Capacity \in Nat \ {0}
    /\ Batch \in Nat \ {0}
    /\ ChkLastRecord \subseteq {0, 1}
    /\ Trouble \subseteq {"reply", "file", "check"}
    /\ MaxRecord \in Nat \ {0}
    /\ MaxCrash \in Nat /\ MaxFault \in Nat /\ MaxInit \in Nat

Tables  == 1..NTables
Record  == 0..MaxRecord - 1
Cursor  == 0..MaxRecord

\* The list of struct dl_conf, or the part of it that a file holds: the cursor
\* (next_record) of each table, in the order of the table numbers.
DlConf  == UNION {[1..k -> Cursor] : k \in 0..NTables}
NoTable == [t \in 1..0 |-> 0]

VARIABLES
    next,       \* next[t]: records the logger has produced in table t
    conf,       \* data/STATION.conf
    file,       \* file[t]: records with an intact line in the data file of t
    created,    \* tables whose data file exists
    tail,       \* tables whose data file ends in the middle of a line
    pc,         \* where the process is, "idle" when none runs
    chk,        \* GC_CHK_LAST_RECORD: gcampda.conf, or --nochklastrecord
    dp,         \* the node of the list that gcampda_data_download is at
    dl,         \* the list, DL_TBL_LAST_RECORD of each node
    last,       \* CR_TDF_LAST_RECORD_READ of the table being collected
    to,         \* the second argument of cr_get_table_from_to
    buf,        \* records written to the data file since it was opened
    skipped,    \* history: overwritten in the logger before they were asked for
    garbled,    \* history: written behind an unfinished line
    dup,        \* history: records with more than one intact line
    rewound,    \* history: tables whose cursor was put back
    ahead,      \* history: tables whose cursor the check put forward
    unread,     \* history: 1 if a download could not read the configuration file
    crashes, faults, inits

logger  == <<next>>
disk    == <<conf, file, created, tail>>
process == <<pc, chk, dp, dl, last, to, buf>>
history == <<skipped, garbled, dup, rewound, ahead, unread>>
counts  == <<crashes, faults, inits>>
vars    == <<logger, disk, process, history, counts>>

\* What is on record about table t: in the file, or known to be out of reach.
Accounted(t) == file[t] \cup skipped[t] \cup garbled[t]
Produced(t)  == 0..next[t] - 1
-----------------------------------------------------------------------------
Init ==
    /\ next = [t \in Tables |-> 1]
    /\ conf = NoTable
    /\ file = [t \in Tables |-> {}]
    /\ created = {} /\ tail = {}
    /\ pc = "idle" /\ chk = 0 /\ dp = 1 /\ dl = NoTable
    /\ last = 0 /\ to = 0 /\ buf = {}
    /\ skipped = [t \in Tables |-> {}]
    /\ garbled = [t \in Tables |-> {}]
    /\ dup = [t \in Tables |-> {}]
    /\ rewound = {} /\ ahead = {} /\ unread = 0
    /\ crashes = 0 /\ faults = 0 /\ inits = 0

Fault(kind) == kind \in Trouble /\ faults < MaxFault /\ faults' = faults + 1

\* The process is over: by itself, or because it died.
Ended == /\ pc' = "idle" /\ chk' = 0 /\ dp' = 1 /\ dl' = NoTable
         /\ last' = 0 /\ to' = 0 /\ buf' = {}
-----------------------------------------------------------------------------
(* The logger: its scan adds a record to a table.                           *)
Produce(t) ==
    /\ next[t] < MaxRecord
    /\ next' = [next EXCEPT ![t] = @ + 1]
    /\ UNCHANGED <<disk, process, history, counts>>

Oldest(t) == IF next[t] > Capacity THEN next[t] - Capacity ELSE 0
-----------------------------------------------------------------------------
(* Data files, through stdio: records are written in ascending order, and  *)
(* reach the disk in that order when the file is closed or earlier.         *)

\* The first record written after an unfinished line ends up on that line.
Spoiled(t, F) == IF t \in tail THEN {r \in F : \A q \in F : r <= q} ELSE {}

\* The records F reach the file of t; torn: so does a part of the next one.
ReachDisk(t, F, torn) ==
    LET intact == F \ Spoiled(t, F)
    IN  /\ file' = [file EXCEPT ![t] = @ \cup intact]
        /\ garbled' = [garbled EXCEPT ![t] = @ \cup Spoiled(t, F)]
        /\ dup' = [dup EXCEPT ![t] = @ \cup (intact \cap file[t])]
        /\ tail' = IF torn THEN tail \cup {t}
                   ELSE IF F # {} THEN tail \ {t} ELSE tail
-----------------------------------------------------------------------------
(* main: connect, then --download under the data lock, or --init.          *)
StartDownload ==
    /\ pc = "idle"
    /\ pc' = "tdf" /\ chk' \in ChkLastRecord
    /\ UNCHANGED <<logger, disk, dp, dl, last, to, buf, history, counts>>

StartInit ==
    /\ pc = "idle" /\ inits < MaxInit
    /\ pc' = "init" /\ inits' = inits + 1
    /\ UNCHANGED <<logger, disk, chk, dp, dl, last, to, buf, history, crashes, faults>>

\* Mutant: the list is written back although it was never read.
GetTdfFailsSaves ==
    /\ pc \in {"tdf", "init"}
    /\ Fault("reply")
    /\ pc' = "table"
    /\ UNCHANGED <<logger, disk, chk, dp, dl, last, to, buf, history, crashes, inits>>

\* cr_get_tdf fails: neither the files nor the cursors are touched.
GetTdfFails ==
    /\ pc \in {"tdf", "init"}
    /\ Fault("reply")
    /\ Ended
    /\ UNCHANGED <<logger, disk, history, crashes, inits>>

\* --init: a list with every table of the logger, its cursors at 0.
TdfToDlConf ==
    /\ pc = "init"
    /\ pc' = "table" /\ dl' = [t \in Tables |-> 0] /\ dp' = NTables + 1
    /\ rewound' = rewound \cup {t \in Tables : file[t] # {}}
    /\ UNCHANGED <<logger, disk, chk, last, to, buf, skipped, garbled, dup, ahead, unread, counts>>

\* --download: the list is what the configuration file holds.
ReadDlConf ==
    /\ pc = "tdf"
    /\ pc' = "table" /\ dl' = conf /\ dp' = 1
    /\ UNCHANGED <<logger, disk, chk, last, to, buf, history, counts>>

\* It cannot be opened: the list is NULL, which nobody looks at; it is written
\* back as it is.
ReadDlConfFails ==
    /\ pc = "tdf"
    /\ Fault("file")
    /\ pc' = "table" /\ dl' = NoTable /\ dp' = 1
    /\ unread' = 1
    /\ UNCHANGED <<logger, disk, chk, last, to, buf, skipped, garbled, dup, rewound, ahead,
                   crashes, inits>>
-----------------------------------------------------------------------------
(* gcampda_data_download_table                                             *)
AtTable == pc = "table" /\ dp \in DOMAIN dl

SkipTable ==
    /\ AtTable /\ dp \notin Downloadable
    /\ dp' = dp + 1
    /\ UNCHANGED <<logger, disk, pc, chk, dl, last, to, buf, history, counts>>

OpenFails ==
    /\ AtTable /\ dp \in Downloadable
    /\ Fault("file")
    /\ dp' = dp + 1
    /\ UNCHANGED <<logger, disk, pc, chk, dl, last, to, buf, history, crashes, inits>>

Checked == chk # 0 /\ dp \in created

\* "Last register in ... is bad, fix it.": the table is left alone.
CheckRefuses ==
    /\ AtTable /\ dp \in Downloadable /\ Checked
    /\ dp' = dp + 1
    /\ UNCHANGED <<logger, disk, pc, chk, dl, last, to, buf, history, counts>>

\* fopen "a+": the file exists from now on.
Opened ==
    /\ AtTable /\ dp \in Downloadable
    /\ created' = created \cup {dp}
    /\ pc' = "latest" /\ last' = 0 /\ buf' = {}
    /\ UNCHANGED <<logger, conf, file, tail, chk, dp, to, skipped, garbled, dup, unread>>

OpenDataFile == Opened /\ UNCHANGED <<dl, rewound, ahead, counts>>

\* The sscanf of the check stops at the comma that follows the time stamp and
\* leaves its result variable as it was: any value becomes the cursor.
CheckMovesCursor ==
    /\ Opened /\ Checked
    /\ Fault("check")
    /\ \E c \in Cursor \ {dl[dp]} :
           /\ dl' = [dl EXCEPT ![dp] = c]
           /\ IF c < dl[dp] THEN rewound' = rewound \cup {dp} /\ UNCHANGED ahead
                            ELSE ahead' = ahead \cup {dp} /\ UNCHANGED rewound
    /\ UNCHANGED <<crashes, inits>>
-----------------------------------------------------------------------------
(* cr_get_table_from: where the table ends now.                            *)


\* The number of the most recent record, plus one.
frn == next[dp]

LatestLost ==
    /\ pc = "latest"
    /\ Fault("reply")
    /\ pc' = "close"
    /\ UNCHANGED <<logger, disk, chk, dp, dl, last, to, buf, history, crashes, inits>>

LatestBehind ==
    /\ pc = "latest" /\ dl[dp] > frn
    /\ pc' = "close"
    /\ UNCHANGED <<logger, disk, chk, dp, dl, last, to, buf, history, counts>>

\* Mutant: collecting starts where the table does.
FromStart == 0

\* The first record to ask for.
From == dl[dp]

Latest ==
    /\ pc = "latest" /\ dl[dp] <= frn
    /\ pc' = "collect" /\ last' = From /\ to' = frn
    /\ UNCHANGED <<logger, disk, chk, dp, dl, buf, history, counts>>
-----------------------------------------------------------------------------
(* cr_get_table_from_to: the loop over cr_collect_data and                 *)
(* pak_fprintf_table.                                                      *)

\* The first record of the reply: the one asked for, or the oldest there is.
FirstSent == IF last < Oldest(dp) THEN Oldest(dp) ELSE last

\* Mutants: the counter stops at the last record printed, or runs past it.
RecordPrinted(n) == FirstSent + n - 1
RecordPast(n)    == FirstSent + n + 1

\* CR_TDF_LAST_RECORD_READ after n records have been printed.
RecordAfter(n) == FirstSent + n

\* Mutant: the loop aims at the present end of the table.
MovingEnd == next[dp]

\* Where the loop ends.
RangeEnd == to

Collect(n) ==
    /\ pc = "collect" /\ last < to
    /\ FirstSent + n <= to
    /\ LET sent == FirstSent..(FirstSent + n - 1)
       IN  /\ buf' = buf \cup sent
           /\ dup' = [dup EXCEPT ![dp] = @ \cup (sent \cap buf)]
    /\ last' = RecordAfter(n) /\ to' = RangeEnd
    /\ skipped' = [skipped EXCEPT ![dp] = @ \cup last..(FirstSent - 1)]
    /\ pc' = IF FirstSent + n < RangeEnd THEN "collect" ELSE "close"
    /\ UNCHANGED <<logger, disk, chk, dp, dl, garbled, rewound, ahead, unread, counts>>

CollectLost ==
    /\ pc = "collect" /\ last < to
    /\ Fault("reply")
    /\ pc' = "close"
    /\ UNCHANGED <<logger, disk, chk, dp, dl, last, to, buf, history, crashes, inits>>

\* Mutant: the loop is left only past the end of the range.
CollectNothingPast ==
    /\ pc = "collect"
    /\ last > to \/ FirstSent > to
    /\ pc' = "close"
    /\ UNCHANGED <<logger, disk, chk, dp, dl, last, to, buf, history, counts>>

\* Nothing to ask for, or nothing left in the logger of what is asked for.
CollectNothing ==
    /\ pc = "collect"
    /\ last >= to \/ FirstSent >= to
    /\ pc' = "close"
    /\ UNCHANGED <<logger, disk, chk, dp, dl, last, to, buf, history, counts>>

\* Mutants: the cursor moves to the end of the range asked for; a session
\* leaves its last line open.
EndOfRange == to
LeftOpen   == buf # {}

\* Back in gcampda_data_download_table, however the collecting ended: the
\* cursor of the table, and the end of its file.
LastRecordRead == last
FileEndsTorn   == FALSE

CloseDataFile ==
    /\ pc = "close"
    /\ dl' = [dl EXCEPT ![dp] = LastRecordRead]
    /\ ReachDisk(dp, buf, FileEndsTorn)
    /\ rewound' = IF last < dl[dp] THEN rewound \cup {dp} ELSE rewound
    /\ pc' = "table" /\ dp' = dp + 1 /\ last' = 0 /\ to' = 0 /\ buf' = {}
    /\ UNCHANGED <<logger, conf, created, chk, skipped, ahead, unread, counts>>
-----------------------------------------------------------------------------
(* gcampda_dl_conf_write                                                   *)
AtEnd == pc = "table" /\ dp \notin DOMAIN dl

\* The file is locked, or fopen fails: the new cursors are dropped.
SaveRefused ==
    /\ AtEnd
    /\ Fault("file")
    /\ rewound' = Tables
    /\ Ended
    /\ UNCHANGED <<logger, disk, skipped, garbled, dup, ahead, unread, crashes, inits>>

\* fopen "w" empties the file ...
TruncateConf ==
    /\ AtEnd
    /\ conf' = NoTable
    /\ pc' = "write"
    /\ UNCHANGED <<logger, file, created, tail, chk, dp, dl, last, to, buf, history, counts>>

\* ... and fclose brings the list to it.
WriteConf ==
    /\ pc = "write"
    /\ conf' = dl
    /\ Ended
    /\ UNCHANGED <<logger, file, created, tail, history, counts>>
-----------------------------------------------------------------------------
(* The process dies.                                                       *)

\* Of the records still in the stdio buffer a first part has been flushed.
LoseBuffer ==
    IF buf = {}
    THEN UNCHANGED <<file, garbled, dup, tail>>
    ELSE \E k \in Cursor, torn \in BOOLEAN :
            LET F == {r \in buf : r < k}
            IN  (torn => F # buf) /\ ReachDisk(dp, F, torn)

\* Of the list being written a first part has been flushed.
LoseConf ==
    IF pc = "write"
    THEN \E k \in Tables \cup {0} :
            /\ 1..k \subseteq DOMAIN dl
            /\ conf' = [t \in 1..k |-> dl[t]]
    ELSE UNCHANGED conf

Crash ==
    /\ pc # "idle" /\ crashes < MaxCrash
    /\ crashes' = crashes + 1
    /\ LoseBuffer
    /\ LoseConf
    /\ rewound' = Tables
    /\ Ended
    /\ UNCHANGED <<logger, created, skipped, ahead, unread, faults, inits>>
-----------------------------------------------------------------------------
\* What the process does when nothing goes wrong.
Step ==
    \/ TdfToDlConf \/ ReadDlConf
    \/ SkipTable \/ CheckRefuses \/ OpenDataFile
    \/ LatestBehind \/ Latest
    \/ \E n \in 1..Batch : Collect(n)
    \/ CollectNothing \/ CloseDataFile
    \/ TruncateConf \/ WriteConf

Misstep ==
    \/ GetTdfFails \/ ReadDlConfFails \/ OpenFails \/ CheckMovesCursor
    \/ LatestLost \/ CollectLost \/ SaveRefused \/ Crash

Next ==
    \/ \E t \in Tables : Produce(t)
    \/ StartDownload \/ StartInit
    \/ Step
    \/ Misstep

Spec == Init /\ [][Next]_vars

\* Every transaction ends, with a reply or a timeout (my_io.c), so a process
\* that has started goes on; and --download is run again and again.
FairSpec == Spec /\ WF_vars(Step) /\ WF_vars(StartDownload)
-----------------------------------------------------------------------------
TypeOK ==
    /\ next \in [Tables -> 1..MaxRecord]
    /\ conf \in DlConf
    /\ file \in [Tables -> SUBSET Record]
    /\ created \subseteq Tables /\ tail \subseteq Tables
    /\ pc \in {"idle", "tdf", "init", "table", "latest", "collect", "close", "write"}
    /\ chk \in {0, 1}
    /\ dp \in 1..NTables + 1
    /\ dl \in DlConf
    /\ last \in Cursor /\ to \in Cursor
    /\ buf \subseteq Record
    /\ skipped \in [Tables -> SUBSET Record]
    /\ garbled \in [Tables -> SUBSET Record]
    /\ dup \in [Tables -> SUBSET Record]
    /\ rewound \subseteq Tables /\ ahead \subseteq Tables
    /\ unread \in {0, 1}
    /\ crashes \in 0..MaxCrash /\ faults \in 0..MaxFault /\ inits \in 0..MaxInit

\* A cursor on disk never runs ahead of the data: every record below it has a
\* line in the data file, or was overwritten in the logger before it was asked
\* for, or sits on the line that a crash tore.  Whatever reply is lost, and
\* wherever the process dies; the check of the last line alone can break this.
NoLoss ==
    \A t \in DOMAIN conf \ ahead : \A r \in 0..conf[t] - 1 : r \in Accounted(t)

\* A table whose cursor was never put back (by a crash, a cursor file that
\* could not be saved, --init on a table with data, a failed question for the
\* most recent record, the check of the last line) has each record at most
\* once, although transfers were cut short between two replies.
AtMostOnce ==
    \A t \in Tables \ rewound : dup[t] = {}

\* A crash costs at most one record its line: the one that comes to stand
\* behind the torn one.
OneLinePerCrash ==
    Cardinality({x \in Tables \X Record : x[2] \in garbled[x[1]]}) <= crashes

\* Without a crash no table falls out of the configuration file, although each
\* download empties it and rewrites it from the list it has read from it; only
\* a download that cannot read the file loses tables, and then all of them.
ConfComplete ==
    crashes = 0 /\ created # {} /\ pc # "write" =>
        DOMAIN conf = Tables \/ (unread = 1 /\ conf = NoTable)

\* A reply adds lines behind what the session has written, and, unless the
\* cursor was put back, behind all that the data file holds.
InOrder ==
    [][\A r \in buf' \ buf :
          /\ \A q \in buf : q < r
          /\ dp \notin rewound => \A q \in file[dp] : q < r]_vars

\* While records are collected each reply comes nearer to an end that stands
\* still, however fast the logger produces: the loop would also end with a
\* logger that never stops.
NearsEnd ==
    [][pc = "collect" /\ pc' = "collect" /\ process' # process => to' - last' < to - last]_vars

\* Behind the files and cursors there is a log (module RecordLog): a table that
\* the check has put forward has no mark there.
Mark(t) == IF t \in DOMAIN conf \ ahead THEN conf[t] ELSE 0

Log == INSTANCE RecordLog WITH
    Table <- Tables, MaxLog <- MaxRecord,
    produced <- next,
    kept <- [t \in Tables |-> Accounted(t)],
    mark <- [t \in Tables |-> Mark(t)]

\* The download implements that log: no step takes a record off the account,
\* accounts for one the logger has not produced, works on two tables at once,
\* or saves a cursor that runs ahead.
KeepsLog == Log!Spec

\* A session ends, although the logger goes on producing while it collects.
SessionEnds == pc # "idle" ~> pc = "idle"


\* With chk_last_record the download resumes behind the last line of the file
\* (gcampda.c: "Read last register number").
ResumesBehindLastLine ==
    chk # 0 /\ pc = "latest" /\ file[dp] # {} /\ crashes = 0 =>
        \A r \in file[dp] : r < dl[dp]
=============================================================================
