---------------------------- MODULE DownloadProofs ----------------------------
(***************************************************************************)
(* Proofs about Download, for every number of tables, capacity, batch size *)
(* and bound.                                                              *)
(***************************************************************************)
EXTENDS Download, FiniteSetTheorems, TLAPS

\* The process is at a node of its list while it works on a table, and has
\* records in its buffer only while the data file of that table is open.
Located  == pc \in {"latest", "collect", "close"} => dp \in DOMAIN dl
Buffered == pc \notin {"collect", "close"} => buf = {}

TypeInv == TypeOK /\ Located /\ Buffered
-----------------------------------------------------------------------------
(* Lists of cursors.                                                       *)

\* The nodes of a list are the first tables, their cursors numbers.
LEMMA DlConfDomain ==
    ASSUME NEW d \in DlConf
    PROVE  /\ \E k \in 0..NTables : DOMAIN d = 1..k /\ d \in [1..k -> Cursor]
           /\ DOMAIN d \subseteq Tables
           /\ \A t \in DOMAIN d : d[t] \in Cursor
BY DownloadAssumption DEF DlConf, Tables, Cursor

\* Moving one cursor leaves a list a list, with the same nodes.
LEMMA DlConfExcept ==
    ASSUME NEW d \in DlConf, NEW t \in DOMAIN d, NEW c \in Cursor
    PROVE  /\ [d EXCEPT ![t] = c] \in DlConf
           /\ DOMAIN [d EXCEPT ![t] = c] = DOMAIN d
<1>1. PICK k \in 0..NTables : DOMAIN d = 1..k /\ d \in [1..k -> Cursor]
  BY DlConfDomain
<1>2. [d EXCEPT ![t] = c] \in [1..k -> Cursor]
  BY <1>1
<1>. QED
  BY <1>1, <1>2 DEF DlConf

\* The empty list, and the list of every table with its cursor at 0.
LEMMA DlConfEmpty == NoTable \in DlConf /\ DOMAIN NoTable = {}
<1>1. NoTable \in [1..0 -> Cursor] /\ DOMAIN NoTable = {}
  BY DEF NoTable, Cursor
<1>2. 0 \in 0..NTables
  BY DownloadAssumption
<1>. QED
  BY <1>1, <1>2 DEF DlConf

LEMMA DlConfZero == [t \in Tables |-> 0] \in DlConf
<1>1. 0 \in Cursor /\ NTables \in 0..NTables
  BY DownloadAssumption DEF Cursor
<1>. QED
  BY <1>1 DEF DlConf, Tables

\* A first part of a list is a list.
LEMMA DlConfPrefix ==
    ASSUME NEW d \in DlConf, NEW k \in Tables \cup {0}, 1..k \subseteq DOMAIN d
    PROVE  [t \in 1..k |-> d[t]] \in DlConf
<1>1. [t \in 1..k |-> d[t]] \in [1..k -> Cursor]
  BY DlConfDomain
<1>2. k \in 0..NTables
  BY DownloadAssumption DEF Tables
<1>. QED
  BY <1>1, <1>2 DEF DlConf

-----------------------------------------------------------------------------
(* What reaches the disk.                                                  *)

\* Writing F to the file of t keeps the files well formed, takes nothing off
\* record, and puts every record of F on record.
LEMMA ReachDiskFacts ==
    ASSUME TypeOK, NEW t \in Tables, NEW F \in SUBSET Record, NEW torn \in BOOLEAN,
           ReachDisk(t, F, torn), skipped' = skipped
    PROVE  /\ file' \in [Tables -> SUBSET Record]
           /\ garbled' \in [Tables -> SUBSET Record]
           /\ dup' \in [Tables -> SUBSET Record]
           /\ tail' \subseteq Tables
           /\ \A u \in Tables : Accounted(u) \subseteq Accounted(u)'
           /\ F \subseteq Accounted(t)'
           /\ \A u \in Tables \ {t} : file'[u] = file[u] /\ dup'[u] = dup[u]
           /\ file'[t] \subseteq file[t] \cup F
           /\ dup'[t] \subseteq dup[t] \cup (F \cap file[t])
<1>. DEFINE S == Spoiled(t, F)
<1>1. S \subseteq F
  BY DEF Spoiled
<1>2. /\ file' = [file EXCEPT ![t] = @ \cup (F \ S)]
      /\ garbled' = [garbled EXCEPT ![t] = @ \cup S]
      /\ dup' = [dup EXCEPT ![t] = @ \cup ((F \ S) \cap file[t])]
      /\ tail' = IF torn THEN tail \cup {t}
                 ELSE IF F # {} THEN tail \ {t} ELSE tail
  BY DEF ReachDisk
<1>. HIDE DEF S
<1>3. /\ file \in [Tables -> SUBSET Record]
      /\ garbled \in [Tables -> SUBSET Record]
      /\ dup \in [Tables -> SUBSET Record]
      /\ tail \subseteq Tables
  BY DEF TypeOK
<1>. QED
  BY <1>1, <1>2, <1>3 DEF Accounted
-----------------------------------------------------------------------------
(* Type correctness.                                                       *)

LEMMA TypeInit == Init => TypeInv
<1>. SUFFICES ASSUME Init PROVE TypeInv
  OBVIOUS
<1>1. 1 \in 1..MaxRecord /\ 0 \in Cursor
  BY DownloadAssumption DEF Cursor
<1>2. conf \in DlConf /\ dl \in DlConf
  BY DlConfEmpty DEF Init
<1>. QED
  BY <1>1, <1>2, DownloadAssumption DEF Init, TypeInv, TypeOK, Located, Buffered, Tables

LEMMA TypeStep == TypeInv /\ [Next]_vars => TypeInv'
<1>. SUFFICES ASSUME TypeInv, [Next]_vars PROVE TypeInv'
  OBVIOUS
<1>. USE DEF TypeInv, logger, disk, process, history, counts
<1>a. /\ 0 \in Cursor
      /\ NTables \in Nat
      /\ \A t \in Tables : t + 1 \in 1..NTables + 1
      /\ 1 \in 1..NTables + 1 /\ NTables + 1 \in 1..NTables + 1
      /\ DOMAIN dl \subseteq Tables
  BY DownloadAssumption, DlConfDomain DEF Cursor, Tables, TypeOK
<1>b. ASSUME Ended PROVE /\ pc' = "idle" /\ chk' \in {0, 1} /\ dp' \in 1..NTables + 1
                         /\ dl' \in DlConf /\ last' \in Cursor /\ to' \in Cursor
                         /\ buf' = {} /\ Located' /\ Buffered'
  BY <1>b, <1>a, DlConfEmpty DEF Ended, Located, Buffered
<1>c. ASSUME NEW k, Fault(k) PROVE faults' \in 0..MaxFault
  BY <1>c, DownloadAssumption DEF Fault, TypeOK
<1>1. ASSUME NEW t \in Tables, Produce(t) PROVE TypeInv'
  BY <1>1, DownloadAssumption DEF Produce, TypeOK, Located, Buffered
<1>2. CASE StartDownload
  BY <1>2, DownloadAssumption DEF StartDownload, TypeOK, Located, Buffered
<1>3. CASE StartInit
  BY <1>3, DownloadAssumption DEF StartInit, TypeOK, Located, Buffered
<1>4. CASE TdfToDlConf
  BY <1>4, <1>a, DlConfZero DEF TdfToDlConf, TypeOK, Located, Buffered
<1>5. CASE ReadDlConf
  BY <1>5, <1>a DEF ReadDlConf, TypeOK, Located, Buffered
<1>6. CASE SkipTable
  BY <1>6, <1>a DEF SkipTable, AtTable, TypeOK, Located, Buffered
<1>7. CASE CheckRefuses
  BY <1>7, <1>a DEF CheckRefuses, AtTable, TypeOK, Located, Buffered
<1>8. CASE OpenDataFile
  BY <1>8, <1>a DEF OpenDataFile, Opened, AtTable, TypeOK, Located, Buffered
<1>9. CASE LatestBehind
  BY <1>9 DEF LatestBehind, TypeOK, Located, Buffered
<1>10. CASE Latest
  <2>1. dl[dp] \in Cursor
    BY <1>10, DlConfDomain DEF Latest, Located, TypeOK
  <2>2. next[dp] \in Cursor
    BY <1>10, <1>a, DownloadAssumption DEF Latest, Located, TypeOK, Cursor
  <2>. QED
    BY <1>10, <2>1, <2>2 DEF Latest, From, frn, TypeOK, Located, Buffered
<1>11. ASSUME NEW n \in 1..Batch, Collect(n) PROVE TypeInv'
  <2>1. /\ FirstSent \in Nat /\ n \in Nat \ {0} /\ last <= FirstSent /\ last \in Nat
        /\ dp \in Tables
    BY <1>11, <1>a, DownloadAssumption
    DEF Collect, FirstSent, Oldest, Located, TypeOK, Cursor
  <2>2. FirstSent + n \in Cursor
    BY <1>11, <2>1, DownloadAssumption DEF Collect, TypeOK, Cursor
  <2>3. FirstSent..(FirstSent + n - 1) \subseteq Record
    BY <2>1, <2>2, DownloadAssumption DEF Cursor, Record
  <2>4. last..(FirstSent - 1) \subseteq Record
    BY <2>1, <2>2, DownloadAssumption DEF Cursor, Record
  <2>5. /\ buf' = buf \cup FirstSent..(FirstSent + n - 1)
        /\ dup' = [dup EXCEPT ![dp] = @ \cup (FirstSent..(FirstSent + n - 1) \cap buf)]
        /\ skipped' = [skipped EXCEPT ![dp] = @ \cup last..(FirstSent - 1)]
        /\ last' = FirstSent + n
        /\ pc' \in {"collect", "close"}
    BY <1>11 DEF Collect, RecordAfter
  <2>6. /\ buf' \subseteq Record
        /\ dup' \in [Tables -> SUBSET Record]
        /\ skipped' \in [Tables -> SUBSET Record]
    BY <2>3, <2>4, <2>5 DEF TypeOK
  <2>. QED
    BY <1>11, <2>2, <2>5, <2>6 DEF Collect, RangeEnd, TypeOK, Located, Buffered
<1>12. CASE CollectNothing
  BY <1>12 DEF CollectNothing, TypeOK, Located, Buffered
<1>13. CASE CloseDataFile
  <2>1. dp \in DOMAIN dl /\ dp \in Tables
    BY <1>13, <1>a DEF CloseDataFile, Located
  <2>2. dl' \in DlConf
    BY <1>13, <2>1, DlConfExcept DEF CloseDataFile, LastRecordRead, TypeOK
  <2>3. /\ file' \in [Tables -> SUBSET Record] /\ garbled' \in [Tables -> SUBSET Record]
        /\ dup' \in [Tables -> SUBSET Record] /\ tail' \subseteq Tables
    BY <1>13, <2>1, ReachDiskFacts DEF CloseDataFile, FileEndsTorn, TypeOK
  <2>. QED
    BY <1>13, <1>a, <2>1, <2>2, <2>3 DEF CloseDataFile, TypeOK, Located, Buffered
<1>14. CASE TruncateConf
  BY <1>14, DlConfEmpty DEF TruncateConf, AtEnd, TypeOK, Located, Buffered
<1>15. CASE WriteConf
  BY <1>15, <1>b DEF WriteConf, TypeOK
<1>16. CASE GetTdfFails
  BY <1>16, <1>b, <1>c DEF GetTdfFails, TypeOK
<1>17. CASE OpenFails
  BY <1>17, <1>a, <1>c DEF OpenFails, AtTable, TypeOK, Located, Buffered
<1>18. CASE LatestLost
  BY <1>18, <1>c DEF LatestLost, TypeOK, Located, Buffered
<1>19. CASE CollectLost
  BY <1>19, <1>c DEF CollectLost, TypeOK, Located, Buffered
<1>20. CASE SaveRefused
  BY <1>20, <1>b, <1>c DEF SaveRefused, TypeOK
<1>21. CASE Crash
  <2>1. crashes' \in 0..MaxCrash
    BY <1>21, DownloadAssumption DEF Crash, TypeOK
  <2>2. /\ file' \in [Tables -> SUBSET Record] /\ garbled' \in [Tables -> SUBSET Record]
        /\ dup' \in [Tables -> SUBSET Record] /\ tail' \subseteq Tables
    <3>1. CASE buf = {}
      BY <1>21, <3>1 DEF Crash, LoseBuffer, TypeOK
    <3>2. CASE buf # {}
      <4>1. dp \in Tables
        BY <3>2, <1>a DEF Buffered, Located
      <4>2. PICK k \in Cursor, torn \in BOOLEAN : ReachDisk(dp, {r \in buf : r < k}, torn)
        BY <1>21, <3>2 DEF Crash, LoseBuffer
      <4>3. {r \in buf : r < k} \in SUBSET Record
        BY DEF TypeOK
      <4>. QED
        BY <1>21, <4>1, <4>2, <4>3, ReachDiskFacts DEF Crash
    <3>. QED
      BY <3>1, <3>2
  <2>3. conf' \in DlConf
    <3>1. CASE pc = "write"
      BY <1>21, <3>1, DlConfPrefix DEF Crash, LoseConf, TypeOK
    <3>2. CASE pc # "write"
      BY <1>21, <3>2 DEF Crash, LoseConf, TypeOK
    <3>. QED
      BY <3>1, <3>2
  <2>. QED
    BY <1>21, <1>b, <2>1, <2>2, <2>3 DEF Crash, TypeOK
<1>22. CASE CheckMovesCursor
  <2>1. PICK c \in Cursor : dl' = [dl EXCEPT ![dp] = c]
    BY <1>22 DEF CheckMovesCursor
  <2>2. dl' \in DlConf /\ DOMAIN dl' = DOMAIN dl
    BY <2>1, <1>22, DlConfExcept DEF CheckMovesCursor, Opened, AtTable, TypeOK
  <2>3. rewound' \subseteq Tables /\ ahead' \subseteq Tables
    BY <1>22, <1>a DEF CheckMovesCursor, Opened, AtTable, TypeOK
  <2>. QED
    BY <2>2, <2>3, <1>22, <1>a, <1>c
    DEF CheckMovesCursor, Opened, AtTable, TypeOK, Located, Buffered
<1>23. CASE UNCHANGED vars
  BY <1>23 DEF vars, TypeOK, Located, Buffered
<1>24. CASE ReadDlConfFails
  BY <1>24, <1>a, <1>c, DlConfEmpty DEF ReadDlConfFails, TypeOK, Located, Buffered
<1>. QED
  BY <1>1, <1>2, <1>3, <1>4, <1>5, <1>6, <1>7, <1>8, <1>9, <1>10, <1>11, <1>12, <1>13,
     <1>14, <1>15, <1>16, <1>17, <1>18, <1>19, <1>20, <1>21, <1>22, <1>23, <1>24
  DEF Next, Step, Misstep

\* The variables of the download keep their types: cursors and counters stay in
\* range, and the list being read and the one on disk are lists of tables.
THEOREM TypeCorrect == Spec => []TypeOK
<1>1. Spec => []TypeInv
  BY TypeInit, TypeStep, PTL DEF Spec
<1>2. TypeInv => TypeOK
  BY DEF TypeInv
<1>. QED
  BY <1>1, <1>2, PTL
-----------------------------------------------------------------------------
(* No loss.  NoLoss is not inductive: what is written to disk is the list  *)
(* in memory, and what moves a cursor of that list is the collecting loop. *)

\* The cursors in memory are covered like those on disk ...
MemoryCovered ==
    \A t \in DOMAIN dl \ ahead : \A r \in 0..dl[t] - 1 : r \in Accounted(t)

\* ... and all that the loop has passed is on record or in the buffer.
SessionCovered ==
    /\ pc = "latest" => last = 0
    /\ pc \in {"collect", "close"} /\ dp \notin ahead =>
           \A r \in 0..last - 1 : r \in Accounted(dp) \cup buf

LossInv == TypeInv /\ NoLoss /\ MemoryCovered /\ SessionCovered

LEMMA LossInit == Init => LossInv
<1>. SUFFICES ASSUME Init PROVE LossInv
  OBVIOUS
<1>1. TypeInv
  BY TypeInit
<1>2. DOMAIN conf = {} /\ DOMAIN dl = {} /\ pc = "idle"
  BY DlConfEmpty DEF Init
<1>. QED
  BY <1>1, <1>2 DEF LossInv, NoLoss, MemoryCovered, SessionCovered

\* Nothing goes off record.
LEMMA AccountedGrows ==
    ASSUME TypeInv, [Next]_vars
    PROVE  \A u \in Tables : Accounted(u) \subseteq Accounted(u)'
<1>. USE DEF logger, disk, process, history, counts
<1>1. CASE file' = file /\ skipped' = skipped /\ garbled' = garbled
  BY <1>1 DEF Accounted
<1>2. ASSUME NEW n \in 1..Batch, Collect(n)
      PROVE  \A u \in Tables : Accounted(u) \subseteq Accounted(u)'
  BY <1>2 DEF Collect, Accounted, TypeInv, TypeOK
<1>3. CASE CloseDataFile
  <2>1. dp \in Tables
    BY <1>3, DlConfDomain DEF CloseDataFile, TypeInv, TypeOK, Located
  <2>. QED
    BY <1>3, <2>1, ReachDiskFacts DEF CloseDataFile, FileEndsTorn, TypeInv, TypeOK
<1>4. CASE Crash /\ buf # {}
  <2>1. dp \in Tables
    BY <1>4, DlConfDomain DEF TypeInv, TypeOK, Buffered, Located
  <2>2. PICK k \in Cursor, torn \in BOOLEAN : ReachDisk(dp, {r \in buf : r < k}, torn)
    BY <1>4 DEF Crash, LoseBuffer
  <2>3. {r \in buf : r < k} \in SUBSET Record
    BY DEF TypeInv, TypeOK
  <2>. QED
    BY <1>4, <2>1, <2>2, <2>3, ReachDiskFacts DEF Crash, TypeInv
<1>5. CASE Crash /\ buf = {}
  BY <1>5, <1>1 DEF Crash, LoseBuffer
<1>. QED
  BY <1>1, <1>2, <1>3, <1>4, <1>5
  DEF Next, Step, Misstep, vars, Produce, StartDownload, StartInit, TdfToDlConf,
      ReadDlConf, ReadDlConfFails, SkipTable, CheckRefuses, OpenDataFile, CheckMovesCursor, Opened,
      LatestBehind, Latest, CollectNothing, TruncateConf, WriteConf, GetTdfFails, OpenFails, LatestLost,
      CollectLost, SaveRefused

LEMMA LossStep == LossInv /\ [Next]_vars => LossInv'
<1>. SUFFICES ASSUME LossInv, [Next]_vars PROVE LossInv'
  OBVIOUS
<1>. USE DEF logger, disk, process, history, counts
<1>t. TypeInv /\ TypeInv'
  BY TypeStep DEF LossInv
<1>g. \A u \in Tables : Accounted(u) \subseteq Accounted(u)'
  BY <1>t, AccountedGrows
<1>d. /\ DOMAIN dl \subseteq Tables /\ DOMAIN conf \subseteq Tables
      /\ \A t \in DOMAIN dl : dl[t] \in Cursor
      /\ \A t \in DOMAIN conf : conf[t] \in Cursor
  BY <1>t, DlConfDomain DEF TypeInv, TypeOK
<1>p. pc \in {"latest", "collect", "close"} => dp \in DOMAIN dl /\ dp \in Tables
  BY <1>t, <1>d DEF TypeInv, Located
<1>n. DOMAIN NoTable = {}
  BY DlConfEmpty
\* The three parts, when the cursors they are about do not move.
<1>A. ASSUME conf' = conf, ahead \subseteq ahead' PROVE NoLoss'
  BY <1>A, <1>g, <1>d DEF LossInv, NoLoss
<1>B. ASSUME dl' = dl, ahead \subseteq ahead' PROVE MemoryCovered'
  BY <1>B, <1>g, <1>d DEF LossInv, MemoryCovered
<1>C. ASSUME pc' = "close", pc \in {"collect", "close"}, last' = last, dp' = dp, buf' = buf,
             ahead' = ahead
      PROVE  SessionCovered'
  BY <1>C, <1>g, <1>p DEF LossInv, SessionCovered
<1>D. ASSUME pc' \notin {"latest", "collect", "close"} PROVE SessionCovered'
  BY <1>D DEF SessionCovered
<1>E. ASSUME Ended PROVE MemoryCovered' /\ SessionCovered'
  BY <1>E, <1>n DEF Ended, MemoryCovered, SessionCovered
<1>1. ASSUME NEW t \in Tables, Produce(t) PROVE LossInv'
  <2>1. SessionCovered'
    BY <1>1, <1>g, <1>p DEF Produce, LossInv, SessionCovered
  <2>. QED
    BY <1>1, <2>1, <1>t, <1>A, <1>B DEF Produce, LossInv
<1>2. CASE StartDownload
  BY <1>2, <1>t, <1>A, <1>B, <1>D DEF StartDownload, LossInv
<1>3. CASE StartInit
  BY <1>3, <1>t, <1>A, <1>B, <1>D DEF StartInit, LossInv
<1>4. CASE TdfToDlConf
  <2>1. MemoryCovered'
    BY <1>4 DEF TdfToDlConf, MemoryCovered
  <2>. QED
    BY <1>4, <2>1, <1>t, <1>A, <1>D DEF TdfToDlConf, LossInv
<1>5. CASE ReadDlConf
  <2>1. MemoryCovered'
    BY <1>5, <1>A DEF ReadDlConf, NoLoss, MemoryCovered
  <2>. QED
    BY <1>5, <2>1, <1>t, <1>A, <1>D DEF ReadDlConf, LossInv
<1>6. CASE SkipTable
  BY <1>6, <1>t, <1>A, <1>B, <1>D DEF SkipTable, AtTable, LossInv
<1>7. CASE CheckRefuses
  BY <1>7, <1>t, <1>A, <1>B, <1>D DEF CheckRefuses, AtTable, LossInv
<1>8. CASE OpenDataFile
  <2>1. SessionCovered'
    BY <1>8 DEF OpenDataFile, Opened, SessionCovered
  <2>. QED
    BY <1>8, <2>1, <1>t, <1>A, <1>B DEF OpenDataFile, Opened, LossInv
<1>9. CASE LatestBehind
  <2>1. SessionCovered'
    BY <1>9 DEF LatestBehind, LossInv, SessionCovered
  <2>. QED
    BY <1>9, <2>1, <1>t, <1>A, <1>B DEF LatestBehind, LossInv
<1>10. CASE Latest
  <2>1. SessionCovered'
    BY <1>10, <1>p, <1>g DEF Latest, From, LossInv, MemoryCovered, SessionCovered
  <2>. QED
    BY <1>10, <2>1, <1>t, <1>A, <1>B DEF Latest, LossInv
<1>11. ASSUME NEW n \in 1..Batch, Collect(n) PROVE LossInv'
  <2>1. /\ FirstSent \in Nat /\ n \in Nat \ {0} /\ last \in Nat
    BY <1>11, <1>t, <1>p, DownloadAssumption
    DEF Collect, FirstSent, Oldest, TypeInv, TypeOK, Cursor
  <2>2. /\ buf' = buf \cup FirstSent..(FirstSent + n - 1)
        /\ skipped' = [skipped EXCEPT ![dp] = @ \cup last..(FirstSent - 1)]
        /\ last' = FirstSent + n
        /\ pc' \in {"collect", "close"} /\ pc = "collect"
        /\ dp' = dp /\ dl' = dl /\ conf' = conf /\ ahead' = ahead
    BY <1>11 DEF Collect, RecordAfter
  <2>3. ASSUME dp \notin ahead, NEW r \in 0..last' - 1
        PROVE  r \in Accounted(dp)' \cup buf'
    <3>1. CASE r < last
      BY <3>1, <2>1, <2>2, <2>3, <1>p, <1>g DEF LossInv, SessionCovered
    <3>2. CASE last <= r /\ r < FirstSent
      BY <3>2, <2>1, <2>2, <1>p, <1>t DEF Accounted, TypeInv, TypeOK
    <3>3. CASE FirstSent <= r
      BY <3>3, <2>1, <2>2
    <3>. QED
      BY <3>1, <3>2, <3>3, <2>1
  <2>4. SessionCovered'
    BY <2>2, <2>3 DEF SessionCovered
  <2>. QED
    BY <2>2, <2>4, <1>t, <1>A, <1>B DEF LossInv
<1>12. CASE CollectNothing
  BY <1>12, <1>t, <1>A, <1>B, <1>C DEF CollectNothing, LossInv
<1>13. CASE CloseDataFile
  <2>0. PICK t \in Tables : t = dp
    BY <1>13, <1>p DEF CloseDataFile
  <2>1. buf \subseteq Accounted(t)'
    BY <1>13, <2>0, <1>t, ReachDiskFacts
    DEF CloseDataFile, FileEndsTorn, TypeInv, TypeOK
  <2>2. ASSUME t \notin ahead PROVE \A r \in 0..last - 1 : r \in Accounted(t)'
    <3>1. \A r \in 0..last - 1 : r \in Accounted(t) \cup buf
      BY <1>13, <2>0, <2>2 DEF CloseDataFile, LossInv, SessionCovered
    <3>. QED
      BY <3>1, <2>1, <1>g
  <2>3. dl' = [dl EXCEPT ![t] = last] /\ ahead' = ahead
    BY <1>13, <2>0 DEF CloseDataFile, LastRecordRead
  <2>4. /\ DOMAIN dl' = DOMAIN dl
        /\ \A u \in DOMAIN dl : dl'[u] = IF u = t THEN last ELSE dl[u]
    BY <2>3, <1>t, DlConfDomain DEF TypeInv, TypeOK
  <2>5. MemoryCovered'
    BY <2>2, <2>3, <2>4, <1>g, <1>d DEF LossInv, MemoryCovered
  <2>. QED
    BY <1>13, <2>5, <1>t, <1>A, <1>D DEF CloseDataFile, LossInv
<1>14. CASE TruncateConf
  <2>1. NoLoss'
    BY <1>14, <1>n DEF TruncateConf, NoLoss
  <2>. QED
    BY <1>14, <2>1, <1>t, <1>B, <1>D DEF TruncateConf, LossInv
<1>15. CASE WriteConf
  <2>1. NoLoss'
    BY <1>15, <1>g, <1>d DEF WriteConf, LossInv, MemoryCovered, NoLoss
  <2>. QED
    BY <1>15, <2>1, <1>t, <1>E DEF WriteConf, LossInv
<1>16. CASE GetTdfFails
  BY <1>16, <1>t, <1>A, <1>E DEF GetTdfFails, LossInv
<1>17. CASE OpenFails
  BY <1>17, <1>t, <1>A, <1>B, <1>D DEF OpenFails, AtTable, LossInv
<1>18. CASE LatestLost
  <2>1. SessionCovered'
    BY <1>18 DEF LatestLost, LossInv, SessionCovered
  <2>. QED
    BY <1>18, <2>1, <1>t, <1>A, <1>B DEF LatestLost, LossInv
<1>19. CASE CollectLost
  BY <1>19, <1>t, <1>A, <1>B, <1>C DEF CollectLost, LossInv
<1>20. CASE SaveRefused
  BY <1>20, <1>t, <1>A, <1>E DEF SaveRefused, LossInv
<1>21. CASE Crash
  <2>1. NoLoss'
    <3>1. CASE pc = "write"
      <4>1. PICK k \in Tables \cup {0} : /\ 1..k \subseteq DOMAIN dl
                                        /\ conf' = [t \in 1..k |-> dl[t]]
        BY <1>21, <3>1 DEF Crash, LoseConf
      <4>. QED
        BY <1>21, <4>1, <1>g, <1>d DEF Crash, LossInv, MemoryCovered, NoLoss
    <3>2. CASE pc # "write"
      BY <1>21, <3>2, <1>A DEF Crash, LoseConf
    <3>. QED
      BY <3>1, <3>2
  <2>. QED
    BY <1>21, <2>1, <1>t, <1>E DEF Crash, LossInv
<1>22. CASE CheckMovesCursor
  <2>1. PICK c \in Cursor : dl' = [dl EXCEPT ![dp] = c]
    BY <1>22 DEF CheckMovesCursor
  <2>2. dp \in DOMAIN dl /\ dp \in Tables /\ dl[dp] \in Cursor
    BY <1>22, <1>d DEF CheckMovesCursor, Opened, AtTable
  <2>3. /\ DOMAIN dl' = DOMAIN dl
        /\ \A u \in DOMAIN dl : dl'[u] = IF u = dp THEN c ELSE dl[u]
    BY <2>1, <2>2, <1>t, DlConfDomain DEF TypeInv, TypeOK
  <2>4. ahead \subseteq ahead' /\ (dp \notin ahead' => c <= dl[dp])
    <3>1. CASE c < dl[dp]
      BY <1>22, <2>1, <2>2, <2>3, <3>1 DEF CheckMovesCursor, Cursor
    <3>2. CASE ~(c < dl[dp])
      <4>1. dl'[dp] = c
        BY <2>2, <2>3
      <4>2. PICK b \in Cursor \ {dl[dp]} :
                /\ dl' = [dl EXCEPT ![dp] = b]
                /\ IF b < dl[dp] THEN rewound' = rewound \cup {dp} /\ UNCHANGED ahead
                                 ELSE ahead' = ahead \cup {dp} /\ UNCHANGED rewound
        BY <1>22 DEF CheckMovesCursor
      <4>3. b = c
        BY <2>2, <4>1, <4>2, <1>t, DlConfDomain DEF TypeInv, TypeOK
      <4>. QED
        BY <3>2, <4>2, <4>3
    <3>. QED
      BY <3>1, <3>2
  <2>5. MemoryCovered'
    <3>. SUFFICES ASSUME NEW t \in DOMAIN dl' \ ahead', NEW r \in 0..dl'[t] - 1
                  PROVE  r \in Accounted(t)'
      BY DEF MemoryCovered
    <3>1. t \in DOMAIN dl \ ahead /\ dl'[t] <= dl[t] /\ dl[t] \in Nat /\ dl'[t] \in Nat
      BY <2>2, <2>3, <2>4, <1>d, DownloadAssumption DEF Cursor
    <3>2. r \in 0..dl[t] - 1
      BY <3>1
    <3>. QED
      BY <3>1, <3>2, <1>g, <1>d DEF LossInv, MemoryCovered
  <2>6. SessionCovered'
    BY <1>22 DEF CheckMovesCursor, Opened, SessionCovered
  <2>. QED
    BY <1>22, <2>4, <2>5, <2>6, <1>t, <1>A DEF CheckMovesCursor, Opened, LossInv
<1>23. CASE UNCHANGED vars
  <2>1. SessionCovered'
    BY <1>23, <1>g, <1>p DEF vars, LossInv, SessionCovered
  <2>. QED
    BY <1>23, <2>1, <1>t, <1>A, <1>B DEF vars, LossInv
<1>24. CASE ReadDlConfFails
  <2>1. MemoryCovered'
    BY <1>24, <1>n DEF ReadDlConfFails, MemoryCovered
  <2>. QED
    BY <1>24, <2>1, <1>t, <1>A, <1>D DEF ReadDlConfFails, LossInv
<1>. QED
  BY <1>1, <1>2, <1>3, <1>4, <1>5, <1>6, <1>7, <1>8, <1>9, <1>10, <1>11, <1>12, <1>13,
     <1>14, <1>15, <1>16, <1>17, <1>18, <1>19, <1>20, <1>21, <1>22, <1>23, <1>24
  DEF Next, Step, Misstep

\* No cursor on disk ever runs ahead of the data, whatever is lost on the line
\* and wherever the process dies, but for a table that the check of the last
\* line has put forward.
THEOREM NoLossHolds == Spec => []NoLoss
<1>1. LossInv /\ [Next]_vars => LossInv'
  BY LossStep
<1>2. Spec => []LossInv
  BY <1>1, LossInit, PTL DEF Spec
<1>3. LossInv => NoLoss
  BY DEF LossInv
<1>. QED
  BY <1>2, <1>3, PTL
-----------------------------------------------------------------------------
(* At most once.  The list that counts is the one on disk between sessions *)
(* and the one in memory during a session; a table whose cursor was never  *)
(* put back has all of its data file below that cursor, if it has one.  A  *)
(* table with data has none only after the file could not be read.         *)
FileBelow(d) ==
    \A t \in Tables \ rewound :
        IF t \in DOMAIN d THEN \A r \in file[t] : r < d[t]
                         ELSE file[t] = {} \/ unread = 1

BelowCursor ==
    /\ pc \in {"idle", "tdf", "init"} => FileBelow(conf)
    /\ pc \notin {"idle", "tdf", "init"} => FileBelow(dl)

\* What a session has written lies between its cursor and the record it is at.
BufferAbove ==
    /\ pc = "latest" => last = 0
    /\ pc = "collect" => dl[dp] <= last
    /\ \A r \in buf : dl[dp] <= r /\ r < last

OnceInv == TypeInv /\ AtMostOnce /\ BelowCursor /\ BufferAbove

LEMMA OnceInit == Init => OnceInv
<1>. SUFFICES ASSUME Init PROVE OnceInv
  OBVIOUS
<1>1. TypeInv
  BY TypeInit
<1>2. DOMAIN conf = {} /\ pc = "idle" /\ buf = {} /\ rewound = {}
  BY DlConfEmpty DEF Init
<1>3. \A t \in Tables : file[t] = {} /\ dup[t] = {}
  BY DEF Init
<1>. QED
  BY <1>1, <1>2, <1>3 DEF OnceInv, AtMostOnce, BelowCursor, FileBelow, BufferAbove

LEMMA OnceStep == OnceInv /\ [Next]_vars => OnceInv'
<1>. SUFFICES ASSUME OnceInv, [Next]_vars PROVE OnceInv'
  OBVIOUS
<1>. USE DEF logger, disk, process, history, counts
<1>t. TypeInv /\ TypeInv'
  BY TypeStep DEF OnceInv
<1>d. /\ DOMAIN dl \subseteq Tables /\ DOMAIN conf \subseteq Tables
      /\ \A t \in DOMAIN dl : dl[t] \in Cursor
      /\ \A t \in DOMAIN conf : conf[t] \in Cursor
  BY <1>t, DlConfDomain DEF TypeInv, TypeOK
<1>p. pc \in {"latest", "collect", "close"} => dp \in DOMAIN dl /\ dp \in Tables
  BY <1>t, <1>d DEF TypeInv, Located
\* The parts, when what they are about does not change.
<1>A. ASSUME dup' = dup, rewound \subseteq rewound' PROVE AtMostOnce'
  BY <1>A DEF OnceInv, AtMostOnce
<1>B. ASSUME NEW d, FileBelow(d), file' = file, rewound \subseteq rewound', unread' = unread
      PROVE  \A t \in Tables \ rewound' :
                 IF t \in DOMAIN d THEN \A r \in file'[t] : r < d[t]
                                  ELSE file'[t] = {} \/ unread' = 1
  BY <1>B DEF FileBelow
<1>C. ASSUME buf' = {}, pc' \notin {"latest", "collect"} PROVE BufferAbove'
  BY <1>C DEF BufferAbove
<1>D. ASSUME file' = file, dup' = dup, rewound' = rewound, unread' = unread,
             pc' \in {"idle", "tdf", "init"}, pc \in {"idle", "tdf", "init"}, conf' = conf
      PROVE  AtMostOnce' /\ BelowCursor'
  BY <1>A, <1>B, <1>D DEF OnceInv, BelowCursor, FileBelow
<1>E. ASSUME file' = file, dup' = dup, rewound' = rewound, unread' = unread,
             pc' \notin {"idle", "tdf", "init"}, pc \notin {"idle", "tdf", "init"}, dl' = dl
      PROVE  AtMostOnce' /\ BelowCursor'
  BY <1>A, <1>B, <1>E DEF OnceInv, BelowCursor, FileBelow
<1>F. ASSUME rewound' = Tables PROVE AtMostOnce' /\ BelowCursor'
  BY <1>F DEF AtMostOnce, BelowCursor, FileBelow
<1>G. ASSUME last' = last, buf' = buf, dl' = dl, dp' = dp, pc \in {"collect", "close"},
             pc' = "close"
      PROVE  BufferAbove'
  BY <1>G DEF OnceInv, BufferAbove
<1>1. ASSUME NEW t \in Tables, Produce(t) PROVE OnceInv'
  BY <1>1, <1>t DEF Produce, OnceInv, AtMostOnce, BelowCursor, FileBelow, BufferAbove
<1>2. CASE StartDownload
  BY <1>2, <1>t, <1>C, <1>D DEF StartDownload, OnceInv, TypeInv, Buffered
<1>3. CASE StartInit
  BY <1>3, <1>t, <1>C, <1>D DEF StartInit, OnceInv, TypeInv, Buffered
<1>4. CASE TdfToDlConf
  <2>1. AtMostOnce' /\ BelowCursor'
    BY <1>4, <1>A DEF TdfToDlConf, BelowCursor, FileBelow
  <2>. QED
    BY <1>4, <2>1, <1>t, <1>C DEF TdfToDlConf, OnceInv, TypeInv, Buffered
<1>5. CASE ReadDlConf
  <2>1. AtMostOnce' /\ BelowCursor'
    BY <1>5, <1>A, <1>B DEF ReadDlConf, OnceInv, BelowCursor, FileBelow
  <2>. QED
    BY <1>5, <2>1, <1>t, <1>C DEF ReadDlConf, OnceInv, TypeInv, Buffered
<1>6. CASE SkipTable
  BY <1>6, <1>t, <1>C, <1>E DEF SkipTable, AtTable, OnceInv, TypeInv, Buffered
<1>7. CASE CheckRefuses
  BY <1>7, <1>t, <1>C, <1>E DEF CheckRefuses, AtTable, OnceInv, TypeInv, Buffered
<1>8. CASE OpenDataFile
  <2>1. BufferAbove'
    BY <1>8 DEF OpenDataFile, Opened, BufferAbove
  <2>. QED
    BY <1>8, <2>1, <1>t, <1>E DEF OpenDataFile, Opened, AtTable, OnceInv
<1>9. CASE LatestBehind
  <2>1. buf' = {}
    BY <1>9, <1>t DEF LatestBehind, TypeInv, Buffered
  <2>. QED
    BY <1>9, <2>1, <1>t, <1>C, <1>E DEF LatestBehind, OnceInv
<1>10. CASE Latest
  <2>1. BufferAbove'
    BY <1>10, <1>t, <1>p, <1>d DEF Latest, From, BufferAbove, TypeInv, Buffered, Cursor
  <2>. QED
    BY <1>10, <2>1, <1>t, <1>E DEF Latest, OnceInv
<1>11. ASSUME NEW n \in 1..Batch, Collect(n) PROVE OnceInv'
  <2>1. /\ FirstSent \in Nat /\ n \in Nat \ {0} /\ last \in Nat /\ last <= FirstSent
        /\ dl[dp] \in Nat /\ dl[dp] <= last /\ buf \subseteq Nat
    BY <1>11, <1>t, <1>p, <1>d, DownloadAssumption
    DEF Collect, FirstSent, Oldest, TypeInv, TypeOK, Cursor, Record, OnceInv, BufferAbove
  <2>2. FirstSent..(FirstSent + n - 1) \cap buf = {}
    BY <1>11, <2>1 DEF OnceInv, BufferAbove
  <2>3. dup' = dup
    BY <1>11, <2>2, <1>t DEF Collect, TypeInv, TypeOK
  <2>4. BufferAbove'
    BY <1>11, <2>1 DEF Collect, RecordAfter, OnceInv, BufferAbove
  <2>. QED
    BY <1>11, <2>3, <2>4, <1>t, <1>E DEF Collect, OnceInv
<1>12. CASE CollectNothing
  BY <1>12, <1>t, <1>E, <1>G DEF CollectNothing, OnceInv
<1>13. CASE CloseDataFile
  <2>0. PICK t \in Tables : t = dp
    BY <1>13, <1>p DEF CloseDataFile
  <2>1. /\ \A u \in Tables \ {t} : file'[u] = file[u] /\ dup'[u] = dup[u]
        /\ file'[t] \subseteq file[t] \cup buf
        /\ dup'[t] \subseteq dup[t] \cup (buf \cap file[t])
    BY <1>13, <2>0, <1>t, ReachDiskFacts
    DEF CloseDataFile, FileEndsTorn, TypeInv, TypeOK
  <2>2. /\ dl' = [dl EXCEPT ![t] = last]
        /\ rewound' = IF last < dl[t] THEN rewound \cup {t} ELSE rewound
        /\ pc = "close" /\ pc' = "table" /\ buf' = {} /\ unread' = unread
    BY <1>13, <2>0 DEF CloseDataFile, LastRecordRead
  <2>3. /\ DOMAIN dl' = DOMAIN dl
        /\ \A u \in DOMAIN dl : dl'[u] = IF u = t THEN last ELSE dl[u]
    BY <2>2, <1>t, DlConfDomain DEF TypeInv, TypeOK
  <2>4. t \in DOMAIN dl /\ last \in Nat /\ dl[t] \in Nat /\ file[t] \subseteq Nat
        /\ buf \subseteq Nat
    BY <2>0, <2>2, <1>p, <1>d, <1>t, DownloadAssumption
    DEF TypeInv, TypeOK, Cursor, Record
  <2>5. t \notin rewound' =>
            /\ dl[t] <= last /\ dup[t] = {}
            /\ \A r \in file[t] : r < dl[t]
            /\ \A r \in buf : dl[t] <= r /\ r < last
    BY <2>0, <2>2, <2>4 DEF OnceInv, AtMostOnce, BelowCursor, FileBelow, BufferAbove
  <2>6. t \notin rewound' => dup'[t] = {} /\ \A r \in file'[t] : r < last
    <3>. SUFFICES ASSUME t \notin rewound'
                  PROVE  dup'[t] = {} /\ \A r \in file'[t] : r < last
      OBVIOUS
    <3>1. buf \cap file[t] = {}
      BY <2>4, <2>5
    <3>2. \A r \in file[t] : r < last
      <4>. TAKE r \in file[t]
      <4>1. r \in Nat /\ r < dl[t] /\ dl[t] <= last
        BY <2>4, <2>5
      <4>. QED
        BY <4>1, <2>4
    <3>. QED
      BY <3>1, <3>2, <2>1, <2>5
  <2>7. AtMostOnce'
    BY <2>1, <2>2, <2>6 DEF OnceInv, AtMostOnce
  <2>8. BelowCursor'
    BY <2>1, <2>2, <2>3, <2>4, <2>6 DEF OnceInv, BelowCursor, FileBelow
  <2>. QED
    BY <2>2, <2>7, <2>8, <1>t, <1>C DEF OnceInv
<1>14. CASE TruncateConf
  BY <1>14, <1>t, <1>C, <1>E DEF TruncateConf, AtEnd, OnceInv, TypeInv, Buffered
<1>15. CASE WriteConf
  <2>1. AtMostOnce' /\ BelowCursor'
    BY <1>15, <1>A, <1>B DEF WriteConf, Ended, OnceInv, BelowCursor, FileBelow
  <2>. QED
    BY <1>15, <2>1, <1>t, <1>C DEF WriteConf, Ended, OnceInv
<1>16. CASE GetTdfFails
  BY <1>16, <1>t, <1>C, <1>D DEF GetTdfFails, Ended, OnceInv
<1>17. CASE OpenFails
  BY <1>17, <1>t, <1>C, <1>E DEF OpenFails, AtTable, OnceInv, TypeInv, Buffered
<1>18. CASE LatestLost
  <2>1. buf' = {}
    BY <1>18, <1>t DEF LatestLost, TypeInv, Buffered
  <2>. QED
    BY <1>18, <2>1, <1>t, <1>C, <1>E DEF LatestLost, OnceInv
<1>19. CASE CollectLost
  BY <1>19, <1>t, <1>E, <1>G DEF CollectLost, OnceInv
<1>20. CASE SaveRefused
  BY <1>20, <1>t, <1>C, <1>F DEF SaveRefused, Ended, OnceInv
<1>21. CASE Crash
  BY <1>21, <1>t, <1>C, <1>F DEF Crash, Ended, OnceInv
<1>22. CASE CheckMovesCursor
  <2>1. PICK c \in Cursor :
            /\ dl' = [dl EXCEPT ![dp] = c]
            /\ IF c < dl[dp] THEN rewound' = rewound \cup {dp} /\ UNCHANGED ahead
                             ELSE ahead' = ahead \cup {dp} /\ UNCHANGED rewound
    BY <1>22 DEF CheckMovesCursor
  <2>2. /\ dp \in DOMAIN dl /\ dp \in Tables /\ dl[dp] \in Nat /\ c \in Nat
        /\ pc = "table" /\ pc' = "latest" /\ buf' = {} /\ file' = file /\ dup' = dup
        /\ last' = 0 /\ unread' = unread
    BY <1>22, <1>d, DownloadAssumption DEF CheckMovesCursor, Opened, AtTable, Cursor
  <2>3. /\ DOMAIN dl' = DOMAIN dl
        /\ \A u \in DOMAIN dl : dl'[u] = IF u = dp THEN c ELSE dl[u]
    BY <2>1, <2>2, <1>t, DlConfDomain DEF TypeInv, TypeOK
  <2>4. rewound \subseteq rewound' /\ (dp \notin rewound' => dl[dp] <= c)
    BY <2>1, <2>2
  <2>5. BelowCursor'
    <3>. SUFFICES ASSUME NEW t \in Tables \ rewound'
                  PROVE  IF t \in DOMAIN dl' THEN \A r \in file[t] : r < dl'[t]
                                              ELSE file[t] = {} \/ unread = 1
      BY <2>2 DEF BelowCursor, FileBelow
    <3>1. IF t \in DOMAIN dl THEN \A r \in file[t] : r < dl[t]
                              ELSE file[t] = {} \/ unread = 1
      BY <2>2, <2>4 DEF OnceInv, BelowCursor, FileBelow
    <3>2. file[t] \subseteq Nat
      BY <1>t, DownloadAssumption DEF TypeInv, TypeOK, Record
    <3>. QED
      BY <2>2, <2>3, <2>4, <3>1, <3>2
  <2>6. BufferAbove'
    BY <2>2 DEF BufferAbove
  <2>. QED
    BY <2>2, <2>4, <2>5, <2>6, <1>t, <1>A DEF OnceInv
<1>23. CASE UNCHANGED vars
  BY <1>23, <1>t
  DEF vars, OnceInv, AtMostOnce, BelowCursor, FileBelow, BufferAbove
<1>24. CASE ReadDlConfFails
  <2>1. AtMostOnce' /\ BelowCursor'
    BY <1>24, <1>A, DlConfEmpty DEF ReadDlConfFails, BelowCursor, FileBelow
  <2>. QED
    BY <1>24, <2>1, <1>t, <1>C DEF ReadDlConfFails, OnceInv, TypeInv, Buffered
<1>. QED
  BY <1>1, <1>2, <1>3, <1>4, <1>5, <1>6, <1>7, <1>8, <1>9, <1>10, <1>11, <1>12, <1>13,
     <1>14, <1>15, <1>16, <1>17, <1>18, <1>19, <1>20, <1>21, <1>22, <1>23, <1>24
  DEF Next, Step, Misstep

\* A table whose cursor was never put back has each record at most once,
\* however its transfers were cut short.
THEOREM AtMostOnceHolds == Spec => []AtMostOnce
<1>1. OnceInv /\ [Next]_vars => OnceInv'
  BY OnceStep
<1>2. Spec => []OnceInv
  BY <1>1, OnceInit, PTL DEF Spec
<1>3. OnceInv => AtMostOnce
  BY DEF OnceInv
<1>. QED
  BY <1>2, <1>3, PTL

\* What a reply adds.
LEMMA CollectInOrder ==
    ASSUME OnceInv, [Next]_vars, NEW r \in buf' \ buf
    PROVE  /\ \A q \in buf : q < r
           /\ dp \notin rewound => \A q \in file[dp] : q < r
<1>. USE DEF logger, disk, process, history, counts
<1>1. ~(buf' \subseteq buf)
  OBVIOUS
<1>2. PICK n \in 1..Batch : Collect(n)
  BY <1>1
  DEF Next, Step, Misstep, vars, Produce, StartDownload, StartInit, TdfToDlConf,
      ReadDlConf, ReadDlConfFails, SkipTable, CheckRefuses, OpenDataFile, CheckMovesCursor, Opened,
      LatestBehind, Latest, CollectNothing, CloseDataFile, TruncateConf, WriteConf, GetTdfFails, OpenFails,
      LatestLost, CollectLost, SaveRefused, Crash, Ended
<1>3. dp \in DOMAIN dl /\ dp \in Tables /\ dl[dp] \in Nat
  BY <1>2, DlConfDomain DEF Collect, OnceInv, TypeInv, TypeOK, Located, Cursor
<1>4. /\ FirstSent \in Nat /\ n \in Nat \ {0} /\ last \in Nat /\ last <= FirstSent
      /\ dl[dp] <= last /\ buf \subseteq Nat /\ file[dp] \subseteq Nat
  BY <1>2, <1>3, DownloadAssumption
  DEF Collect, FirstSent, Oldest, TypeInv, TypeOK, Cursor, Record, OnceInv, BufferAbove
<1>5. r \in Nat /\ last <= r
  BY <1>2, <1>4 DEF Collect
<1>6. dp \notin rewound => \A q \in file[dp] : q < dl[dp]
  BY <1>2, <1>3 DEF Collect, OnceInv, BelowCursor, FileBelow
<1>. QED
  BY <1>2, <1>3, <1>4, <1>5, <1>6 DEF Collect, OnceInv, BufferAbove

\* The lines of a data file stand in the order of the records, within a session
\* and, unless its cursor was put back, overall.
THEOREM InOrderHolds == Spec => InOrder
<1>1. OnceInv /\ [Next]_vars => OnceInv'
  BY OnceStep
<1>2. OnceInv /\ [Next]_vars =>
          [\A r \in buf' \ buf :
              /\ \A q \in buf : q < r
              /\ dp \notin rewound => \A q \in file[dp] : q < r]_vars
  BY CollectInOrder
<1>. QED
  BY <1>1, <1>2, OnceInit, PTL DEF Spec, InOrder

\* The loop over the replies ends by itself: each one leaves less of the range
\* to ask for, and the range does not grow with the table.
THEOREM NearsEndHolds == Spec => NearsEnd
<1>1. ASSUME TypeInv, [Next]_vars
      PROVE  [pc = "collect" /\ pc' = "collect" /\ process' # process => to' - last' < to - last]_vars
  <2>. USE DEF logger, disk, process, history, counts
  <2>1. CASE \E n \in 1..Batch : Collect(n)
    <3>1. PICK n \in 1..Batch : Collect(n)
      BY <2>1
    <3>2. /\ FirstSent \in Nat /\ n \in Nat \ {0} /\ last \in Nat /\ to \in Nat
          /\ last <= FirstSent
      BY <1>1, <3>1, DlConfDomain, DownloadAssumption
      DEF Collect, FirstSent, Oldest, TypeInv, TypeOK, Located, Cursor
    <3>. QED
      BY <3>1, <3>2 DEF Collect, RangeEnd, RecordAfter
  <2>2. CASE pc # "collect" \/ pc' # "collect" \/ process' = process
    BY <2>2
  <2>. QED
    BY <1>1, <2>1, <2>2
    DEF Next, Step, Misstep, vars, Produce, StartDownload, StartInit, TdfToDlConf,
        ReadDlConf, ReadDlConfFails, SkipTable, CheckRefuses, OpenDataFile,
        CheckMovesCursor, Opened, AtTable, AtEnd, LatestBehind, Latest, CollectNothing,
        CloseDataFile, TruncateConf, WriteConf, GetTdfFails, OpenFails, LatestLost,
        CollectLost, SaveRefused, Crash, Ended
<1>. QED
  BY <1>1, TypeInit, TypeStep, PTL DEF Spec, NearsEnd
-----------------------------------------------------------------------------
(* The download implements the log of module RecordLog.  A step accounts   *)
(* only for records that exist, because a session never asks beyond the    *)
(* end it has been told.                                                   *)
OnlyProduced ==
    /\ pc = "collect" => to <= next[dp]
    /\ \A r \in buf : r < next[dp]

KeepInv == LossInv /\ OnlyProduced

LEMMA KeepInit == Init => KeepInv
<1>. SUFFICES ASSUME Init PROVE KeepInv
  OBVIOUS
<1>. QED
  BY LossInit DEF Init, KeepInv, OnlyProduced

LEMMA KeepStep == KeepInv /\ [Next]_vars => KeepInv'
<1>. SUFFICES ASSUME KeepInv, [Next]_vars PROVE KeepInv'
  OBVIOUS
<1>. USE DEF logger, disk, process, history, counts
<1>t. LossInv /\ LossInv' /\ TypeInv /\ TypeInv'
  BY LossStep DEF KeepInv, LossInv
<1>. SUFFICES OnlyProduced'
  BY <1>t DEF KeepInv
<1>p. pc \in {"latest", "collect", "close"} => dp \in Tables /\ next[dp] \in Nat
  BY <1>t, DlConfDomain, DownloadAssumption DEF TypeInv, TypeOK, Located
<1>1. ASSUME NEW t \in Tables, Produce(t) PROVE OnlyProduced'
  <2>1. CASE buf = {} /\ pc # "collect"
    BY <1>1, <2>1 DEF Produce, OnlyProduced
  <2>2. CASE pc \in {"collect", "close"}
    <3>1. next'[dp] \in Nat /\ next[dp] <= next'[dp]
      BY <1>1, <2>2, <1>p, <1>t DEF Produce, TypeInv, TypeOK
    <3>2. (pc = "collect" => to \in Nat) /\ buf \subseteq Nat
      BY <1>t, DownloadAssumption DEF TypeInv, TypeOK, Record, Cursor
    <3>. QED
      BY <1>1, <2>2, <3>1, <3>2, <1>p DEF Produce, KeepInv, OnlyProduced
  <2>. QED
    BY <2>1, <2>2, <1>t DEF TypeInv, Buffered
<1>2. CASE Latest
  <2>1. buf' = {}
    BY <1>2, <1>t DEF Latest, TypeInv, Buffered
  <2>. QED
    BY <1>2, <2>1, <1>p DEF Latest, frn, OnlyProduced
<1>3. ASSUME NEW n \in 1..Batch, Collect(n) PROVE OnlyProduced'
  <2>1. /\ FirstSent \in Nat /\ n \in Nat \ {0} /\ to \in Nat
        /\ FirstSent + n <= to /\ to <= next[dp] /\ next[dp] \in Nat
    BY <1>3, <1>t, <1>p, DownloadAssumption
    DEF Collect, FirstSent, Oldest, TypeInv, TypeOK, Cursor, KeepInv, OnlyProduced
  <2>2. \A r \in FirstSent..(FirstSent + n - 1) : r < next[dp]
    BY <2>1
  <2>. QED
    BY <1>3, <2>1, <2>2 DEF Collect, RangeEnd, KeepInv, OnlyProduced
<1>4. CASE UNCHANGED <<next, dp, to>> /\ buf' = buf /\ (pc' = "collect" => pc = "collect")
  BY <1>4 DEF KeepInv, OnlyProduced
<1>5. CASE buf' = {} /\ pc' # "collect"
  BY <1>5 DEF OnlyProduced
<1>. QED
  BY <1>1, <1>2, <1>3, <1>4, <1>5, <1>t
  DEF Next, Step, Misstep, vars, StartDownload, StartInit, TdfToDlConf,
      ReadDlConf, ReadDlConfFails, SkipTable, CheckRefuses, OpenDataFile, CheckMovesCursor, Opened,
      LatestBehind, CollectNothing, CloseDataFile, TruncateConf, WriteConf, GetTdfFails,
      OpenFails, LatestLost, CollectLost, SaveRefused, Crash, Ended, AtTable, AtEnd,
      TypeInv, Buffered

\* The first list of cursors is empty: nothing is marked.
LEMMA LogInit == Init => Log!Init
<1>. SUFFICES ASSUME Init PROVE Log!Init
  OBVIOUS
<1>1. DOMAIN conf = {}
  BY DlConfEmpty DEF Init
<1>2. \A t \in Tables : Accounted(t) = {} /\ Mark(t) = 0
  BY <1>1 DEF Init, Accounted, Mark
<1>. QED
  BY <1>2 DEF Init, Log!Init

\* A step that accounts for some more records of one table.
LEMMA LogKeeps ==
    ASSUME NEW t \in Tables, next' = next, conf' = conf, ahead' = ahead,
           \A u \in Tables \ {t} : Accounted(u)' = Accounted(u),
           Accounted(t) \subseteq Accounted(t)',
           Accounted(t)' \subseteq Accounted(t) \cup 0..next[t] - 1
    PROVE  Log!Keep(t)
<1>1. \A u \in Tables : Mark(u)' = Mark(u)
  BY DEF Mark
<1>. QED
  BY <1>1 DEF Log!Keep

\* A step that accounts for nothing: its marks are covered, by NoLoss.
LEMMA LogMoves ==
    ASSUME LossInv', next' = next, file' = file, skipped' = skipped, garbled' = garbled
    PROVE  Log!Move
<1>1. \A t \in Tables : Accounted(t)' = Accounted(t)
  BY DEF Accounted
<1>2. \A t \in Tables : 0..Mark(t)' - 1 \subseteq Accounted(t)
  BY <1>1 DEF LossInv, NoLoss, Mark
<1>. QED
  BY <1>1, <1>2 DEF Log!Move

\* What is written to the file of a table is accounted for, if it exists.
LEMMA LogReachDisk ==
    ASSUME TypeOK, NEW t \in Tables, NEW F \in SUBSET buf, NEW torn \in BOOLEAN,
           \A r \in buf : r < next[t],
           ReachDisk(t, F, torn), skipped' = skipped,
           next' = next, conf' = conf, ahead' = ahead
    PROVE  Log!Keep(t)
<1>1. F \in SUBSET Record /\ F \subseteq 0..next[t] - 1
  BY DownloadAssumption DEF TypeOK, Record
<1>2. /\ file' = [file EXCEPT ![t] = @ \cup (F \ Spoiled(t, F))]
      /\ garbled' = [garbled EXCEPT ![t] = @ \cup Spoiled(t, F)]
  BY DEF ReachDisk
<1>3. Spoiled(t, F) \subseteq F
  BY DEF Spoiled
<1>4. /\ \A u \in Tables \ {t} : Accounted(u)' = Accounted(u)
      /\ Accounted(t) \subseteq Accounted(t)'
      /\ Accounted(t)' \subseteq Accounted(t) \cup F
  BY <1>2, <1>3 DEF Accounted, TypeOK
<1>. QED
  BY <1>1, <1>4, LogKeeps

LEMMA LogStep == KeepInv /\ KeepInv' /\ [Next]_vars => [Log!Next]_(Log!log)
<1>. SUFFICES ASSUME KeepInv, KeepInv', [Next]_vars PROVE Log!Next \/ UNCHANGED Log!log
  OBVIOUS
<1>. USE DEF logger, disk, process, history, counts
<1>t. TypeInv /\ LossInv'
  BY DEF KeepInv, LossInv
<1>p. pc \in {"latest", "collect", "close"} => dp \in Tables /\ next[dp] \in Nat
  BY <1>t, DlConfDomain, DownloadAssumption DEF TypeInv, TypeOK, Located
<1>1. ASSUME NEW t \in Tables, Produce(t) PROVE Log!Next
  <2>1. \A u \in Tables : Accounted(u)' = Accounted(u) /\ Mark(u)' = Mark(u)
    BY <1>1 DEF Produce, Accounted, Mark
  <2>2. Log!Grow(t)
    BY <1>1, <2>1 DEF Produce, Log!Grow
  <2>. QED
    BY <2>2 DEF Log!Next
<1>2. ASSUME NEW n \in 1..Batch, Collect(n) PROVE Log!Next
  <2>1. dp \in Tables /\ pc = "collect"
    BY <1>2, <1>p DEF Collect
  <2>2. last..(FirstSent - 1) \subseteq 0..next[dp] - 1
    BY <1>2, <2>1, <1>p, <1>t, DownloadAssumption
    DEF FirstSent, Oldest, TypeInv, TypeOK, Cursor
  <2>3. /\ \A u \in Tables \ {dp} : Accounted(u)' = Accounted(u)
        /\ Accounted(dp) \subseteq Accounted(dp)'
        /\ Accounted(dp)' \subseteq Accounted(dp) \cup last..(FirstSent - 1)
    BY <1>2, <2>1, <1>t DEF Collect, Accounted, TypeInv, TypeOK
  <2>4. Log!Keep(dp)
    BY <1>2, <2>1, <2>2, <2>3, LogKeeps DEF Collect
  <2>. QED
    BY <2>1, <2>4 DEF Log!Next
<1>3. CASE CloseDataFile
  <2>1. dp \in Tables /\ \A r \in buf : r < next[dp]
    BY <1>3, <1>p DEF CloseDataFile, KeepInv, OnlyProduced
  <2>2. Log!Keep(dp)
    BY <1>3, <2>1, <1>t, LogReachDisk DEF CloseDataFile, FileEndsTorn, TypeInv
  <2>. QED
    BY <2>1, <2>2 DEF Log!Next
<1>4. CASE Crash /\ buf # {}
  <2>1. dp \in Tables /\ (\A r \in buf : r < next[dp]) /\ conf' = conf
    BY <1>4, <1>t, <1>p DEF KeepInv, OnlyProduced, TypeInv, Buffered, Crash, LoseConf
  <2>2. PICK k \in Cursor, torn \in BOOLEAN : ReachDisk(dp, {r \in buf : r < k}, torn)
    BY <1>4 DEF Crash, LoseBuffer
  <2>3. {r \in buf : r < k} \in SUBSET buf
    OBVIOUS
  <2>4. Log!Keep(dp)
    BY <1>4, <2>1, <2>2, <2>3, <1>t, LogReachDisk DEF Crash, TypeInv
  <2>. QED
    BY <2>1, <2>4 DEF Log!Next
<1>5. CASE next' = next /\ file' = file /\ skipped' = skipped /\ garbled' = garbled
  BY <1>5, <1>t, LogMoves DEF Log!Next
<1>6. CASE Crash /\ buf = {}
  BY <1>6, <1>5 DEF Crash, LoseBuffer
<1>. QED
  BY <1>1, <1>2, <1>3, <1>4, <1>5, <1>6
  DEF Next, Step, Misstep, vars, StartDownload, StartInit, TdfToDlConf,
      ReadDlConf, ReadDlConfFails, SkipTable, CheckRefuses, OpenDataFile, CheckMovesCursor, Opened,
      LatestBehind, Latest, CollectNothing, TruncateConf, WriteConf, GetTdfFails,
      OpenFails, LatestLost, CollectLost, SaveRefused

\* The files and cursors of the download, whatever is lost on the line and
\* wherever the process dies, behave like the log: nothing goes off the
\* account, only what the logger produced is on it, and no durable cursor
\* stands before a record that is not.
THEOREM LogImplemented == Spec => KeepsLog
<1>1. KeepInv /\ [Next]_vars => KeepInv'
  BY KeepStep
<1>2. KeepInv /\ KeepInv' /\ [Next]_vars => [Log!Next]_(Log!log)
  BY LogStep
<1>. QED
  BY <1>1, <1>2, KeepInit, LogInit, PTL DEF Spec, KeepsLog, Log!Spec
-----------------------------------------------------------------------------
(* The deaths of the process: without one the configuration file keeps its *)
(* tables, and each of them spoils at most one line, whatever              *)
(* chk_last_record is.                                                     *)

\* A list with every table, or the empty one, as long as no data file has been
\* opened or once the file could not be read.
Complete(d) == DOMAIN d = Tables \/ (DOMAIN d = {} /\ (created = {} \/ unread = 1))

\* The list being written back is the one of --init, which has every table, or
\* the one that was read from the file, if it was; data files are only opened by the latter.
CompleteInv ==
    crashes = 0 =>
        /\ pc # "write" => Complete(conf)
        /\ pc \in {"table", "latest", "collect", "close", "write"} => Complete(dl)
        /\ pc \in {"table", "latest", "collect", "close"} /\ dp \in DOMAIN dl =>
               DOMAIN conf = Tables

LEMMA CompleteInit == Init => CompleteInv
BY DlConfEmpty DEF Init, CompleteInv, Complete

LEMMA CompleteStep == TypeInv /\ CompleteInv /\ [Next]_vars => CompleteInv'
<1>. SUFFICES ASSUME TypeInv, CompleteInv, [Next]_vars, crashes' = 0 PROVE CompleteInv'
  BY DEF CompleteInv
<1>. USE DEF logger, disk, process, history, counts, CompleteInv, Complete
<1>0. crashes = 0 /\ NTables \in Nat
  <2>1. ~Crash
    BY DownloadAssumption DEF Crash, TypeInv, TypeOK
  <2>. QED
    BY <2>1, DownloadAssumption
    DEF Next, Step, Misstep, vars, Produce, StartDownload, StartInit, TdfToDlConf, ReadDlConf,
        ReadDlConfFails, SkipTable, CheckRefuses, OpenDataFile, CheckMovesCursor, Opened, LatestBehind, Latest,
        Collect, CollectNothing, CloseDataFile, TruncateConf, WriteConf, GetTdfFails, OpenFails,
        LatestLost, CollectLost, SaveRefused
\* The process is done, or has not begun: only the file matters.
<1>1. CASE UNCHANGED <<conf, created, unread>> /\ pc # "write" /\ pc' \in {"idle", "tdf", "init"}
  BY <1>0, <1>1
<1>2. CASE UNCHANGED <<conf, created, dl, dp, unread>>
           /\ (pc' = pc \/ (pc \in {"table", "latest", "collect"} /\ pc' \in {"collect", "close"}))
  BY <1>0, <1>2
<1>3. CASE TdfToDlConf
  <2>1. DOMAIN dl' = Tables /\ dp' \notin Tables /\ pc # "write"
    BY <1>0, <1>3 DEF TdfToDlConf, Tables
  <2>. QED
    BY <1>0, <1>3, <2>1 DEF TdfToDlConf
<1>4. CASE ReadDlConf
  BY <1>0, <1>4 DEF ReadDlConf
<1>5. CASE UNCHANGED <<conf, created, dl, pc, unread>> /\ AtTable
  BY <1>0, <1>5 DEF AtTable
<1>6. CASE Opened /\ DOMAIN dl' = DOMAIN dl
  BY <1>0, <1>6 DEF Opened, AtTable
<1>7. CASE CloseDataFile
  BY <1>0, <1>7 DEF CloseDataFile, TypeInv, Located
<1>8. CASE TruncateConf
  BY <1>0, <1>8 DEF TruncateConf, AtEnd
<1>9. CASE WriteConf
  BY <1>0, <1>9 DEF WriteConf, Ended
<1>10. CASE ReadDlConfFails
  BY <1>0, <1>10, DlConfEmpty DEF ReadDlConfFails
<1>. QED
  BY <1>0, <1>1, <1>2, <1>3, <1>4, <1>5, <1>6, <1>7, <1>8, <1>9, <1>10, DownloadAssumption
  DEF Next, Step, Misstep, vars, Produce, StartDownload, StartInit, RangeEnd,
      SkipTable, CheckRefuses, OpenDataFile, CheckMovesCursor, LatestBehind, Latest,
      Collect, CollectNothing, GetTdfFails, OpenFails, LatestLost, CollectLost,
      SaveRefused, AtEnd, Crash, Ended, Opened, TypeInv, TypeOK

\* While no process dies, reading the configuration file, emptying it and writing
\* it back drops no table; a download that cannot read it drops them all.
THEOREM ConfCompleteHolds == Spec => []ConfComplete
<1>0. TypeInv /\ DOMAIN conf = {} => conf = NoTable
  <2>1. ASSUME NEW d \in DlConf, DOMAIN d = {} PROVE d = NoTable
    BY <2>1, DlConfDomain DEF NoTable
  <2>. QED
    BY <2>1 DEF TypeInv, TypeOK, disk
<1>1. TypeInv /\ CompleteInv => ConfComplete
  BY <1>0 DEF CompleteInv, Complete, ConfComplete
<1>. QED
  BY <1>1, TypeInit, TypeStep, CompleteInit, CompleteStep, PTL DEF Spec
-----------------------------------------------------------------------------
(* A torn line is paid for by the crash that tore it, and a spoiled record *)
(* takes the place of a torn line.                                         *)
\* The records that g puts on lines that cannot be read.
Lines(g) == {x \in Tables \X Record : x[2] \in g[x[1]]}

PaidInv == Cardinality(Lines(garbled)) + Cardinality(tail) <= crashes

LEMMA LinesFinite ==
    ASSUME NEW g \in [Tables -> SUBSET Record], NEW T \in SUBSET Tables
    PROVE  /\ IsFiniteSet(Lines(g)) /\ Cardinality(Lines(g)) \in Nat
           /\ IsFiniteSet(T) /\ Cardinality(T) \in Nat
<1>1. IsFiniteSet(Tables) /\ IsFiniteSet(Record)
  BY DownloadAssumption, FS_Interval DEF Tables, Record
<1>2. IsFiniteSet(Tables \X Record)
  BY <1>1, FS_Product
<1>3. Lines(g) \in SUBSET (Tables \X Record)
  BY DEF Lines
<1>4. IsFiniteSet(Lines(g)) /\ IsFiniteSet(T)
  BY <1>1, <1>2, <1>3, FS_Subset
<1>. QED
  BY <1>4, FS_CardinalityType

LEMMA SpoiledOne ==
    ASSUME NEW t \in Tables, NEW F \in SUBSET Record
    PROVE  \/ Spoiled(t, F) = {}
           \/ t \in tail /\ F # {} /\ \E r \in Record : Spoiled(t, F) = {r}
<1>1. CASE Spoiled(t, F) # {}
  <2>1. PICK r : r \in Spoiled(t, F)
    BY <1>1
  <2>2. t \in tail /\ r \in F /\ \A q \in F : r <= q
    BY <2>1 DEF Spoiled
  <2>3. F \subseteq Int
    BY DownloadAssumption DEF Record
  <2>4. \A q \in Spoiled(t, F) : q = r
    BY <2>2, <2>3 DEF Spoiled
  <2>. QED
    BY <2>1, <2>2, <2>4
<1>. QED
  BY <1>1

\* What reaches a file spoils a line only in the place of a torn one.
LEMMA ReachDiskPays ==
    ASSUME TypeOK, NEW t \in Tables, NEW F \in SUBSET Record, NEW torn \in BOOLEAN,
           ReachDisk(t, F, torn)
    PROVE  Cardinality(Lines(garbled')) + Cardinality(tail')
               <= Cardinality(Lines(garbled)) + Cardinality(tail) + (IF torn THEN 1 ELSE 0)
<1>. DEFINE S == Spoiled(t, F)
<1>f. /\ IsFiniteSet(Lines(garbled)) /\ Cardinality(Lines(garbled)) \in Nat
      /\ IsFiniteSet(tail) /\ Cardinality(tail) \in Nat
  BY LinesFinite DEF TypeOK
<1>1. /\ garbled' = [garbled EXCEPT ![t] = @ \cup S]
      /\ tail' = IF torn THEN tail \cup {t} ELSE IF F # {} THEN tail \ {t} ELSE tail
  BY DEF ReachDisk
<1>2. S = {} \/ (t \in tail /\ F # {} /\ \E r \in Record : S = {r})
  BY SpoiledOne
<1>. HIDE DEF S
<1>t. garbled \in [Tables -> SUBSET Record]
  BY DEF TypeOK
<1>3. Cardinality(tail \cup {t}) = (IF t \in tail THEN Cardinality(tail) ELSE Cardinality(tail) + 1)
  BY <1>f, FS_AddElement
<1>4. Cardinality(tail \ {t}) = (IF t \in tail THEN Cardinality(tail) - 1 ELSE Cardinality(tail))
  BY <1>f, FS_RemoveElement
<1>5. CASE S = {}
  <2>1. Lines(garbled') = Lines(garbled)
    BY <1>1, <1>5, <1>t DEF Lines
  <2>. QED
    BY <1>1, <1>3, <1>4, <1>f, <2>1
<1>6. ASSUME NEW r \in Record, S = {r}, t \in tail, F # {}
      PROVE  Cardinality(Lines(garbled')) + Cardinality(tail')
                 <= Cardinality(Lines(garbled)) + Cardinality(tail) + (IF torn THEN 1 ELSE 0)
  <2>1. Lines(garbled') = Lines(garbled) \cup {<<t, r>>}
    BY <1>1, <1>6, <1>t DEF Lines
  <2>2. Cardinality(Lines(garbled) \cup {<<t, r>>}) \in
            {Cardinality(Lines(garbled)), Cardinality(Lines(garbled)) + 1}
    BY <1>f, FS_AddElement
  <2>3. Cardinality(Lines(garbled')) \in {Cardinality(Lines(garbled)), Cardinality(Lines(garbled)) + 1}
    BY <2>1, <2>2
  <2>4. Cardinality(tail') = (IF torn THEN Cardinality(tail) ELSE Cardinality(tail) - 1)
    BY <1>1, <1>3, <1>4, <1>6
  <2>. QED
    BY <1>f, <2>3, <2>4
<1>. QED
  BY <1>2, <1>5, <1>6

LEMMA PaidInit == Init => PaidInv
<1>. SUFFICES ASSUME Init PROVE PaidInv
  OBVIOUS
<1>1. Lines(garbled) = {} /\ tail = {} /\ crashes = 0
  BY DEF Init, Lines
<1>. QED
  BY <1>1, FS_EmptySet DEF PaidInv

LEMMA PaidStep == TypeInv /\ PaidInv /\ [Next]_vars => PaidInv'
<1>. SUFFICES ASSUME TypeInv, PaidInv, [Next]_vars PROVE PaidInv'
  OBVIOUS
<1>. USE DEF logger, disk, process, history, counts
<1>f. /\ Cardinality(Lines(garbled)) \in Nat /\ Cardinality(tail) \in Nat
      /\ Cardinality(Lines(garbled')) \in Nat /\ Cardinality(tail') \in Nat
  <2>1. /\ garbled \in [Tables -> SUBSET Record] /\ tail \in SUBSET Tables
        /\ garbled' \in [Tables -> SUBSET Record] /\ tail' \in SUBSET Tables
    BY TypeStep DEF TypeInv, TypeOK
  <2>. QED
    BY <2>1, LinesFinite
<1>c. crashes \in Nat
  BY DownloadAssumption DEF TypeInv, TypeOK
<1>1. CASE UNCHANGED <<garbled, tail, crashes>>
  BY <1>1 DEF PaidInv, Lines
<1>2. CASE CloseDataFile
  <2>1. dp \in Tables
    BY <1>2, DlConfDomain DEF CloseDataFile, TypeInv, TypeOK, Located
  <2>2. ReachDisk(dp, buf, FALSE) /\ buf \in SUBSET Record /\ crashes' = crashes /\ TypeOK
    BY <1>2 DEF CloseDataFile, FileEndsTorn, TypeInv, TypeOK
  <2>3. Cardinality(Lines(garbled')) + Cardinality(tail') <= Cardinality(Lines(garbled)) + Cardinality(tail) + 0
    BY <2>1, <2>2, ReachDiskPays
  <2>. QED
    BY <1>f, <1>c, <2>2, <2>3 DEF PaidInv
<1>3. CASE Crash /\ buf # {}
  <2>1. dp \in Tables
    BY <1>3, DlConfDomain DEF TypeInv, TypeOK, Buffered, Located
  <2>2. PICK k \in Cursor, torn \in BOOLEAN : ReachDisk(dp, {r \in buf : r < k}, torn)
    BY <1>3 DEF Crash, LoseBuffer
  <2>3. {r \in buf : r < k} \in SUBSET Record /\ crashes' = crashes + 1 /\ TypeOK
    BY <1>3 DEF Crash, TypeInv, TypeOK
  <2>4. Cardinality(Lines(garbled')) + Cardinality(tail')
            <= Cardinality(Lines(garbled)) + Cardinality(tail) + (IF torn THEN 1 ELSE 0)
    BY <2>1, <2>2, <2>3, ReachDiskPays
  <2>. QED
    BY <1>f, <1>c, <2>3, <2>4 DEF PaidInv
<1>4. CASE Crash /\ buf = {}
  <2>1. UNCHANGED <<garbled, tail>> /\ crashes' = crashes + 1
    BY <1>4 DEF Crash, LoseBuffer
  <2>2. Lines(garbled') = Lines(garbled)
    BY <2>1 DEF Lines
  <2>. QED
    BY <1>f, <1>c, <2>1, <2>2 DEF PaidInv
<1>. QED
  BY <1>1, <1>2, <1>3, <1>4
  DEF Next, Step, Misstep, vars, Produce, StartDownload, StartInit, TdfToDlConf,
      ReadDlConf, ReadDlConfFails, SkipTable, CheckRefuses, OpenDataFile, CheckMovesCursor, Opened,
      LatestBehind, Latest, Collect, CollectNothing, TruncateConf, WriteConf, GetTdfFails,
      OpenFails, LatestLost, CollectLost, SaveRefused

\* However often the process dies while records are being flushed, at most one
\* record a death ends up on a line that cannot be read.
THEOREM OneLinePerCrashHolds == Spec => []OneLinePerCrash
<1>1. ASSUME TypeInv, PaidInv PROVE OneLinePerCrash
  <2>1. Cardinality(Lines(garbled)) \in Nat /\ Cardinality(tail) \in Nat /\ crashes \in Nat
    BY <1>1, LinesFinite, DownloadAssumption DEF TypeInv, TypeOK
  <2>. QED
    BY <1>1, <2>1 DEF PaidInv, OneLinePerCrash, Lines
<1>. QED
  BY <1>1, TypeInit, TypeStep, PaidInit, PaidStep, PTL DEF Spec
=============================================================================
