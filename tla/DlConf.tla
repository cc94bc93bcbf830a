------------------------------- MODULE DlConf -------------------------------
(***************************************************************************)
(* The file of the cursors, data/STATION.conf, as text: what --download    *)
(* and --init write (gcampda_dl_conf_write), what a download reads         *)
(* (gcampda_dl_conf_tables_read), when a process dies while it is being    *)
(* written, when both write it at the same time (--init does not take the  *)
(* lock of the data directory), and when the user puts comments into it.   *)
(*                                                                         *)
(* Download takes the list of tables for a value that is kept whole, or,   *)
(* after a crash, for a first part of it; here that is checked.  It is not *)
(* so when a process dies while it writes over what another one has        *)
(* written: what stands in the file then nobody wrote.                     *)
(***************************************************************************)
EXTENDS ConfFile

CONSTANTS
    Letter,     \* what the names of tables and the like are made of
    Tables,     \* the list of the logger's tables: what --init writes
    Cursor,     \* the cursors that occur
    Comment,    \* lines that the user puts into the file
    Junk,       \* what may stand behind a copied text in memory
    MaxSession, \* bound: downloads and initialisations
    MaxCrash, MaxComment

Who == {"download", "init"}

\* What has a meaning for the parser, and what has none.
Special == Blank \cup {NUL, NL, "=", "#", "*", "/", "{", "}", ",", ".", "\\"}
Plain   == Letter \cup Range(Digit)
Word    == {s \in Seq(Plain) : s # <<>>}

\* The elements of a table, in the order they are read in.
Names == <<"name", "number", "signature", "download", "next_record">>

Char == Special \cup Plain \cup Range(Names) \cup {"table"}

ASSUME DlConfAssumption ==
    /\ Letter \cap Special = {}
    /\ Tables \in Seq([name : Word, number : Word, signature : Word, flag : {0, 1}, last : {0}])
    /\ 0 \in Cursor /\ Cursor \subseteq Nat
    /\ \A c \in Comment : c \in Seq(Char) /\ c # <<>> /\ Last(c) = NL
    /\ Junk \subseteq Seq(Char)
    /\ MaxSession \in Nat /\ MaxCrash \in Nat /\ MaxComment \in Nat

VARIABLES
    file,       \* the characters of the file
    pc, list,   \* of each process: where it is, and its DL_CONF list
    got,        \* history: the list a download has read last
    meant,      \* history: the list that was written last, or is being written
    written,    \* history: every table that was ever written
    torn,       \* history: 1 if the last writing was cut short
    mixed,      \* history: 1 if one was begun while another was going on
    garbled,    \* history: 1 if a process died with a part of its text over another's
    strayed,    \* history: 1 if the name of an element stood behind a copied text
    sessions, crashes, comments

history == <<got, meant, written, torn, mixed, garbled, strayed>>
counts  == <<sessions, crashes, comments>>
vars    == <<file, pc, list, history, counts>>
-----------------------------------------------------------------------------
Element(name, value) == <<"\t", name, " ", "=", " ">> \o value

\* One table, as gcampda_dl_conf_write prints it.
Text(d) ==
    <<"table", " ", "=", " ", "{", NL>>
    \o Element("name", d.name) \o <<",", NL>>
    \o Element("signature", d.signature) \o <<",", NL>>
    \o Element("number", d.number) \o <<",", NL>>
    \o Element("download", Numeral(d.flag)) \o <<",", NL>>
    \o Element("next_record", Numeral(d.last)) \o <<NL, "}", NL, NL>>

AddText(s, d) == s \o Text(d)

TextOf(ds) == Scan(AddText, <<>>, ds)

\* Mutant: the elements are looked up under the number of the next table.
NextTag(i, name) == Joined(<<"table">>, i, <<name>>)

\* _find_dl_tag, for the i-th table
_find_dl_tag(i, name) == Joined(<<"table">>, i - 1, <<name>>)

\* _dl_conf_parse: at the first element missing it gives up, and the table is
\* not downloaded.
_dl_conf_parse(conf, i) ==
    LET Has(name)   == find_conf_tag(conf, _find_dl_tag(i, name)) # 0
        Value(name) == conf[find_conf_tag(conf, _find_dl_tag(i, name))].data
        Read(k) == \A j \in 1..k : Has(Names[j])
    IN  [name      |-> IF Read(1) THEN Value("name") ELSE <<"(null)">>,
         number    |-> IF Read(2) THEN Value("number") ELSE <<"-1">>,
         signature |-> IF Read(3) THEN Value("signature") ELSE <<"-1">>,
         flag      |-> IF Read(5) THEN atoi(Value("download")) ELSE 0,
         last      |-> IF Read(5) THEN atoi(Value("next_record")) ELSE 0]

gcampda_dl_conf_parse(conf) ==
    LET k == find_conf_tag(conf, CountTag(<<"table">>))
    IN  IF k = 0 THEN <<>> ELSE [i \in 1..atoi(conf[k].data) |-> _dl_conf_parse(conf, i)]

tables_read(f, junk) ==
    gcampda_dl_conf_parse(expand_conf_braket_array(read_conf_file(f), junk))
-----------------------------------------------------------------------------
Init ==
    /\ file = <<>>
    /\ pc = [w \in Who |-> "idle"] /\ list = [w \in Who |-> <<>>]
    /\ got = <<>> /\ meant = <<>> /\ written = {}
    /\ torn = 0 /\ mixed = 0 /\ garbled = 0 /\ strayed = 0
    /\ sessions = 0 /\ crashes = 0 /\ comments = 0

Starts(w) ==
    /\ pc[w] = "idle"
    /\ sessions < MaxSession /\ sessions' = sessions + 1
    /\ UNCHANGED <<crashes, comments>>

\* gcampda_data_download: gcampda_dl_conf_tables_read
Read ==
    /\ Starts("download")
    /\ pc' = [pc EXCEPT !["download"] = "read"]
    /\ \E junk \in Junk :
          /\ got' = tables_read(file, junk)
          /\ strayed' = IF Range(junk) \cap Range(Names) # {} THEN 1 ELSE strayed
    /\ list' = [list EXCEPT !["download"] = got']
    /\ UNCHANGED <<file, meant, written, torn, mixed, garbled>>

\* The file cannot be opened: the list is NULL, and that is what is written back.
ReadFails ==
    /\ Starts("download")
    /\ pc' = [pc EXCEPT !["download"] = "save"]
    /\ UNCHANGED <<file, list, history>>

\* Every table that is wanted has been collected, with whatever success.
Collect ==
    /\ pc["download"] = "read"
    /\ pc' = [pc EXCEPT !["download"] = "save"]
    /\ \E c \in [DOMAIN list["download"] -> Cursor] :
          list' = [list EXCEPT !["download"] =
                     [i \in DOMAIN @ |-> IF @[i].flag = 1 THEN [@[i] EXCEPT !.last = c[i]] ELSE @[i]]]
    /\ UNCHANGED <<file, history, counts>>

\* main, --init: gcampda_tdf2dl_conf
Tdf2DlConf ==
    /\ Starts("init")
    /\ pc' = [pc EXCEPT !["init"] = "save"]
    /\ list' = [list EXCEPT !["init"] = Tables]
    /\ UNCHANGED <<file, history>>

Ends(w) == pc' = [pc EXCEPT ![w] = "idle"] /\ list' = [list EXCEPT ![w] = <<>>]

\* gcampda_dl_conf_write: the file is locked, or cannot be opened.
Refused(w) ==
    /\ pc[w] = "save"
    /\ Ends(w)
    /\ UNCHANGED <<file, history, counts>>

\* fopen "w"
Open(w) ==
    /\ pc[w] = "save"
    /\ pc' = [pc EXCEPT ![w] = "write"]
    /\ file' = <<>>
    /\ meant' = list[w] /\ written' = written \cup Range(list[w]) /\ torn' = 0
    /\ mixed' = IF \E v \in Who \ {w} : pc[v] = "write" THEN 1 ELSE 0
    /\ UNCHANGED <<list, got, garbled, strayed, counts>>

\* s is written over the beginning of the file.
Over(s) == s \o SubSeq(file, Len(s) + 1, Len(file))

\* fclose
Close(w) ==
    /\ pc[w] = "write"
    /\ file' = Over(TextOf(list[w]))
    /\ Ends(w)
    /\ UNCHANGED <<history, counts>>

\* The process dies; of the file a first part may have been written.
Crash(w) ==
    /\ pc[w] # "idle" /\ crashes < MaxCrash
    /\ crashes' = crashes + 1
    /\ IF pc[w] = "write"
       THEN /\ \E k \in 0..Len(TextOf(list[w])) - 1 :
                  /\ file' = Over(SubSeq(TextOf(list[w]), 1, k))
                  /\ garbled' = IF k \in 1..Len(file) - 1 THEN 1 ELSE garbled
            /\ torn' = 1
       ELSE UNCHANGED <<file, torn, garbled>>
    /\ Ends(w)
    /\ UNCHANGED <<got, meant, written, mixed, strayed, sessions, comments>>

\* The user puts a comment before some line.
AddComment ==
    /\ \A w \in Who : pc[w] = "idle"
    /\ comments < MaxComment /\ comments' = comments + 1
    /\ \E i \in {0} \cup {j \in DOMAIN file : file[j] = NL}, c \in Comment :
          file' = SubSeq(file, 1, i) \o c \o SubSeq(file, i + 1, Len(file))
    /\ UNCHANGED <<pc, list, history, sessions, crashes>>

Next ==
    \/ Read \/ ReadFails \/ Collect \/ Tdf2DlConf
    \/ \E w \in Who : Refused(w) \/ Open(w) \/ Close(w) \/ Crash(w)
    \/ AddComment

Spec == Init /\ [][Next]_vars
-----------------------------------------------------------------------------
Table == [name      : {Tables[i].name : i \in DOMAIN Tables},
          number    : {Tables[i].number : i \in DOMAIN Tables},
          signature : {Tables[i].signature : i \in DOMAIN Tables},
          flag : {0, 1}, last : Cursor]

\* What is read is what somebody wrote: not so once the file was garbled, or an
\* element was found in memory behind a text (whose search goes on too far).
Sound == garbled = 0 /\ strayed = 0

\* The lists are lists of tables of the logger, as long as what is read is sound.
TypeOK ==
    /\ pc \in [Who -> {"idle", "read", "save", "write"}]
    /\ Sound => /\ file \in Seq(Char) /\ \A w \in Who : list[w] \in Seq(Table)
                /\ got \in Seq(Table) /\ meant \in Seq(Table) /\ written \subseteq Table
    /\ torn \in {0, 1} /\ mixed \in {0, 1} /\ garbled \in {0, 1} /\ strayed \in {0, 1}
    /\ sessions \in 0..MaxSession /\ crashes \in 0..MaxCrash /\ comments \in 0..MaxComment

\* Whatever is torn, written over by another's whole text or commented, a table
\* that is read was written as it is read, every element of it: no cursor that
\* nobody saved, no half of a number, no table with the elements of another.
\* Commas and the like may stand behind a text in memory, but not the name of an
\* element: with a comma among the four characters that the search looks at too
\* many, what such a name is given there replaces what the file says.
Whole == Sound => Range(got) \subseteq written

Reads == pc["download"] = "idle" /\ pc'["download"] = "read"

\* As long as one process writes at a time a download reads a first part of the
\* list that was written last: a crash costs tables at its end, never one in the
\* middle, and never a cursor of those before (Download's LoseConf).
FirstPart == [][Reads /\ mixed = 0 /\ Sound' => IsPrefix(got', meant)]_vars

\* ... and the whole list if that writing was not cut short, or is not going on,
\* comments or not.
RoundTrip ==
    [][Reads /\ mixed = 0 /\ torn = 0 /\ Sound' /\ pc["init"] # "write" => got' = meant]_vars
=============================================================================
