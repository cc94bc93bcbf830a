------------------------------ MODULE MCDlConf ------------------------------
(* Instances of DlConf for TLC.                                            *)
EXTENDS DlConf

MCLetter == {"Hour", "Status", "s1", "s2"}

MCTables ==
    << [name |-> <<"Hour">>, number |-> <<"1">>, signature |-> <<"s1">>, flag |-> 1, last |-> 0],
       [name |-> <<"Status">>, number |-> <<"2">>, signature |-> <<"s2">>, flag |-> 0, last |-> 0] >>

\* Numbers of one digit and of three.
MCCursor == {0, 345}

\* A comment of each kind, with characters that mean something elsewhere.
MCComment == {<<"/", "*", "=", "*", "/", "#", "{", NL>>}

\* Bytes that mean something to the parser, and a cursor that nobody saved.
MCJunk == {<<",", ",", "=", ",">>, <<",", "next_record", "=", "7", NUL>>}
=============================================================================
