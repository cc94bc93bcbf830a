------------------------------ MODULE ConfFile ------------------------------
(***************************************************************************)
(* Reading a configuration file: parse_configuration.c, parse_line_conf.c, *)
(* parse_conf_array.c and stripwhite of my_stdio.c.  A file is a sequence  *)
(* of characters; a word (a keyword, a name) counts as one of them.        *)
(*                                                                         *)
(* What matters is where a definition ends: a line, several lines between  *)
(* brackets, a comment, the end of a file that was not written to its end. *)
(* Left out: brackets within brackets, and lists of values without names,  *)
(* neither of which the program's own files have.  Every loop over the     *)
(* characters of a text is a fold over them.                               *)
(***************************************************************************)
EXTENDS Integers, Sequences, SequencesExt

\* FoldLeft, as one recursion over the elements (TLC evaluates it far faster).
Scan(Op(_, _), x, s) ==
    LET after[i \in 0..Len(s)] == IF i = 0 THEN x ELSE Op(after[i - 1], s[i])
    IN  after[Len(s)]

NUL   == ""
NL    == "\n"
Blank == {" ", "\t"}

Digit == <<"0", "1", "2", "3", "4", "5", "6", "7", "8", "9">>

\* %d: the digits of n, the last one behind those of n \div 10.
Numeral(n) ==
    LET digits[k \in 0..n] ==
            IF k = 0 THEN <<>> ELSE Append(digits[k \div 10], Digit[(k % 10) + 1])
    IN  IF n = 0 THEN <<"0">> ELSE digits[n]

AddDigit(x, c) ==
    IF x.on /\ c \in Range(Digit)
    THEN [x EXCEPT !.n = 10 * @ + (CHOOSE k \in 0..9 : Digit[k + 1] = c)]
    ELSE [x EXCEPT !.on = FALSE]

\* Mutant: only the first digit is looked at.
FirstDigit(s) == AddDigit([n |-> 0, on |-> TRUE], Head(s)).n

\* The digits that s begins with.
atoi(s) == Scan(AddDigit, [n |-> 0, on |-> TRUE], s).n
-----------------------------------------------------------------------------
Until(s, c) == IF c \in Range(s) THEN SubSeq(s, 1, SelectInSeq(s, LAMBDA x : x = c) - 1) ELSE s
After(s, c) == SubSeq(s, SelectInSeq(s, LAMBDA x : x = c) + 1, Len(s))

stripwhite(s) ==
    LET solid == {i \in DOMAIN s : s[i] \notin Blank}
    IN  IF solid = {} THEN <<>> ELSE SubSeq(s, Min(solid), Max(solid))

Begins(s, c) == s # <<>> /\ Head(s) = c

\* parse_line: s defines a tag.
Defines(s) == "=" \in Range(s) /\ ~Begins(s, "#") /\ ~Begins(s, "*")
TagOf(s)   == stripwhite(Until(s, "="))
DataOf(s)  == stripwhite(Until(After(s, "="), "#"))
-----------------------------------------------------------------------------
(* Lines that belong together.                                             *)

\* Each character of s with its place and the one behind it.
Places(s) == [i \in DOMAIN s |-> [at |-> i, c |-> s[i],
                                  next |-> IF i < Len(s) THEN s[i + 1] ELSE NUL]]

OpensComment(p)  == p.c = "/" /\ p.next = "*"
ClosesComment(p) == p.c = "*" /\ p.next = "/"

\* One character of match_bracket: brackets open, 1 within a # comment and 2
\* within a C comment, and what is kept of the line, which a # cuts off.
MatchChar(m, p) ==
    LET new == [m EXCEPT !.kept = Append(@, p.c)]
    IN  CASE m.cut -> m
          [] ~m.cut /\ p.c = "{" /\ m.comment = 0 -> [new EXCEPT !.open = @ + 1]
          [] ~m.cut /\ p.c = "}" /\ m.comment = 0 -> [new EXCEPT !.open = @ - 1]
          [] ~m.cut /\ p.c = "#" -> IF m.open > 0 THEN [m EXCEPT !.comment = 1, !.cut = TRUE]
                                    ELSE [new EXCEPT !.comment = 1]
          [] ~m.cut /\ OpensComment(p)  -> [new EXCEPT !.comment = 2]
          [] ~m.cut /\ ClosesComment(p) -> [new EXCEPT !.comment = 0]
          [] OTHER -> new

match_bracket(s) ==
    Scan(MatchChar, [open |-> 0, comment |-> 0, cut |-> FALSE, kept |-> <<>>], Places(s))

\* What match_bracket returns: more lines are needed.
Unmatched(m) == m.comment = 2 \/ m.open > 0

\* Mutant: a # between brackets does not end the line.
KeptAll(s, m) == s

Kept(s, m) == m.kept

\* One character of delete_c_comments_and_spaces: what follows a comment moves up
\* by the offset.
DeleteChar(d, p) ==
    LET off == d.off + (IF d.inside THEN 1 ELSE 0)
    IN  CASE d.skip -> [d EXCEPT !.skip = FALSE]
          [] ~d.skip /\ OpensComment(p) ->
                [d EXCEPT !.inside = TRUE, !.off = off + 2, !.skip = TRUE]
          [] ~d.skip /\ ClosesComment(p) ->
                [d EXCEPT !.inside = FALSE, !.off = off + 1, !.skip = TRUE]
          [] OTHER -> [d EXCEPT !.off = off,
                                !.line = IF d.inside THEN @ ELSE [@ EXCEPT ![p.at - off] = p.c]]

WithoutComments(s) ==
    LET d == Scan(DeleteChar, [line |-> s, off |-> 0, inside |-> FALSE, skip |-> FALSE],
                      Places(s))
    IN  SubSeq(d.line, 1, Len(s) - d.off)

\* What a line defines is added.
AddLine(conf, l) ==
    LET s == stripwhite(l)
    IN  IF Defines(s) THEN Append(conf, [tag |-> TagOf(s), data |-> DataOf(s)]) ELSE conf

\* One turn of __lgetline, on a line without its newline: it is joined to what is
\* open of those before, or ends what they have begun.
TakeLine(g, line) ==
    LET s == g.open \o line
        m == match_bracket(s)
    IN  IF s # <<>> /\ Last(s) = "\\" THEN [g EXCEPT !.open = Front(s)]
        ELSE IF Unmatched(m) THEN [g EXCEPT !.open = Kept(s, m)]
        ELSE [open |-> <<>>, conf |-> AddLine(g.conf, WithoutComments(s))]

\* The newline before i, or 0.
Before(f, i) == Max({j \in 0..i - 1 : j = 0 \/ f[j] = NL})

\* The file up to i, where a line ends.  getdelim takes what ends with a newline,
\* or the rest of the file; the last character is taken for the newline, whatever
\* it is.
Taken(f) ==
    LET after[i \in 0..Len(f)] ==
            IF i = 0 THEN [open |-> <<>>, conf |-> <<>>]
            ELSE TakeLine(after[Before(f, i)], SubSeq(f, Before(f, i) + 1, i - 1))
    IN  after[Len(f)]

\* read_conf_file: what is open at the end of the file is dropped (-1).
read_conf_file(f) == Taken(f).conf
-----------------------------------------------------------------------------
(* A configuration is a sequence of such definitions.                      *)

\* find_conf_tag, from element k on: an index, or 0.
FindFrom(conf, k, tag) ==
    LET found == {i \in k..Len(conf) : conf[i].tag = tag}
    IN  IF found = {} THEN 0 ELSE Min(found)

find_conf_tag(conf, tag) == FindFrom(conf, 1, tag)

add_conf_tag(conf, tag, data) == Append(conf, [tag |-> tag, data |-> data])
mod_conf_data(conf, k, data)  == [conf EXCEPT ![k].data = data]

Joined(tag, n, name) == tag \o <<".">> \o Numeral(n) \o <<".">> \o name
CountTag(tag)        == tag \o <<".", "n">>

\* bracket_delete_and_find_equal: what stands between the first bracket and the
\* one that closes it.
ContentChar(b, c) ==
    CASE b.closed -> b
      [] ~b.closed /\ c = "{" -> [b EXCEPT !.open = @ + 1,
                                           !.text = IF b.open = 0 THEN <<>> ELSE Append(@, c)]
      [] ~b.closed /\ c = "}" -> [b EXCEPT !.open = @ - 1, !.closed = b.open = 1,
                                           !.text = IF b.open = 1 THEN @ ELSE Append(@, c)]
      [] OTHER -> [b EXCEPT !.text = Append(@, c)]

Brackets(s) == Scan(ContentChar, [open |-> 0, text |-> <<>>, closed |-> FALSE], s)

\* Mutant: the length does not count the last character.
ContentShort(b) == Front(b.text)

Content(b) == b.text

\* One character of the loop that cuts an array at its commas.  len is reduced by
\* the elements, but not by the commas between them, so that the search goes on
\* behind the zero that ends the text.
CutChar(x, c) ==
    IF x.l < x.len /\ c = "," /\ x.open <= 0
    THEN [done |-> Append(x.done, Until(x.text, NUL)), text |-> <<>>,
          l |-> 0, len |-> x.len - x.l, open |-> 0]
    ELSE [x EXCEPT !.text = Append(@, c), !.l = IF @ < x.len THEN @ + 1 ELSE @,
                   !.open = CASE c = "{" -> @ + 1 [] c = "}" -> @ - 1 [] OTHER -> @]

\* The elements of an array: s, the zero behind it, and what follows in memory.
Elements(s, junk) ==
    LET x == Scan(CutChar, [done |-> <<>>, text |-> <<>>, l |-> 0, len |-> Len(s) + 1,
                                open |-> 0], s \o <<NUL>> \o junk)
    IN  Append(x.done, Until(x.text, NUL))

\* An element of table n of the array tag: add_mod_conf_tag, from the definition
\* last touched on.
AddElement(x, s) ==
    LET tag == Joined(x.tag, x.n, TagOf(s))
        k   == FindFrom(x.conf, x.last, tag)
    IN  CASE ~Defines(s) -> x
          [] Defines(s) /\ k = 0 -> [x EXCEPT !.conf = add_conf_tag(@, tag, DataOf(s)),
                                              !.last = Len(x.conf) + 1]
          [] Defines(s) /\ k # 0 -> [x EXCEPT !.conf = mod_conf_data(@, k, DataOf(s)), !.last = k]

\* The count of arrays with this tag, one higher.
Counted(conf, tag) ==
    LET k == find_conf_tag(conf, tag)
    IN  IF k = 0 THEN add_conf_tag(conf, tag, Numeral(1))
        ELSE mod_conf_data(conf, k, Numeral(atoi(conf[k].data) + 1))

\* expand_conf_braket_array_line: the array e becomes tag.n and tag.i.name;
\* junk is what happens to stand behind the copy of its text.
ExpandArray(conf, e, junk) ==
    LET count == Counted(conf, CountTag(e.tag))
        last  == find_conf_tag(count, CountTag(e.tag))
    IN  Scan(AddElement, [conf |-> count, last |-> last, tag |-> e.tag,
                              n |-> atoi(count[last].data) - 1],
                 Elements(Content(Brackets(e.data)), junk)).conf

\* One definition of expand_conf_braket_array: up to the first array whose
\* brackets do not match.
ExpandOne(x, e) ==
    CASE ~Begins(e.data, "{") -> x
      [] Begins(e.data, "{") /\ ~Brackets(e.data).closed -> [x EXCEPT !.ok = FALSE]
      [] Begins(e.data, "{") /\ Brackets(e.data).closed ->
            IF x.ok THEN [x EXCEPT !.conf = ExpandArray(@, e, x.junk)] ELSE x

expand_conf_braket_array(conf, junk) ==
    Scan(ExpandOne, [conf |-> conf, ok |-> TRUE, junk |-> junk], conf).conf
=============================================================================
