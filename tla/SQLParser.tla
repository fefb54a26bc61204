----------------------------- MODULE SQLParser -----------------------------
(***************************************************************************)
(* The splitting of a SQL migration into statements                        *)
(* (internal/sqlparser).  ParseAllFromFS runs ParseSQLMigration twice over *)
(* the same file, once per direction; the two share nothing, so they are   *)
(* advanced here line by line together.  The file is chosen as it is read: *)
(* a line is its kind, a statement the set of the numbers of its lines.    *)
(***************************************************************************)
EXTENDS Naturals, Sequences, FiniteSets, VersionLists

CONSTANTS Kinds,     \* the kinds of lines that a file may have
          MaxLines,  \* bound: lines of a file
          MaxMinor   \* bound: those of them that neither delimit nor are SQL

Annotations == {"Up", "Down", "StatementBegin", "StatementEnd",
                "NoTransaction", "EnvsubOn", "EnvsubOff", "invalid"}

\* Whether a line with SQL ends with a semicolon: no, yes, only when variables
\* are substituted, and one in which the substitution fails.
SQLKinds == {"sql", "sqlEnd", "sqlVar", "sqlBadVar"}

\* "empty" is a line of no characters, "blank" one of white space.
TextKinds == SQLKinds \cup {"empty", "blank", "comment"}

ASSUME ParserAssumption == /\ Kinds \subseteq Annotations \cup TextKinds
                           /\ MaxLines \in Nat
                           /\ MaxMinor \in Nat

Minor == {"empty", "blank", "comment", "NoTransaction", "EnvsubOn", "EnvsubOff", "invalid"}

Directions == {"up", "down"}

VARIABLES lines,  \* the lines read so far
          eof,    \* have both parsers come to the end of the file?
          parser  \* the variables of ParseSQLMigration, for each direction

vars == <<lines, eof, parser>>

-----------------------------------------------------------------------------
(* The state machine *)

InUp   == {"gooseUp", "gooseStatementBeginUp", "gooseStatementEndUp"}
InDown == {"gooseDown", "gooseStatementBeginDown", "gooseStatementEndDown"}
InBlock == {"gooseStatementBeginUp", "gooseStatementBeginDown"}

AfterBegin == [gooseUp |-> "gooseStatementBeginUp",
               gooseStatementEndUp |-> "gooseStatementBeginUp",
               gooseDown |-> "gooseStatementBeginDown",
               gooseStatementEndDown |-> "gooseStatementBeginDown"]

AfterEnd == [gooseStatementBeginUp |-> "gooseStatementEndUp",
             gooseStatementBeginDown |-> "gooseStatementEndDown"]

AfterStore == [gooseUp |-> "gooseUp", gooseStatementEndUp |-> "gooseUp",
               gooseDown |-> "gooseDown", gooseStatementEndDown |-> "gooseDown"]

\* An error return: the statements found so far are dropped.
Fail(s) == [s EXCEPT !.state = "error", !.buf = {}, !.stmts = <<>>]

Set(s, to) == [s EXCEPT !.state = to]

Via(s, table) == IF s.state \in DOMAIN table THEN Set(s, table[s.state]) ELSE Fail(s)

\* strings.TrimSpace of the lines b of the file ls.
cleanupStatement(ls, b) ==
    LET solid == {i \in b : ls[i] \notin {"empty", "blank"}}
    IN  {i \in b : \E j, k \in solid : j <= i /\ i <= k}

\* Fault: the annotation counts only if it comes before the first statement.
NoTransactionEarly(s) == [s EXCEPT !.useTx = (s.stmts # <<>>)]

NoTransaction(s) == [s EXCEPT !.useTx = FALSE]

\* "-- +goose Down" expects the last statement of Up to be complete.
Down(s, ls) ==
    IF cleanupStatement(ls, s.buf) # {} THEN Fail(s)
    ELSE Via(s, [gooseUp |-> "gooseDown", gooseStatementEndUp |-> "gooseDown"])

\* Fault: a block starts with a fresh buffer.
StatementBeginFresh(s) == Via([s EXCEPT !.buf = {}], AfterBegin)

\* SQL in front of a block that no semicolon has closed becomes part of it.
StatementBegin(s) == Via(s, AfterBegin)

\* The switch over the annotation of a line.
Annotate(s, ls, k) ==
    CASE k = "Up"   -> Via(s, [start |-> "gooseUp"])
      [] k = "Down" -> Down(s, ls)
      [] k = "StatementBegin" -> StatementBegin(s)
      [] k = "StatementEnd"   -> Via(s, AfterEnd)
      [] k = "NoTransaction"  -> NoTransaction(s)
      [] k \in {"EnvsubOn", "EnvsubOff"} -> [s EXCEPT !.useEnvsub = (k = "EnvsubOn")]
      [] k = "invalid" -> Fail(s)

\* endsWithSemicolon, of the line after substitution.
endsWithSemicolon(k, substituted) == k = "sqlEnd" \/ (k = "sqlVar" /\ substituted)

\* Fault: the state stays at the end of the block.
StoreStays(s, ls) == [s EXCEPT !.stmts = Append(@, cleanupStatement(ls, s.buf)), !.buf = {}]

Store(s, ls) == [s EXCEPT !.stmts = Append(@, cleanupStatement(ls, s.buf)),
                          !.buf = {}, !.state = AfterStore[s.state]]

\* The end of the loop body: the lines of the other direction are dropped, and
\* a statement is stored when a semicolon or the end of a block is met.
Export(s, d, ls, k) ==
    CASE s.state = "start" -> Fail(s)
      [] s.state \in (IF d = "up" THEN InDown ELSE InUp) -> [s EXCEPT !.buf = {}]
      [] OTHER -> IF \/ s.state \in {"gooseStatementEndUp", "gooseStatementEndDown"}
                     \/ s.state \notin InBlock /\ endsWithSemicolon(k, s.useEnvsub)
                  THEN Store(s, ls) ELSE s

\* The line is written to the buffer unless a block has just ended.
Buffer(s, d, ls, k) ==
    CASE s.state \in {"gooseStatementEndUp", "gooseStatementEndDown"} -> Export(s, d, ls, k)
      [] OTHER -> IF s.useEnvsub /\ k = "sqlBadVar" THEN Fail(s)
                  ELSE Export([s EXCEPT !.buf = @ \cup {Len(ls)}], d, ls, k)

\* Comments and empty lines before a statement are ignored; the annotation
\* StatementEnd, which gets here like a line of text, counts as a comment.
Body(s, d, ls, k) ==
    IF s.buf = {} /\ k \in {"comment", "empty", "StatementEnd"} THEN s
    ELSE Buffer(s, d, ls, k)

\* One iteration of the loop of ParseSQLMigration on the last line of ls.
Scan(s, d, ls) ==
    LET k == Last(ls)
        a == Annotate(s, ls, k)
    IN  CASE s.state = "start" /\ k \in {"empty", "blank"} -> s
          [] k \in Annotations \ {"StatementEnd"} -> a
          [] k = "StatementEnd" -> IF a.state = "error" THEN a ELSE Body(a, d, ls, k)
          [] OTHER -> Body(s, d, ls, k)

\* Fault: what is left in the buffer is not looked at.
FinishAnyway(s, ls) == IF s.state \in {"start"} \cup InBlock THEN Fail(s) ELSE s

\* The code after the loop.
Finish(s, ls) ==
    IF s.state \in {"start"} \cup InBlock \/ cleanupStatement(ls, s.buf) # {}
    THEN Fail(s) ELSE s

-----------------------------------------------------------------------------
(* ParseAllFromFS *)

Init == /\ lines = <<>>
        /\ eof = FALSE
        /\ parser = [d \in Directions |->
                        [state |-> "start", buf |-> {}, stmts |-> <<>>,
                         useTx |-> TRUE, useEnvsub |-> FALSE]]

Failed == \E d \in Directions : parser[d].state = "error"

\* Once one goroutine has failed, the result of the other is not used.
ReadLine(k) ==
    /\ ~eof /\ ~Failed
    /\ Len(lines) < MaxLines
    /\ k \in Minor => Cardinality({i \in DOMAIN lines : lines[i] \in Minor}) < MaxMinor
    /\ lines' = Append(lines, k)
    /\ parser' = [d \in Directions |-> Scan(parser[d], d, lines')]
    /\ UNCHANGED eof

EndOfFile ==
    /\ ~eof /\ ~Failed
    /\ eof' = TRUE
    /\ parser' = [d \in Directions |-> Finish(parser[d], lines)]
    /\ UNCHANGED lines

\* parse: opening, reading or closing the file fails for one of the two, or a
\* line is longer than the buffer of the scanner.
ReadFails(d) ==
    /\ ~eof /\ ~Failed
    /\ parser' = [parser EXCEPT ![d] = Fail(@)]
    /\ UNCHANGED <<lines, eof>>

Next == \/ \E k \in Kinds : ReadLine(k)
        \/ EndOfFile
        \/ \E d \in Directions : ReadFails(d)

Spec == Init /\ [][Next]_vars

-----------------------------------------------------------------------------
(* What a file says, as a reference: without states, from the whole file *)

Lines == DOMAIN lines

Where(ks) == {i \in Lines : lines[i] \in ks}

SectionOf(i) == CASE \E j \in Where({"Down"}) : j < i -> "down"
                  [] \A j \in Where({"Up", "Down"}) : j >= i -> "none"
                  [] OTHER -> "up"

\* The last of the annotations on and off before line i is on.
Switched(i, on, off) ==
    \E j \in Where({on}) : j < i /\ \A h \in Where({off}) : ~(j < h /\ h < i)

BlockAt(i) == Switched(i, "StatementBegin", "StatementEnd")

\* The lines with which a statement of direction d ends.
Ends(d) ==
    {i \in Lines : /\ SectionOf(i) = d
                   /\ \/ lines[i] = "StatementEnd"
                      \/ /\ ~BlockAt(i)
                         /\ endsWithSemicolon(lines[i], Switched(i, "EnvsubOn", "EnvsubOff"))}

\* The text of direction d that the end t of a statement closes.
Closed(d, t) == {i \in Where(TextKinds) : /\ SectionOf(i) = d /\ i <= t
                                          /\ \A e \in Ends(d) : ~(i <= e /\ e < t)}

SQLOf(ls) == ls \cap Where(SQLKinds)

\* A block without SQL.
EmptyBlocks == {t \in Where({"StatementEnd"}) : SQLOf(Closed(SectionOf(t), t)) = {}}

Statements(d) ==
    LET ends == Ascending(Ends(d))
    IN  [n \in DOMAIN ends |-> SQLOf(Closed(d, ends[n]))]

\* Text of direction d that nothing closes.
Open(d) == {i \in Where(TextKinds) : SectionOf(i) = d /\ \A e \in Ends(d) : e < i}

\* A statement that nothing closes.
Unfinished(d) == \E i \in Open(d) : lines[i] \in SQLKinds

\* Annotations in order, as far as the file goes: one Up, then at most one Down,
\* blocks closed before Down and before the next block, and nothing before Up.
InOrder ==
    /\ \A i, j \in Where({"Up"}) : i = j
    /\ \A i, j \in Where({"Down"}) : i = j
    /\ \A i \in Where(SQLKinds \cup {"Down", "StatementBegin", "StatementEnd"}) :
           \E u \in Where({"Up"}) : u < i
    /\ \A i \in Where({"Down", "StatementBegin"}) : ~BlockAt(i)
    /\ \A i \in Where({"StatementEnd"}) : BlockAt(i)

\* A file may begin like this: there is no mistake that more lines would not mend.
Viable ==
    /\ InOrder
    /\ Where({"invalid"}) = {}
    /\ \A i \in Where({"sqlBadVar"}) : ~Switched(i, "EnvsubOn", "EnvsubOff")
    /\ Where({"Down"}) # {} => ~Unfinished("up")

WellFormed ==
    /\ Viable
    /\ Where({"Up"}) # {}
    /\ ~BlockAt(Len(lines) + 1)
    /\ \A d \in Directions : ~Unfinished(d)

-----------------------------------------------------------------------------
(* Properties *)

Accepted == eof /\ ~Failed

\* The SQL of the statements that direction d returns.
Returned(d) == [n \in DOMAIN parser[d].stmts |-> SQLOf(parser[d].stmts[n])]

\* A file that is accepted and has no empty block is split as it is written:
\* both directions get the statements of their section, whole, in order, each
\* once, and semicolons inside a block do not count.
SplitAsWritten ==
    Accepted /\ EmptyBlocks = {} => \A d \in Directions : Returned(d) = Statements(d)

\* A comment in the open text of direction d with white space somewhere before it.
Stranded(d) == \E i, j \in Open(d) : j < i /\ lines[j] = "blank" /\ lines[i] = "comment"

\* A file without empty blocks is accepted, by both directions together,
\* exactly if its annotations are in order, its substitutions succeed and no
\* statement is left unfinished; and the line that makes it impossible to go on
\* to such a file, no earlier and no later one, is refused.  But for one case:
\* parser.go ignores, as its comment says, comments outside a statement, yet not
\* those behind a line of white space, which the buffer keeps; nothing is said of
\* a file that has such a comment after its last statement, and the parser takes
\* it for an unfinished one.
AcceptsWellFormed ==
    [][EmptyBlocks' = {} =>
          /\ lines' # lines => /\ ~Viable' => Failed'
                               /\ Failed' => ~Viable' \/ (Where({"Down"})' # {} /\ Stranded("up")')
          /\ eof' # eof => /\ Accepted' => WellFormed'
                           /\ WellFormed' => Accepted' \/ \E d \in Directions : Stranded(d)']_vars

\* UseTx is taken from the up parser alone, which the TODO in ParseAllFromFS
\* calls error-prone: while neither has failed, both parsers agree on the
\* transaction, on substitution, on the section and on being inside a block,
\* although their states differ.
DirectionsAgree ==
    ~Failed => /\ parser["up"].useTx = parser["down"].useTx
               /\ parser["up"].useEnvsub = parser["down"].useEnvsub
               /\ \A S \in {InUp, InDown, InBlock} :
                      parser["up"].state \in S <=> parser["down"].state \in S

\* SQL that no statement of its direction contains.
Lost == {i \in Where(SQLKinds) :
            \A n \in DOMAIN parser[SectionOf(i)].stmts :
                i \notin parser[SectionOf(i)].stmts[n]}

\* An empty block does bounded damage: from there on the first line of SQL after
\* a block may be lost, and nothing else; no line is returned twice, out of order
\* or for the wrong direction.
LossIsBounded ==
    Accepted =>
        /\ \A i \in Lost : \E t \in Where({"StatementEnd"}) :
               /\ t < i
               /\ \A j \in Where(SQLKinds) : ~(t < j /\ j < i)
               /\ \E e \in EmptyBlocks : e <= t
        /\ \A d \in Directions : \A m, n \in DOMAIN parser[d].stmts :
               /\ m < n => \A i \in Returned(d)[m], j \in Returned(d)[n] : i < j
               /\ \A i \in Returned(d)[n] : SectionOf(i) = d

\* "Split given SQL script into individual statements and return SQL statements
\* for given direction": no SQL of an accepted file is left out.
NothingLost == Accepted => Lost = {}
=============================================================================
