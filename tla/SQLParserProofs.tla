--------------------------- MODULE SQLParserProofs ---------------------------
(***************************************************************************)
(* The properties of SQLParser for files of every length.                  *)
(*                                                                         *)
(* The reference is a definition over the whole file and the parsers go    *)
(* line by line, so the proof has three parts.  One line more changes the  *)
(* reference in a way that its kind and its place decide (the lemmas       *)
(* called Longer...).  One iteration of the loop does one of six things to *)
(* a parser (Outcomes).  The invariant ParserInv puts the two side by      *)
(* side: the state of a parser is the place in the file, its buffer is     *)
(* text that nothing has closed, every line of SQL is buffered, in a       *)
(* statement, or the one that an empty block swallows, and while there is  *)
(* no empty block buffer and statements are those of the reference.        *)
(***************************************************************************)
EXTENDS SQLParser, VersionListsProofs

States == {"start", "error"} \cup InUp \cup InDown

Parser == [state : States, buf : SUBSET Nat, stmts : Seq(SUBSET Nat),
           useTx : BOOLEAN, useEnvsub : BOOLEAN]

TypeOK == /\ lines \in Seq(Annotations \cup TextKinds)
          /\ eof \in BOOLEAN
          /\ parser \in [Directions -> Parser]

\* The place in the file that a state stands for.
Place(st) ==
    CASE st = "start" -> "none"
      [] st \in {"gooseUp", "gooseStatementEndUp"} -> "up"
      [] st = "gooseStatementBeginUp" -> "upBlock"
      [] st \in {"gooseDown", "gooseStatementEndDown"} -> "down"
      [] st = "gooseStatementBeginDown" -> "downBlock"
      [] OTHER -> "error"

\* The place after a line of kind k, unless the line is an error.
Moved(place, k) ==
    CASE k = "Up" -> "up"
      [] k = "Down" -> "down"
      [] k = "StatementBegin" -> IF place = "up" THEN "upBlock" ELSE "downBlock"
      [] k = "StatementEnd" -> IF place = "upBlock" THEN "up" ELSE "down"
      [] OTHER -> place

\* What a line of kind k makes of a parser s, if it is not an error.
Advances(s, r, k) ==
    /\ Place(r.state) = Moved(Place(s.state), k)
    /\ r.useTx = (s.useTx /\ k # "NoTransaction")
    /\ r.useEnvsub = (IF k \in {"EnvsubOn", "EnvsubOff"} THEN k = "EnvsubOn" ELSE s.useEnvsub)

\* Two parsers at the same place with the same switches.
Agree(s, t) == /\ Place(s.state) = Place(t.state)
               /\ s.useTx = t.useTx
               /\ s.useEnvsub = t.useEnvsub

BothAgree == ~Failed => Agree(parser["up"], parser["down"])

-----------------------------------------------------------------------------
(* One line *)

\* An error return is an error.
LEMMA FailFacts ==
    ASSUME NEW s \in Parser
    PROVE  Fail(s) \in Parser /\ Fail(s).state = "error"
BY EmptySeq DEF Fail, Parser, States

\* Dropping, buffering and storing lines keep the place and the switches.
LEMMA ExportFacts ==
    ASSUME NEW s \in Parser, NEW d \in Directions, NEW ls, NEW k, s.state # "error"
    PROVE  LET r == Export(s, d, ls, k)
           IN  /\ r \in Parser
               /\ r.state = "error" \/ (/\ Place(r.state) = Place(s.state)
                                        /\ r.useTx = s.useTx /\ r.useEnvsub = s.useEnvsub)
<1>1. cleanupStatement(ls, s.buf) \in SUBSET Nat
  BY DEF cleanupStatement, Parser
<1> DEFINE stored == Append(s.stmts, cleanupStatement(ls, s.buf))
<1>2. stored \in Seq(SUBSET Nat)
  BY <1>1, AppendProperties DEF Parser
<1> HIDE DEF stored
<1>3. CASE s.state = "start"
  <2>1. Export(s, d, ls, k) = Fail(s)
    BY <1>3 DEF Export, InUp, InDown
  <2> QED
    BY <2>1, FailFacts
<1>4. CASE s.state # "start" /\ s.state \in (IF d = "up" THEN InDown ELSE InUp)
  <2>1. Export(s, d, ls, k) = [s EXCEPT !.buf = {}]
    BY <1>4 DEF Export
  <2> QED
    BY <2>1 DEF Parser
<1>5. CASE s.state # "start" /\ s.state \notin (IF d = "up" THEN InDown ELSE InUp)
  <2>1. CASE Export(s, d, ls, k) = s
    BY <2>1
  <2>2. CASE /\ Export(s, d, ls, k) = Store(s, ls)
             /\ s.state \in {"gooseUp", "gooseDown", "gooseStatementEndUp", "gooseStatementEndDown"}
    <3> DEFINE to == AfterStore[s.state]
    <3>1. to \in States /\ Place(to) = Place(s.state)
      BY <2>2 DEF AfterStore, States, InUp, InDown, Place
    <3>2. Store(s, ls) = [s EXCEPT !.stmts = stored, !.buf = {}, !.state = to]
      BY DEF Store, stored
    <3> HIDE DEF to
    <3>3. /\ Store(s, ls) \in Parser /\ Store(s, ls).state = to
          /\ Store(s, ls).useTx = s.useTx /\ Store(s, ls).useEnvsub = s.useEnvsub
      BY <3>1, <3>2, <1>2 DEF Parser
    <3> QED
      BY <2>2, <3>1, <3>3
  <2>3. s.state \in InBlock \cup
              {"gooseUp", "gooseDown", "gooseStatementEndUp", "gooseStatementEndDown"}
    BY <1>5 DEF Parser, States, InUp, InDown, InBlock
  <2> QED
    BY <1>5, <2>1, <2>2, <2>3 DEF Export, InBlock
<1> QED
  BY <1>3, <1>4, <1>5

\* The same of the whole body of the loop below the annotations.
LEMMA BodyFacts ==
    ASSUME NEW s \in Parser, NEW d \in Directions, NEW ls, Len(ls) \in Nat, NEW k,
           s.state # "error"
    PROVE  LET r == Body(s, d, ls, k)
           IN  /\ r \in Parser
               /\ r.state = "error" \/ (/\ Place(r.state) = Place(s.state)
                                        /\ r.useTx = s.useTx /\ r.useEnvsub = s.useEnvsub)
<1> DEFINE b == [s EXCEPT !.buf = @ \cup {Len(ls)}]
<1>1. /\ b \in Parser /\ b.state = s.state
      /\ b.useTx = s.useTx /\ b.useEnvsub = s.useEnvsub
  BY DEF Parser
<1>2. Body(s, d, ls, k) \in {s, Export(s, d, ls, k), Fail(s), Export(b, d, ls, k)}
  BY DEF Body, Buffer
<1> HIDE DEF b
<1>3. CASE Body(s, d, ls, k) = s
  BY <1>3
<1>4. CASE Body(s, d, ls, k) = Export(s, d, ls, k)
  BY <1>4, ExportFacts
<1>5. CASE Body(s, d, ls, k) = Fail(s)
  BY <1>5, FailFacts
<1>6. CASE Body(s, d, ls, k) = Export(b, d, ls, k)
  BY <1>1, <1>6, ExportFacts
<1> QED
  BY <1>2, <1>3, <1>4, <1>5, <1>6

\* A state machine table moves a parser or is an error.
LEMMA ViaFacts ==
    ASSUME NEW s \in Parser, NEW table,
           \A x \in DOMAIN table : table[x] \in States
    PROVE  /\ Via(s, table) \in Parser
           /\ \/ Via(s, table).state = "error"
              \/ /\ s.state \in DOMAIN table /\ Via(s, table).state = table[s.state]
                 /\ Via(s, table).useTx = s.useTx /\ Via(s, table).useEnvsub = s.useEnvsub
<1>1. CASE s.state \in DOMAIN table
  BY <1>1 DEF Via, Set, Parser
<1>2. CASE s.state \notin DOMAIN table
  BY <1>2, FailFacts DEF Via
<1> QED
  BY <1>1, <1>2

\* A move that leaves the switches alone is an advance.
LEMMA PlaceMoved ==
    ASSUME NEW s \in Parser, NEW r, NEW k \in {"Up", "Down", "StatementBegin", "StatementEnd"},
           Place(r.state) = Moved(Place(s.state), k),
           r.useTx = s.useTx, r.useEnvsub = s.useEnvsub
    PROVE  Advances(s, r, k)
<1>1. s.useTx \in BOOLEAN /\ k # "NoTransaction" /\ k \notin {"EnvsubOn", "EnvsubOff"}
  BY DEF Parser
<1> QED
  BY <1>1 DEF Advances

\* Every annotation moves the place the way its name says.
LEMMA AnnotateFacts ==
    ASSUME NEW s \in Parser, NEW ls, NEW k \in Annotations
    PROVE  LET a == Annotate(s, ls, k)
           IN  a \in Parser /\ (a.state = "error" \/ Advances(s, a, k))
<1> USE DEF States, InUp, InDown
<1>1. CASE k = "Up"
  <2> DEFINE table == [start |-> "gooseUp"]
  <2>1. Annotate(s, ls, k) = Via(s, table)
    BY <1>1 DEF Annotate
  <2>2. DOMAIN table = {"start"} /\ table["start"] = "gooseUp"
    OBVIOUS
  <2>3. Place("gooseUp") = Moved(Place("start"), "Up")
    BY DEF Place, Moved
  <2> HIDE DEF table
  <2>4. \A x \in DOMAIN table :
            table[x] \in States /\ Place(table[x]) = Moved(Place(x), "Up")
    BY <2>2, <2>3
  <2> QED
    BY <1>1, <2>1, <2>4, ViaFacts, PlaceMoved
<1>2. CASE k = "Down"
  <2> DEFINE table == [gooseUp |-> "gooseDown", gooseStatementEndUp |-> "gooseDown"]
  <2>1. Annotate(s, ls, k) \in {Fail(s), Via(s, table)}
    BY <1>2 DEF Annotate, Down
  <2>2. /\ DOMAIN table = {"gooseUp", "gooseStatementEndUp"}
        /\ \A x \in DOMAIN table : table[x] = "gooseDown"
    OBVIOUS
  <2> HIDE DEF table
  <2>3. \A x \in DOMAIN table :
            table[x] \in States /\ Place(table[x]) = Moved(Place(x), "Down")
    BY <2>2 DEF Place, Moved
  <2> QED
    BY <1>2, <2>1, <2>3, ViaFacts, PlaceMoved, FailFacts
<1>3. CASE k = "StatementBegin"
  <2>1. Annotate(s, ls, k) = Via(s, AfterBegin)
    BY <1>3 DEF Annotate, StatementBegin
  <2>2. \A x \in DOMAIN AfterBegin :
            AfterBegin[x] \in States /\ Place(AfterBegin[x]) = Moved(Place(x), "StatementBegin")
    BY DEF AfterBegin, Place, Moved
  <2> QED
    BY <1>3, <2>1, <2>2, ViaFacts, PlaceMoved
<1>4. CASE k = "StatementEnd"
  <2>1. Annotate(s, ls, k) = Via(s, AfterEnd)
    BY <1>4 DEF Annotate
  <2>2. \A x \in DOMAIN AfterEnd :
            AfterEnd[x] \in States /\ Place(AfterEnd[x]) = Moved(Place(x), "StatementEnd")
    BY DEF AfterEnd, Place, Moved
  <2> QED
    BY <1>4, <2>1, <2>2, ViaFacts, PlaceMoved
<1>5. CASE k = "NoTransaction"
  <2>1. Annotate(s, ls, k) = [s EXCEPT !.useTx = FALSE]
    BY <1>5 DEF Annotate, NoTransaction
  <2> QED
    BY <1>5, <2>1 DEF Advances, Moved, Parser
<1>6. CASE k \in {"EnvsubOn", "EnvsubOff"}
  <2>1. Annotate(s, ls, k) = [s EXCEPT !.useEnvsub = (k = "EnvsubOn")]
    BY <1>6 DEF Annotate
  <2> QED
    BY <1>6, <2>1 DEF Advances, Moved, Parser
<1>7. CASE k = "invalid"
  BY <1>7, FailFacts DEF Annotate
<1> QED
  BY <1>1, <1>2, <1>3, <1>4, <1>5, <1>6, <1>7 DEF Annotations

\* One iteration of the loop: what it does to the place and the switches
\* depends on the line, and not on the direction or on what is buffered.
LEMMA ScanFacts ==
    ASSUME NEW s \in Parser, NEW d \in Directions, s.state # "error",
           NEW ls, Len(ls) \in Nat, Last(ls) \in Annotations \cup TextKinds
    PROVE  LET r == Scan(s, d, ls)
           IN  r \in Parser /\ (r.state = "error" \/ Advances(s, r, Last(ls)))
<1> DEFINE k == Last(ls)
           a == Annotate(s, ls, k)
           r == Scan(s, d, ls)
<1>1. CASE k \in Annotations
  <2>1. a \in Parser /\ (a.state = "error" \/ Advances(s, a, k))
    BY <1>1, AnnotateFacts
  <2>2. CASE r = a
    BY <2>1, <2>2
  <2>3. CASE a.state # "error" /\ r = Body(a, d, ls, k)
    BY <2>1, <2>3, BodyFacts DEF Advances
  <2> QED
    BY <1>1, <2>2, <2>3 DEF Scan, Annotations
<1>2. CASE k \in TextKinds
  <2>1. r = s \/ r = Body(s, d, ls, k)
    BY <1>2 DEF Scan, Annotations, TextKinds, SQLKinds
  <2>2. /\ r \in Parser
        /\ r.state = "error" \/ (/\ Place(r.state) = Place(s.state)
                                 /\ r.useTx = s.useTx /\ r.useEnvsub = s.useEnvsub)
    BY <2>1, BodyFacts
  <2>3. /\ k \notin Annotations /\ s.useTx \in BOOLEAN
    BY <1>2 DEF Annotations, TextKinds, SQLKinds, Parser
  <2> QED
    BY <2>2, <2>3 DEF Advances, Moved, Annotations
<1> QED
  BY <1>1, <1>2

-----------------------------------------------------------------------------
(* Both passes *)

\* The next line, the end of the file and a read error keep the agreement.
LEMMA AgreeStep ==
    ASSUME TypeOK, BothAgree, [Next]_vars
    PROVE  TypeOK' /\ BothAgree'
<1>1. \A d \in Directions : parser[d] \in Parser
  BY DEF TypeOK
<1>2. ASSUME NEW k \in Kinds, ReadLine(k) PROVE TypeOK' /\ BothAgree'
  <2>1. /\ lines' = Append(lines, k) /\ k \in Annotations \cup TextKinds
        /\ eof' = eof /\ ~Failed
        /\ parser' = [d \in Directions |-> Scan(parser[d], d, lines')]
    BY <1>2, ParserAssumption DEF ReadLine
  <2>2. lines' \in Seq(Annotations \cup TextKinds) /\ Len(lines') \in Nat /\ Last(lines') = k
    BY <2>1, AppendProperties, LenProperties DEF TypeOK, Last
  <2>3. \A d \in Directions :
            /\ parser'[d] \in Parser
            /\ parser'[d].state = "error" \/ Advances(parser[d], parser'[d], k)
    BY <2>1, <2>2, <1>1, ScanFacts DEF Failed
  <2>4. TypeOK'
    BY <2>1, <2>2, <2>3 DEF TypeOK
  <2>5. BothAgree'
    BY <2>1, <2>3 DEF BothAgree, Agree, Advances, Failed, Directions
  <2> QED
    BY <2>4, <2>5
<1>3. ASSUME EndOfFile PROVE TypeOK' /\ BothAgree'
  <2>1. /\ lines' = lines /\ eof' = TRUE /\ ~Failed
        /\ parser' = [d \in Directions |-> Finish(parser[d], lines)]
    BY <1>3 DEF EndOfFile
  <2>2. \A d \in Directions :
            /\ parser'[d] \in Parser
            /\ parser'[d].state = "error" \/ parser'[d] = parser[d]
    BY <2>1, <1>1, FailFacts DEF Finish
  <2>3. TypeOK'
    BY <2>1, <2>2 DEF TypeOK
  <2>4. BothAgree'
    BY <2>1, <2>2 DEF BothAgree, Failed, Directions
  <2> QED
    BY <2>3, <2>4
<1>4. ASSUME NEW d \in Directions, ReadFails(d) PROVE TypeOK' /\ BothAgree'
  <2>1. /\ lines' = lines /\ eof' = eof
        /\ parser' = [parser EXCEPT ![d] = Fail(parser[d])]
    BY <1>4 DEF ReadFails
  <2>2. parser'[d] = Fail(parser[d]) /\ parser'[d].state = "error"
    BY <2>1, <1>1, FailFacts DEF TypeOK
  <2>3. TypeOK'
    BY <2>1, <1>1, FailFacts DEF TypeOK
  <2>4. BothAgree'
    BY <2>2 DEF BothAgree, Failed
  <2> QED
    BY <2>3, <2>4
<1>5. CASE UNCHANGED vars
  BY <1>5 DEF vars, TypeOK, BothAgree, Failed, Agree
<1> QED
  BY <1>2, <1>3, <1>4, <1>5 DEF Next

-----------------------------------------------------------------------------
(* The reference, one line later *)

\* Are the lines of the next state those of this one and an n-th of kind k?
Longer(k, n) == /\ lines \in Seq(Annotations \cup TextKinds)
                /\ k \in Annotations \cup TextKinds
                /\ n = Len(lines) + 1
                /\ lines' = Append(lines, k)

\* The lines of the longer file.
LEMMA LongerLines ==
    ASSUME NEW k, NEW n, Longer(k, n)
    PROVE  /\ n \in Nat \ {0}
           /\ Lines = 1..(n - 1) /\ Lines' = Lines \cup {n} /\ n \notin Lines
           /\ Len(lines') = n /\ lines'[n] = k
           /\ \A i \in Lines : lines'[i] = lines[i] /\ i \in Nat /\ i < n /\ i \in 1..n
           /\ lines' \in Seq(Annotations \cup TextKinds)
<1>1. /\ Len(lines) \in Nat /\ DOMAIN lines = 1..Len(lines)
      /\ Len(lines') = Len(lines) + 1 /\ lines' \in Seq(Annotations \cup TextKinds)
      /\ \A i \in 1..Len(lines) : lines'[i] = lines[i]
      /\ lines'[Len(lines) + 1] = k
  BY LenProperties, AppendProperties DEF Longer
<1>2. DOMAIN lines' = 1..(Len(lines) + 1)
  BY <1>1, LenProperties
<1> QED
  BY <1>1, <1>2 DEF Longer, Lines

\* The lines of a kind.
LEMMA LongerWhere ==
    ASSUME NEW k, NEW n, Longer(k, n), NEW ks
    PROVE  /\ Where(ks) \subseteq Lines /\ Where(ks) \subseteq Where(ks)'
           /\ Where(ks)' \subseteq Where(ks) \cup {n}
           /\ n \in Where(ks)' <=> k \in ks
           /\ \A i \in Where(ks) : i \in Nat /\ i < n /\ lines[i] \in ks
           /\ n \notin Where(ks)
BY LongerLines DEF Where

\* A switch before line i is where it was, and behind the line it is where the
\* line puts it.
LEMMA LongerSwitched ==
    ASSUME NEW k, NEW n, Longer(k, n), NEW on, NEW off, on # off
    PROVE  /\ \A i \in 1..n : Switched(i, on, off)' <=> Switched(i, on, off)
           /\ Switched(n + 1, on, off)' <=> k = on \/ (k # off /\ Switched(n, on, off))
<1> DEFINE A == Where({on})
           B == Where({off})
<1>1. /\ A' \subseteq A \cup {n} /\ A \subseteq A' /\ (n \in A' <=> k = on)
      /\ \A i \in A : i \in Nat /\ i < n
  BY LongerWhere
<1>2. /\ B' \subseteq B \cup {n} /\ B \subseteq B' /\ (n \in B' <=> k = off)
      /\ \A i \in B : i \in Nat /\ i < n
  BY LongerWhere
<1>3. n \in Nat \ {0}
  BY LongerLines
<1>4. \A i : /\ Switched(i, on, off) <=> \E j \in A : j < i /\ \A h \in B : ~(j < h /\ h < i)
             /\ Switched(i, on, off)' <=>
                    \E j \in A' : j < i /\ \A h \in B' : ~(j < h /\ h < i)
  BY DEF Switched
<1> HIDE DEF A, B
<1>5. ASSUME NEW i \in 1..n PROVE Switched(i, on, off)' <=> Switched(i, on, off)
  <2>1. \A j \in A' : j < i => j \in A
    BY <1>1, <1>3
  <2>2. \A j \in B' : j < i => j \in B
    BY <1>2, <1>3
  <2> QED
    BY <2>1, <2>2, <1>1, <1>2, <1>4
<1>6. CASE k = on
  <2>1. n \in A' /\ n < n + 1 /\ \A h \in B' : ~(n < h /\ h < n + 1)
    BY <1>1, <1>2, <1>3, <1>6
  <2> QED
    BY <2>1, <1>4, <1>5, <1>6
<1>7. CASE k = off
  <2>1. n \in B' /\ \A j \in A' : j < n /\ n < n + 1
    BY <1>1, <1>2, <1>3, <1>7
  <2> QED
    BY <2>1, <1>4, <1>5, <1>7
<1>8. CASE k # on /\ k # off
  <2>1. A' = A /\ B' = B
    BY <1>1, <1>2, <1>8
  <2>2. /\ \A j \in A : j < n + 1 /\ j < n
        /\ \A j \in B : j < n + 1 /\ j < n
    BY <1>1, <1>2, <1>3
  <2> QED
    BY <2>1, <2>2, <1>4, <1>5, <1>8
<1> QED
  BY <1>5, <1>6, <1>7, <1>8

\* The section of a line is what it was, and behind the line it is what the
\* line makes it.
LEMMA LongerSection ==
    ASSUME NEW k, NEW n, Longer(k, n)
    PROVE  /\ \A i \in 1..n : SectionOf(i)' = SectionOf(i)
           /\ SectionOf(n + 1)' = (IF k = "Down" THEN "down"
                                   ELSE IF k = "Up" /\ SectionOf(n) = "none" THEN "up"
                                   ELSE SectionOf(n))
           /\ \A i \in 1..n : SectionOf(n) = "none" => SectionOf(i) = "none"
           /\ \A i \in 1..n : SectionOf(n) = "up" => SectionOf(i) # "down"
           /\ SectionOf(n) = "none" <=> Where({"Up", "Down"}) = {}
           /\ SectionOf(n) = "down" <=> Where({"Down"}) # {}
           /\ SectionOf(n) \in {"none", "up", "down"}
<1> DEFINE D == Where({"Down"})
           UD == Where({"Up", "Down"})
<1>1. /\ D' \subseteq D \cup {n} /\ D \subseteq D'
      /\ n \in D' <=> k = "Down"
      /\ \A i \in D : i \in Nat /\ i < n
  BY LongerWhere
<1>2. /\ UD' \subseteq UD \cup {n} /\ UD \subseteq UD'
      /\ n \in UD' <=> k \in {"Up", "Down"}
      /\ \A i \in UD : i \in Nat /\ i < n
  BY LongerWhere
<1>3. n \in Nat \ {0}
  BY LongerLines
<1>4. D \subseteq UD
  BY DEF Where
<1>5. \A i : /\ SectionOf(i) = CASE \E j \in D : j < i -> "down"
                                 [] \A j \in UD : j >= i -> "none"
                                 [] OTHER -> "up"
             /\ SectionOf(i)' = CASE \E j \in D' : j < i -> "down"
                                  [] \A j \in UD' : j >= i -> "none"
                                  [] OTHER -> "up"
  BY DEF SectionOf
<1> HIDE DEF D, UD
<1>6. \A i \in 1..n : SectionOf(i)' = SectionOf(i)
  <2> SUFFICES ASSUME NEW i \in 1..n PROVE SectionOf(i)' = SectionOf(i)
    OBVIOUS
  <2>1. (\E j \in D' : j < i) <=> (\E j \in D : j < i)
    BY <1>1, <1>3
  <2>2. (\A j \in UD' : j >= i) <=> (\A j \in UD : j >= i)
    BY <1>2, <1>3
  <2> QED
    BY <2>1, <2>2, <1>5
<1>7. /\ (\E j \in D : j < n) <=> D # {}
      /\ (\A j \in UD : j >= n) <=> UD = {}
  BY <1>1, <1>2, <1>3
<1>8. SectionOf(n) = IF D # {} THEN "down" ELSE IF UD = {} THEN "none" ELSE "up"
  BY <1>5, <1>7, <1>4
<1>9. /\ (\E j \in D' : j < n + 1) <=> D' # {}
      /\ (\A j \in UD' : j >= n + 1) <=> UD' = {}
  BY <1>1, <1>2, <1>3
<1>10. SectionOf(n + 1)' = IF D' # {} THEN "down" ELSE IF UD' = {} THEN "none" ELSE "up"
  BY <1>5, <1>9, <1>1, <1>2, <1>4
<1>11. ASSUME NEW i \in 1..n
       PROVE  /\ SectionOf(n) = "none" => SectionOf(i) = "none"
              /\ SectionOf(n) = "up" => SectionOf(i) # "down"
  BY <1>5, <1>8, <1>4
<1> QED
  BY <1>1, <1>2, <1>4, <1>6, <1>8, <1>10, <1>11 DEF D, UD

\* Does line n of kind k end a statement of direction d?
Ending(d, k, n) ==
    /\ SectionOf(n) = d
    /\ \/ k = "StatementEnd"
       \/ ~BlockAt(n) /\ endsWithSemicolon(k, Switched(n, "EnvsubOn", "EnvsubOff"))

\* The text that line n of kind k adds to direction d.
Added(d, k, n) == {i \in {n} : k \in TextKinds /\ SectionOf(n) = d}

\* The ends of statements and the text that they leave open or close.
LEMMA LongerEnds ==
    ASSUME NEW k, NEW n, Longer(k, n), NEW d
    PROVE  /\ Ends(d)' = Ends(d) \cup {i \in {n} : Ending(d, k, n)}
           /\ \A e \in Ends(d) : e \in Nat /\ e < n /\ e \in Lines
           /\ Open(d) \subseteq Lines
           /\ Open(d)' = IF Ending(d, k, n) THEN {} ELSE Open(d) \cup Added(d, k, n)
           /\ \A t \in Lines : Closed(d, t)' = Closed(d, t)
           /\ Closed(d, n)' = Open(d) \cup Added(d, k, n)
<1>1. /\ n \in Nat \ {0} /\ Lines' = Lines \cup {n} /\ n \notin Lines /\ lines'[n] = k
      /\ \A i \in Lines : lines'[i] = lines[i] /\ i \in Nat /\ i < n /\ i \in 1..n
  BY LongerLines
<1>2. /\ \A i \in 1..n : SectionOf(i)' = SectionOf(i)
      /\ \A i \in 1..n : BlockAt(i)' <=> BlockAt(i)
      /\ \A i \in 1..n : Switched(i, "EnvsubOn", "EnvsubOff")' <=>
                         Switched(i, "EnvsubOn", "EnvsubOff")
  BY LongerSection, LongerSwitched DEF BlockAt
<1>3. Ends(d)' = Ends(d) \cup {i \in {n} : Ending(d, k, n)}
  BY <1>1, <1>2 DEF Ends, Ending, endsWithSemicolon
<1>4. \A e \in Ends(d) : e \in Nat /\ e < n /\ e \in Lines
  BY <1>1 DEF Ends
<1>5. Open(d) \subseteq Lines
  BY DEF Open, Where
<1> DEFINE T == Where(TextKinds)
<1>6. /\ T \subseteq Lines /\ T' = T \cup {i \in {n} : k \in TextKinds}
  BY LongerWhere
<1>7. /\ Open(d) = {i \in T : SectionOf(i) = d /\ \A e \in Ends(d) : e < i}
      /\ Open(d)' = {i \in T' : SectionOf(i)' = d /\ \A e \in Ends(d)' : e < i}
      /\ \A t : Closed(d, t) = {i \in T : /\ SectionOf(i) = d /\ i <= t
                                          /\ \A e \in Ends(d) : ~(i <= e /\ e < t)}
      /\ \A t : Closed(d, t)' = {i \in T' : /\ SectionOf(i)' = d /\ i <= t
                                            /\ \A e \in Ends(d)' : ~(i <= e /\ e < t)}
  BY DEF Open, Closed
<1> HIDE DEF T
<1>8. \A i \in T' : /\ i \in Nat /\ i <= n /\ SectionOf(i)' = SectionOf(i)
                    /\ i \in T \/ (i = n /\ k \in TextKinds)
  BY <1>1, <1>2, <1>6
<1>9. ASSUME Ending(d, k, n) PROVE Open(d)' = {}
  BY <1>1, <1>3, <1>7, <1>8, <1>9
<1>10. ASSUME ~Ending(d, k, n) PROVE Open(d)' = Open(d) \cup Added(d, k, n)
  <2>1. Ends(d)' = Ends(d)
    BY <1>3, <1>10
  <2>2. ASSUME NEW i PROVE i \in Open(d)' <=> i \in Open(d) \cup Added(d, k, n)
    BY <2>1, <1>1, <1>4, <1>6, <1>7, <1>8 DEF Added
  <2> QED
    BY <2>2
<1>11. Open(d)' = IF Ending(d, k, n) THEN {} ELSE Open(d) \cup Added(d, k, n)
  BY <1>9, <1>10
<1>12. ASSUME NEW t \in Lines PROVE Closed(d, t)' = Closed(d, t)
  <2>1. t \in Nat /\ t < n
    BY <1>1
  <2>2. ASSUME NEW i \in T, SectionOf(i) = d, i <= t
        PROVE  (\A e \in Ends(d)' : ~(i <= e /\ e < t)) <=> (\A e \in Ends(d) : ~(i <= e /\ e < t))
    BY <2>1, <1>1, <1>3
  <2>3. \A i \in T' : i <= t => i \in T
    BY <2>1, <1>1, <1>6
  <2>4. \A i \in T : i \in T' /\ SectionOf(i)' = SectionOf(i)
    BY <1>6, <1>8
  <2>5. ASSUME NEW i PROVE i \in Closed(d, t)' <=> i \in Closed(d, t)
    BY <2>2, <2>3, <2>4, <1>7
  <2> QED
    BY <2>5
<1>13. Closed(d, n)' = Open(d) \cup Added(d, k, n)
  <2>1. ASSUME NEW i \in T' PROVE (\A e \in Ends(d)' : ~(i <= e /\ e < n)) <=>
                                  (\A e \in Ends(d) : e < i)
    BY <1>1, <1>3, <1>4, <1>8
  <2>2. ASSUME NEW i PROVE i \in Closed(d, n)' <=> i \in Open(d) \cup Added(d, k, n)
    BY <2>1, <1>1, <1>4, <1>6, <1>7, <1>8 DEF Added
  <2> QED
    BY <2>2
<1> QED
  BY <1>3, <1>4, <1>5, <1>11, <1>12, <1>13

\* The SQL of some lines, and the blocks without any.
LEMMA LongerBlocks ==
    ASSUME NEW k, NEW n, Longer(k, n)
    PROVE  /\ \A S \in SUBSET Lines : SQLOf(S)' = SQLOf(S)
           /\ EmptyBlocks \subseteq EmptyBlocks' /\ EmptyBlocks \subseteq Lines
           /\ EmptyBlocks' \subseteq EmptyBlocks \cup {n}
           /\ n \in EmptyBlocks' <=> k = "StatementEnd" /\ SQLOf(Open(SectionOf(n))) = {}
<1>1. /\ n \in Nat \ {0} /\ n \notin Lines
      /\ \A i \in Lines : i \in 1..n /\ i < n
  BY LongerLines
<1>2. \A i \in 1..n : SectionOf(i)' = SectionOf(i)
  BY LongerSection
<1>3. \A S \in SUBSET Lines : SQLOf(S)' = SQLOf(S)
  <2>1. /\ Where(SQLKinds)' \subseteq Where(SQLKinds) \cup {n}
        /\ Where(SQLKinds) \subseteq Where(SQLKinds)'
    BY LongerWhere
  <2> QED
    BY <2>1, <1>1 DEF SQLOf
<1> DEFINE W == Where({"StatementEnd"})
           Gone(t) == SQLOf(Closed(SectionOf(t), t)) = {}
<1>4. /\ W \subseteq Lines /\ W' \subseteq W \cup {n} /\ W \subseteq W'
      /\ n \in W' <=> k = "StatementEnd"
  BY LongerWhere
<1>5. ASSUME NEW t \in Lines PROVE Gone(t)' <=> Gone(t)
  <2>1. SectionOf(t)' = SectionOf(t)
    BY <1>1, <1>2
  <2>2. \A d : Closed(d, t)' = Closed(d, t)
    BY LongerEnds
  <2>3. Closed(SectionOf(t), t)' = Closed(SectionOf(t), t)
    BY <2>1, <2>2 DEF Closed
  <2>4. Closed(SectionOf(t), t) \in SUBSET Lines
    BY DEF Closed, Where
  <2> QED
    BY <2>3, <2>4, <1>3 DEF SQLOf
<1>6. k = "StatementEnd" => (Gone(n)' <=> SQLOf(Open(SectionOf(n))) = {})
  <2> SUFFICES ASSUME k = "StatementEnd" PROVE Gone(n)' <=> SQLOf(Open(SectionOf(n))) = {}
    OBVIOUS
  <2>1. SectionOf(n)' = SectionOf(n) /\ k \notin TextKinds
    BY <1>1, <1>2 DEF TextKinds, SQLKinds
  <2>2. \A d : Closed(d, n)' = Open(d)
    BY <2>1, LongerEnds DEF Added
  <2>3. Closed(SectionOf(n), n)' = Open(SectionOf(n))
    BY <2>1, <2>2 DEF Closed
  <2>4. Open(SectionOf(n)) \in SUBSET Lines
    BY LongerEnds
  <2> QED
    BY <2>3, <2>4, <1>3 DEF SQLOf
<1>7. EmptyBlocks = {t \in W : Gone(t)} /\ EmptyBlocks' = {t \in W' : Gone(t)'}
  BY DEF EmptyBlocks
<1> HIDE DEF W, Gone
<1> QED
  BY <1>1, <1>3, <1>4, <1>5, <1>6, <1>7

\* The statements that the file is made of.
LEMMA LongerStatements ==
    ASSUME NEW k, NEW n, Longer(k, n), NEW d
    PROVE  /\ Statements(d) \in Seq(SUBSET Nat)
           /\ ~Ending(d, k, n) => Statements(d)' = Statements(d)
           /\ Ending(d, k, n) =>
                  Statements(d)' = Append(Statements(d),
                                          (Open(d) \cup Added(d, k, n)) \cap Where(SQLKinds)')
<1> DEFINE E == Ends(d)
           C == Cardinality(E)
           a == Ascending(E)
           W == Where(SQLKinds)
           s == Statements(d)
           new == (Open(d) \cup Added(d, k, n)) \cap W'
<1>1. /\ n \in Nat \ {0} /\ Lines = 1..(n - 1) /\ \A i \in Lines : i \in Nat
      /\ W \subseteq Lines /\ W \subseteq W' /\ W' \subseteq W \cup {n}
  BY LongerLines, LongerWhere
<1>2. /\ E' = E \cup {i \in {n} : Ending(d, k, n)}
      /\ \A e \in E : e \in Nat /\ e < n /\ e \in Lines
      /\ \A t \in Lines : Closed(d, t)' = Closed(d, t)
      /\ Closed(d, n)' = Open(d) \cup Added(d, k, n)
      /\ Open(d) \subseteq Lines
  BY LongerEnds
<1>3. IsFiniteSet(E) /\ E \in SUBSET Nat
  <2>1. IsFiniteSet(1..(n - 1))
    BY <1>1, FS_Interval
  <2> QED
    BY <2>1, <1>1, <1>2, FS_Subset
<1>4. /\ a \in Seq(E) /\ Len(a) = C /\ C \in Nat /\ DOMAIN a = 1..C
      /\ \A i \in 1..C : a[i] \in E
  <2>1. a \in Seq(E) /\ Len(a) = C /\ C \in Nat
    BY <1>3, AscendingProperties, FS_CardinalityType
  <2> QED
    BY <2>1, LenProperties, ElementOfSeq
<1>5. \A t : Closed(d, t) \subseteq Nat
  BY <1>1 DEF Closed, Where
<1>6. s = [i \in 1..C |-> Closed(d, a[i]) \cap W]
  BY <1>4 DEF Statements, SQLOf
<1>7. /\ s' = [i \in DOMAIN a' |-> s'[i]]
      /\ \A t, i : i \in DOMAIN a' /\ t = a'[i] => s'[i] = Closed(d, t)' \cap W'
  <2>1. s' = [i \in DOMAIN a |-> Closed(d, a[i]) \cap W]'
    BY DEF Statements, SQLOf
  <2>2. ASSUME NEW t, NEW i, i \in DOMAIN a', t = a'[i] PROVE s'[i] = Closed(d, t)' \cap W'
    BY <2>1, <2>2 DEF Closed
  <2> QED
    BY <2>1, <2>2
<1>8. s \in Seq(SUBSET Nat) /\ Len(s) = C
  BY <1>4, <1>5, <1>6
<1>9. \A t \in E : Closed(d, t)' \cap W' = Closed(d, t) \cap W
  <2>1. \A t \in E : Closed(d, t) \subseteq Lines /\ n \notin Lines
    BY LongerLines DEF Closed, Where
  <2> QED
    BY <2>1, <1>1, <1>2
<1> HIDE DEF E, C, a, W, s, new
<1>10. ASSUME ~Ending(d, k, n) PROVE s' = s
  <2>1. E' = E
    BY <1>2, <1>10
  <2>2. a' = a
    BY <2>1 DEF a
  <2> QED
    BY <2>2, <1>4, <1>6, <1>7, <1>9
<1>11. ASSUME Ending(d, k, n) PROVE s' = Append(s, new)
  <2>1. E' = E \cup {n} /\ n \in Nat
    BY <1>1, <1>2, <1>11
  <2>2. a' = Append(a, n)
    BY <2>1, <1>2, <1>3, AscendingLonger DEF a
  <2>3. /\ DOMAIN a' = 1..(C + 1) /\ a'[C + 1] = n
        /\ \A i \in 1..C : a'[i] = a[i]
    <3>1. a \in Seq(Nat)
      BY <1>3, <1>4, SeqMonotonic
    <3>2. a' \in Seq(Nat) /\ Len(a') = C + 1 /\ a'[C + 1] = n /\ \A i \in 1..C : a'[i] = a[i]
      BY <3>1, <2>1, <2>2, <1>4, AppendProperties
    <3> QED
      BY <3>2, LenProperties
  <2>4. new \in SUBSET Nat
    BY <1>1, <1>2 DEF new, Added, W
  <2>5. s'[C + 1] = new
    <3>1. C + 1 \in 1..(C + 1)
      BY <1>4
    <3> QED
      BY <3>1, <2>3, <1>2, <1>7 DEF new
  <2>6. \A i \in 1..C : s'[i] = s[i]
    <3> SUFFICES ASSUME NEW i \in 1..C PROVE s'[i] = s[i]
      OBVIOUS
    <3>1. i \in 1..(C + 1) /\ a'[i] = a[i] /\ a[i] \in E
      BY <2>3, <1>4
    <3>2. s'[i] = Closed(d, a[i])' \cap W'
      BY <3>1, <2>3, <1>7
    <3> QED
      BY <3>1, <3>2, <1>6, <1>9
  <2>7. /\ Append(s, new) \in Seq(SUBSET Nat) /\ Len(Append(s, new)) = C + 1
        /\ Append(s, new)[C + 1] = new /\ \A i \in 1..C : Append(s, new)[i] = s[i]
    BY <2>4, <1>8, AppendProperties
  <2>8. \A i \in 1..(C + 1) : s'[i] = Append(s, new)[i]
    BY <2>5, <2>6, <2>7, <1>4
  <2>9. s' \in [1..(C + 1) -> SUBSET Nat]
    <3>1. DOMAIN s' = 1..(C + 1) /\ s' = [i \in 1..(C + 1) |-> s'[i]]
      BY <2>3, <1>7
    <3>2. \A i \in 1..(C + 1) : s'[i] \in SUBSET Nat
      <4>1. \A i \in 1..C : s[i] \in SUBSET Nat
        BY <1>8, ElementOfSeq
      <4>2. \A i \in 1..(C + 1) : i \in 1..C \/ i = C + 1
        BY <1>4
      <4> QED
        BY <4>1, <4>2, <2>4, <2>5, <2>6
    <3> QED
      BY <3>1, <3>2
  <2>10. s' \in Seq(SUBSET Nat) /\ Len(s') = C + 1
    BY <2>9, <1>4
  <2> QED
    BY <2>7, <2>8, <2>10, SeqEqual
<1> QED
  BY <1>8, <1>10, <1>11 DEF s, new, W

\* Where the next line is: its section, whether it is in a block, and whether
\* variables are substituted in it.
Section == SectionOf(Len(lines) + 1)

Inside == BlockAt(Len(lines) + 1)

Substituting == Switched(Len(lines) + 1, "EnvsubOn", "EnvsubOff")

\* Where the line after the next one is.
LEMMA LongerHere ==
    ASSUME NEW k, NEW n, Longer(k, n)
    PROVE  /\ Section = SectionOf(n)
           /\ Inside <=> BlockAt(n)
           /\ Substituting <=> Switched(n, "EnvsubOn", "EnvsubOff")
           /\ Section' = (IF k = "Down" THEN "down"
                          ELSE IF k = "Up" /\ Section = "none" THEN "up" ELSE Section)
           /\ Inside' <=> k = "StatementBegin" \/ (k # "StatementEnd" /\ Inside)
           /\ Substituting' <=> k = "EnvsubOn" \/ (k # "EnvsubOff" /\ Substituting)
           /\ Section \in {"none", "up", "down"}
<1>1. n = Len(lines) + 1 /\ n + 1 = Len(lines') + 1
  BY LongerLines DEF Longer
<1>2. /\ Section = SectionOf(n)
      /\ Inside <=> BlockAt(n)
      /\ Substituting <=> Switched(n, "EnvsubOn", "EnvsubOff")
  BY <1>1 DEF Section, Inside, Substituting
<1>3. Section' = SectionOf(n + 1)'
  BY <1>1 DEF Section, SectionOf
<1>4. /\ Inside' <=> BlockAt(n + 1)'
      /\ Substituting' <=> Switched(n + 1, "EnvsubOn", "EnvsubOff")'
  BY <1>1 DEF Inside, Substituting, BlockAt, Switched
<1>5. BlockAt(n + 1)' <=> k = "StatementBegin" \/ (k # "StatementEnd" /\ BlockAt(n))
  <2>1. "StatementBegin" # "StatementEnd"
    OBVIOUS
  <2> QED
    BY <2>1, LongerSwitched DEF BlockAt
<1>6. Switched(n + 1, "EnvsubOn", "EnvsubOff")' <=>
          k = "EnvsubOn" \/ (k # "EnvsubOff" /\ Switched(n, "EnvsubOn", "EnvsubOff"))
  <2>1. "EnvsubOn" # "EnvsubOff"
    OBVIOUS
  <2> QED
    BY <2>1, LongerSwitched
<1> QED
  BY <1>2, <1>3, <1>4, <1>5, <1>6, LongerSection

-----------------------------------------------------------------------------
(* What one iteration of the loop returns *)

\* The states of direction d, and the one between an empty block and the line
\* that it swallows.
Own(d) == IF d = "up" THEN InUp ELSE InDown

Other(d) == IF d = "up" THEN InDown ELSE InUp

OwnEnd == [up |-> "gooseStatementEndUp", down |-> "gooseStatementEndDown"]

\* Has a block just ended?
AtEnd(s) == s.state \in {"gooseStatementEndUp", "gooseStatementEndDown"}

\* The parser with the line in its buffer.
Buffers(s, n) == [s EXCEPT !.buf = @ \cup {n}]

\* Where an iteration of the loop goes.
LEMMA ScanCases ==
    ASSUME NEW s, NEW d, NEW ls, NEW k \in Annotations \cup TextKinds, k = Last(ls)
    PROVE  /\ k \in TextKinds /\ s.state = "start" /\ k \in {"empty", "blank"} => Scan(s, d, ls) = s
           /\ k \in TextKinds /\ ~(s.state = "start" /\ k \in {"empty", "blank"}) =>
                  Scan(s, d, ls) = Body(s, d, ls, k)
           /\ k \in Annotations \ {"StatementEnd"} => Scan(s, d, ls) = Annotate(s, ls, k)
           /\ k = "StatementEnd" =>
                  Scan(s, d, ls) = IF Annotate(s, ls, k).state = "error" THEN Annotate(s, ls, k)
                                   ELSE Body(Annotate(s, ls, k), d, ls, k)
<1>1. k \in TextKinds => k \notin Annotations
  BY DEF TextKinds, SQLKinds, Annotations
<1>2. k \in Annotations => k \notin {"empty", "blank"}
  BY DEF Annotations
<1>3. "StatementEnd" \in Annotations
  BY DEF Annotations
<1> QED
  BY <1>1, <1>2, <1>3 DEF Scan

\* Where the body of the loop goes from there.
LEMMA BodyCases ==
    ASSUME NEW s, NEW d, NEW ls, NEW k
    PROVE  LET ignored == s.buf = {} /\ k \in {"comment", "empty", "StatementEnd"}
               refused == s.useEnvsub /\ k = "sqlBadVar"
           IN  /\ ignored => Body(s, d, ls, k) = s
               /\ ~ignored /\ AtEnd(s) => Body(s, d, ls, k) = Export(s, d, ls, k)
               /\ ~ignored /\ ~AtEnd(s) /\ refused => Body(s, d, ls, k) = Fail(s)
               /\ ~ignored /\ ~AtEnd(s) /\ ~refused =>
                      Body(s, d, ls, k) = Export(Buffers(s, Len(ls)), d, ls, k)
<1> DEFINE ignored == s.buf = {} /\ k \in {"comment", "empty", "StatementEnd"}
           refused == s.useEnvsub /\ k = "sqlBadVar"
<1>1. Body(s, d, ls, k) = IF ignored THEN s ELSE Buffer(s, d, ls, k)
  BY DEF Body
<1>2. Buffer(s, d, ls, k) = IF AtEnd(s) THEN Export(s, d, ls, k)
                            ELSE IF refused THEN Fail(s)
                            ELSE Export(Buffers(s, Len(ls)), d, ls, k)
  BY DEF Buffer, AtEnd, Buffers
<1> QED
  BY <1>1, <1>2

\* A line of text before the annotation Up.
LEMMA ScanStart ==
    ASSUME NEW s \in Parser, NEW d \in Directions, NEW ls, NEW k \in TextKinds, k = Last(ls),
           s.state = "start", s.buf = {}
    PROVE  /\ k \in SQLKinds => Scan(s, d, ls).state = "error"
           /\ k \notin SQLKinds => Scan(s, d, ls) = s
<1> DEFINE b == Buffers(s, Len(ls))
<1>1. b.state = "start" /\ ~AtEnd(s)
  BY DEF Parser, Buffers, AtEnd
<1>2. ASSUME k \in SQLKinds PROVE Scan(s, d, ls).state = "error"
  <2>1. k \notin {"comment", "empty", "blank", "StatementEnd"}
    BY <1>2 DEF SQLKinds
  <2>2. Scan(s, d, ls) = Body(s, d, ls, k)
    BY <2>1, ScanCases
  <2>3. Body(s, d, ls, k) = Fail(s) \/ Body(s, d, ls, k) = Export(b, d, ls, k)
    BY <2>1, <1>1, BodyCases
  <2>4. Export(b, d, ls, k) = Fail(b)
    BY <1>1 DEF Export, InUp, InDown
  <2>5. Fail(s).state = "error" /\ Fail(b).state = "error"
    BY DEF Fail, Parser, Buffers
  <2> QED
    BY <2>2, <2>3, <2>4, <2>5
<1>3. ASSUME k \notin SQLKinds PROVE Scan(s, d, ls) = s
  <2>1. k \in {"empty", "blank"} \/ k = "comment"
    BY <1>3 DEF TextKinds
  <2>2. k = "comment" => Body(s, d, ls, k) = s
    BY BodyCases
  <2> QED
    BY <2>1, <2>2, ScanCases
<1> QED
  BY <1>2, <1>3

\* A line of text in the section of the other direction is dropped.
LEMMA ScanOther ==
    ASSUME NEW s \in Parser, NEW d \in Directions, NEW ls, NEW k \in TextKinds, k = Last(ls),
           s.state \in Other(d)
    PROVE  LET r == Scan(s, d, ls)
           IN  \/ k = "sqlBadVar" /\ s.useEnvsub /\ ~AtEnd(s) /\ r.state = "error"
               \/ /\ ~(k = "sqlBadVar" /\ s.useEnvsub /\ ~AtEnd(s))
                  /\ r.state = s.state /\ r.stmts = s.stmts /\ r.buf \in {{}, s.buf}
<1> DEFINE b == Buffers(s, Len(ls))
           none == [s EXCEPT !.buf = {}]
           r == Scan(s, d, ls)
<1>1. /\ b.state = s.state
      /\ s.state # "start" /\ s.state # "error"
  BY DEF Parser, Buffers, Other, InUp, InDown
<1>2. r = Body(s, d, ls, k)
  BY <1>1, ScanCases
<1>3. Export(s, d, ls, k) = none
  BY <1>1 DEF Export, Other
<1>4. Export(b, d, ls, k) = [b EXCEPT !.buf = {}]
  BY <1>1 DEF Export, Other
<1>5. [b EXCEPT !.buf = {}] = none
  BY DEF Parser, Buffers
<1>6. /\ Fail(s).state = "error"
      /\ none.state = s.state /\ none.stmts = s.stmts /\ none.buf = {}
  BY DEF Fail, Parser
<1> HIDE DEF b, none
<1>7. \/ k = "sqlBadVar" /\ s.useEnvsub /\ ~AtEnd(s) /\ r = Fail(s)
      \/ ~(k = "sqlBadVar" /\ s.useEnvsub /\ ~AtEnd(s)) /\ r \in {s, none}
  <2>1. k = "sqlBadVar" => k \notin {"comment", "empty", "StatementEnd"}
    OBVIOUS
  <2>2. CASE s.buf = {} /\ k \in {"comment", "empty", "StatementEnd"}
    BY <2>1, <2>2, <1>2, BodyCases
  <2>3. CASE ~(s.buf = {} /\ k \in {"comment", "empty", "StatementEnd"}) /\ AtEnd(s)
    BY <2>3, <1>2, <1>3, BodyCases
  <2>4. CASE ~(s.buf = {} /\ k \in {"comment", "empty", "StatementEnd"}) /\ ~AtEnd(s)
    <3>1. CASE s.useEnvsub /\ k = "sqlBadVar"
      BY <3>1, <2>4, <1>2, BodyCases
    <3>2. CASE ~(s.useEnvsub /\ k = "sqlBadVar")
      <4>1. r = Export(Buffers(s, Len(ls)), d, ls, k)
        BY <3>2, <2>4, <1>2, BodyCases
      <4>2. r = none
        BY <4>1, <1>4, <1>5 DEF b
      <4> QED
        BY <4>2, <3>2
    <3> QED
      BY <3>1, <3>2
  <2> QED
    BY <2>2, <2>3, <2>4
<1> HIDE DEF r
<1> QED
  BY <1>6, <1>7 DEF r

\* Storing a statement empties the buffer.
LEMMA StoreFacts ==
    ASSUME NEW s \in Parser, NEW d \in Directions, NEW ls,
           s.state \in Own(d) \ InBlock
    PROVE  /\ Store(s, ls).state \notin {"error", OwnEnd[d]}
           /\ Store(s, ls).buf = {}
           /\ Store(s, ls).stmts = Append(s.stmts, cleanupStatement(ls, s.buf))
<1> DEFINE new == Append(s.stmts, cleanupStatement(ls, s.buf))
           to == AfterStore[s.state]
<1>1. Store(s, ls) = [s EXCEPT !.stmts = new, !.buf = {}, !.state = to]
  BY DEF Store
<1>2. to \notin {"error", OwnEnd[d]}
  BY DEF Own, InUp, InDown, InBlock, AfterStore, OwnEnd, Directions
<1> HIDE DEF new, to
<1>3. Store(s, ls).state = to /\ Store(s, ls).buf = {} /\ Store(s, ls).stmts = new
  BY <1>1 DEF Parser
<1> QED
  BY <1>2, <1>3 DEF new

\* Lines of text that are not looked at, that are an error, that end a statement.
Ignored(s, k) == s.buf = {} /\ k \in {"comment", "empty"}

Refused(s, k) == s.useEnvsub /\ k = "sqlBadVar"

Terminates(s, k) == s.state \notin InBlock /\ endsWithSemicolon(k, s.useEnvsub)

\* A line of text in the section of direction d, and how it goes on.
LEMMA OwnFacts ==
    ASSUME NEW s \in Parser, NEW d \in Directions, NEW ls, Len(ls) \in Nat,
           NEW k \in TextKinds, k = Last(ls), s.state \in Own(d)
    PROVE  /\ Ignored(s, k) => Scan(s, d, ls) = s
           /\ ~Ignored(s, k) /\ s.state = OwnEnd[d] => Scan(s, d, ls) = Store(s, ls)
           /\ ~Ignored(s, k) /\ s.state # OwnEnd[d] /\ Refused(s, k) => Scan(s, d, ls) = Fail(s)
           /\ ~Ignored(s, k) /\ s.state # OwnEnd[d] /\ ~Refused(s, k) =>
                  Scan(s, d, ls) = IF Terminates(s, k) THEN Store(Buffers(s, Len(ls)), ls)
                                   ELSE Buffers(s, Len(ls))
<1> DEFINE r == Scan(s, d, ls)
           b == Buffers(s, Len(ls))
<1>1. /\ s.state # "start" /\ s.state # "error" /\ k # "StatementEnd"
      /\ AtEnd(s) <=> s.state = OwnEnd[d]
      /\ s.state \notin (IF d = "up" THEN InDown ELSE InUp)
  BY DEF Own, InUp, InDown, OwnEnd, AtEnd, TextKinds, SQLKinds, Directions
<1>2. r = Body(s, d, ls, k)
  BY <1>1, ScanCases
<1>3. b.state = s.state /\ b.useEnvsub = s.useEnvsub
  BY DEF Buffers, Parser
<1> HIDE DEF b, r
<1>4. ASSUME Ignored(s, k) PROVE r = s
  BY <1>2, <1>4, BodyCases DEF Ignored
<1>5. ASSUME ~Ignored(s, k), s.state = OwnEnd[d] PROVE r = Store(s, ls)
  <2>1. r = Export(s, d, ls, k)
    BY <1>1, <1>2, <1>5, BodyCases DEF Ignored
  <2> QED
    BY <2>1, <1>1, <1>5 DEF Export, AtEnd
<1>6. ASSUME ~Ignored(s, k), s.state # OwnEnd[d], Refused(s, k) PROVE r = Fail(s)
  BY <1>1, <1>2, <1>6, BodyCases DEF Ignored, Refused
<1>7. ASSUME ~Ignored(s, k), s.state # OwnEnd[d], ~Refused(s, k)
      PROVE  r = IF Terminates(s, k) THEN Store(b, ls) ELSE b
  <2>1. r = Export(b, d, ls, k)
    BY <1>1, <1>2, <1>7, BodyCases DEF b, Ignored, Refused
  <2> QED
    BY <2>1, <1>1, <1>3, <1>7 DEF Export, AtEnd, Terminates
<1> QED
  BY <1>4, <1>5, <1>6, <1>7 DEF r, b

\* A line behind an empty block is swallowed.
LEMMA ScanSwallows ==
    ASSUME NEW s \in Parser, NEW d \in Directions, NEW ls, Len(ls) \in Nat,
           NEW k \in TextKinds, k = Last(ls), ~Ignored(s, k), s.state = OwnEnd[d]
    PROVE  /\ Scan(s, d, ls).state \notin {"error", OwnEnd[d]}
           /\ Scan(s, d, ls).buf = {}
           /\ Scan(s, d, ls).stmts = Append(s.stmts, cleanupStatement(ls, s.buf))
<1>1. s.state \in Own(d) \ InBlock
  BY DEF OwnEnd, Directions, Own, InUp, InDown, InBlock
<1>2. Scan(s, d, ls) = Store(s, ls)
  BY <1>1, OwnFacts
<1> QED
  BY <1>1, <1>2, StoreFacts

\* A line that ends a statement is stored with the buffer.
LEMMA ScanStores ==
    ASSUME NEW s \in Parser, NEW d \in Directions, NEW ls, Len(ls) \in Nat,
           NEW k \in TextKinds, k = Last(ls), s.state \in Own(d), s.state # OwnEnd[d],
           ~Ignored(s, k), ~Refused(s, k), Terminates(s, k),
           NEW with, with = s.buf \cup {Len(ls)}
    PROVE  /\ Scan(s, d, ls).state \notin {"error", OwnEnd[d]}
           /\ Scan(s, d, ls).buf = {}
           /\ Scan(s, d, ls).stmts = Append(s.stmts, cleanupStatement(ls, with))
<1> DEFINE b == Buffers(s, Len(ls))
<1>1. Scan(s, d, ls) = Store(b, ls)
  BY OwnFacts
<1>2. b \in Parser /\ b.state = s.state /\ b.buf = with /\ b.stmts = s.stmts
  BY DEF Buffers, Parser
<1> HIDE DEF b
<1>3. b.state \in Own(d) \ InBlock
  BY <1>2 DEF Terminates
<1>4. /\ Store(b, ls).state \notin {"error", OwnEnd[d]}
      /\ Store(b, ls).buf = {}
      /\ Store(b, ls).stmts = Append(b.stmts, cleanupStatement(ls, b.buf))
  <2>1. b \in Parser
    BY <1>2
  <2> QED
    BY <2>1, <1>3, StoreFacts
<1> QED
  BY <1>1, <1>2, <1>4

\* Every other line goes to the buffer.
LEMMA ScanBuffers ==
    ASSUME NEW s \in Parser, NEW d \in Directions, NEW ls, Len(ls) \in Nat,
           NEW k \in TextKinds, k = Last(ls), s.state \in Own(d), s.state # OwnEnd[d],
           ~Ignored(s, k), ~Refused(s, k), ~Terminates(s, k)
    PROVE  /\ Scan(s, d, ls).state = s.state
           /\ Scan(s, d, ls).buf = s.buf \cup {Len(ls)}
           /\ Scan(s, d, ls).stmts = s.stmts
<1>1. Scan(s, d, ls) = Buffers(s, Len(ls))
  BY OwnFacts
<1> QED
  BY <1>1 DEF Buffers, Parser

\* The end of a block.
LEMMA ScanBlockEnd ==
    ASSUME NEW s \in Parser, NEW d \in Directions, NEW ls, Last(ls) = "StatementEnd"
    PROVE  LET r == Scan(s, d, ls)
           IN  /\ s.state \notin InBlock => r.state = "error"
               /\ s.state \in InBlock \cap Other(d) =>
                      /\ r.state \in Other(d) \ InBlock
                      /\ r.buf = {} /\ r.stmts = s.stmts
               /\ s.state \in InBlock \cap Own(d) /\ s.buf = {} =>
                      r.state = OwnEnd[d] /\ r.buf = {} /\ r.stmts = s.stmts
               /\ s.state \in InBlock \cap Own(d) /\ s.buf # {} =>
                      /\ r.state \notin {"error", OwnEnd[d]} /\ r.buf = {}
                      /\ r.stmts = Append(s.stmts, cleanupStatement(ls, s.buf))
<1> DEFINE k == "StatementEnd"
           r == Scan(s, d, ls)
           a == Annotate(s, ls, k)
<1>1. a = Via(s, AfterEnd)
  BY DEF Annotate
<1>2. DOMAIN AfterEnd = InBlock
  BY DEF AfterEnd, InBlock
<1>3. r = IF a.state = "error" THEN a ELSE Body(a, d, ls, k)
  <2>1. k \in Annotations \cup TextKinds
    BY DEF Annotations
  <2> QED
    BY <2>1, ScanCases
<1>4. ASSUME s.state \notin InBlock PROVE r.state = "error"
  BY <1>1, <1>2, <1>3, <1>4, FailFacts DEF Via
<1>5. ASSUME s.state \in InBlock
      PROVE  /\ a \in Parser /\ a.state = AfterEnd[s.state] /\ a.buf = s.buf /\ a.stmts = s.stmts
             /\ AtEnd(a) /\ a.state # "error" /\ a.state \notin InBlock /\ a.state # "start"
             /\ s.state \in Own(d) =>
                    a.state = OwnEnd[d] /\ a.state \in Own(d) /\ a.state \notin Other(d)
             /\ s.state \in Other(d) => a.state \in Other(d)
  <2>1. a = [s EXCEPT !.state = AfterEnd[s.state]]
    BY <1>1, <1>2, <1>5 DEF Via, Set
  <2>2. \/ s.state = "gooseStatementBeginUp" /\ AfterEnd[s.state] = "gooseStatementEndUp"
        \/ s.state = "gooseStatementBeginDown" /\ AfterEnd[s.state] = "gooseStatementEndDown"
    BY <1>5 DEF InBlock, AfterEnd
  <2> DEFINE to == AfterEnd[s.state]
  <2>3. /\ to \in {"gooseStatementEndUp", "gooseStatementEndDown"}
        /\ s.state \in Own(d) => to = OwnEnd[d] /\ to \in Own(d) /\ to \notin Other(d)
        /\ s.state \in Other(d) => to \in Other(d)
    BY <2>2 DEF Own, Other, InUp, InDown, OwnEnd, Directions
  <2> HIDE DEF to
  <2>4. a.state = to /\ a.buf = s.buf /\ a.stmts = s.stmts /\ a \in Parser
    <3>1. to \in States
      BY <2>3 DEF States, InUp, InDown
    <3> QED
      BY <3>1, <2>1 DEF to, Parser
  <2> HIDE DEF a
  <2> QED
    BY <2>3, <2>4 DEF AtEnd, InBlock, to
<1> HIDE DEF a
<1>6. ASSUME s.state \in InBlock, a.buf = {} PROVE r = a
  BY <1>3, <1>5, <1>6, BodyCases
<1>7. ASSUME s.state \in InBlock, a.buf # {} PROVE r = Export(a, d, ls, k)
  BY <1>3, <1>5, <1>7, BodyCases
<1>8. ASSUME s.state \in InBlock \cap Other(d)
      PROVE  r.state \in Other(d) \ InBlock /\ r.buf = {} /\ r.stmts = s.stmts
  <2>1. Export(a, d, ls, k) = [a EXCEPT !.buf = {}]
    BY <1>5, <1>8 DEF Export, Other
  <2>2. LET x == [a EXCEPT !.buf = {}] IN x.state = a.state /\ x.buf = {} /\ x.stmts = a.stmts
    BY <1>5, <1>8 DEF Parser
  <2> QED
    BY <2>1, <2>2, <1>5, <1>6, <1>7, <1>8
<1>9. ASSUME s.state \in InBlock \cap Own(d), s.buf = {}
      PROVE  r.state = OwnEnd[d] /\ r.buf = {} /\ r.stmts = s.stmts
  BY <1>5, <1>6, <1>9
<1>10. ASSUME s.state \in InBlock \cap Own(d), s.buf # {}
       PROVE  /\ r.state \notin {"error", OwnEnd[d]} /\ r.buf = {}
              /\ r.stmts = Append(s.stmts, cleanupStatement(ls, s.buf))
  <2>1. Export(a, d, ls, k) = Store(a, ls)
    BY <1>5, <1>10 DEF Export, Other, AtEnd
  <2>2. a.state \in Own(d) \ InBlock
    BY <1>5, <1>10
  <2> QED
    BY <2>1, <2>2, <1>5, <1>7, <1>10, StoreFacts
<1> QED
  BY <1>4, <1>8, <1>9, <1>10

\* The other annotations leave the buffer and the statements alone.
LEMMA ScanAnnotation ==
    ASSUME NEW s \in Parser, NEW d \in Directions, NEW ls,
           NEW k \in Annotations \ {"StatementEnd"}, k = Last(ls), s.state # "error"
    PROVE  LET r == Scan(s, d, ls)
           IN  /\ r.state = "error" <=>
                      \/ k = "Up" /\ Place(s.state) # "none"
                      \/ k = "Down" /\ (Place(s.state) # "up" \/ cleanupStatement(ls, s.buf) # {})
                      \/ k = "StatementBegin" /\ Place(s.state) \notin {"up", "down"}
                      \/ k = "invalid"
               /\ r.state # "error" => /\ r.buf = s.buf /\ r.stmts = s.stmts
                                       /\ r.state = s.state \/ ~AtEnd(r)
<1> DEFINE r == Scan(s, d, ls)
           Same == r.buf = s.buf /\ r.stmts = s.stmts
<1>1. r = Annotate(s, ls, k)
  BY ScanCases
<1>2. s.state \in States \ {"error"}
  BY DEF Parser
<1>3. \A to \in States : LET x == Set(s, to) IN x.state = to /\ x.buf = s.buf /\ x.stmts = s.stmts
  BY DEF Set, Parser
<1>4. Fail(s).state = "error"
  BY FailFacts
<1> HIDE DEF r
<1> USE DEF States, InUp, InDown, Place, AtEnd
<1>5. CASE k = "Up"
  <2>1. r = IF s.state = "start" THEN Set(s, "gooseUp") ELSE Fail(s)
    BY <1>1, <1>5 DEF Annotate, Via
  <2> QED
    BY <2>1, <1>2, <1>3, <1>4, <1>5 DEF r
<1>6. CASE k = "Down"
  <2> DEFINE table == [gooseUp |-> "gooseDown", gooseStatementEndUp |-> "gooseDown"]
             dirty == cleanupStatement(ls, s.buf) # {}
  <2>1. r = IF dirty THEN Fail(s) ELSE Via(s, table)
    BY <1>1, <1>6 DEF Annotate, Down
  <2>2. Via(s, table) = IF s.state \in {"gooseUp", "gooseStatementEndUp"} THEN Set(s, "gooseDown")
                        ELSE Fail(s)
    BY DEF Via
  <2> HIDE DEF table, dirty
  <2>3. r = IF dirty \/ s.state \notin {"gooseUp", "gooseStatementEndUp"} THEN Fail(s)
            ELSE Set(s, "gooseDown")
    BY <2>1, <2>2
  <2> QED
    BY <2>3, <1>2, <1>3, <1>4, <1>6 DEF r, dirty
<1>7. CASE k = "StatementBegin"
  <2>1. r = IF s.state \in DOMAIN AfterBegin THEN Set(s, AfterBegin[s.state]) ELSE Fail(s)
    BY <1>1, <1>7 DEF Annotate, StatementBegin, Via
  <2>2. DOMAIN AfterBegin = {x \in States : Place(x) \in {"up", "down"}}
    BY DEF AfterBegin
  <2>3. \A x \in DOMAIN AfterBegin :
            AfterBegin[x] \in {"gooseStatementBeginUp", "gooseStatementBeginDown"}
    BY DEF AfterBegin
  <2>4. CASE s.state \in DOMAIN AfterBegin
    <3> DEFINE to == AfterBegin[s.state]
    <3>1. to \in {"gooseStatementBeginUp", "gooseStatementBeginDown"}
      BY <2>3, <2>4
    <3> HIDE DEF to
    <3>2. r = Set(s, to)
      BY <2>1, <2>4 DEF to
    <3>3. r.state = to /\ r.buf = s.buf /\ r.stmts = s.stmts
      BY <3>1, <3>2, <1>3
    <3>4. Place(s.state) \in {"up", "down"}
      BY <2>2, <2>4
    <3> QED
      BY <3>1, <3>3, <3>4, <1>7 DEF r
  <2>5. CASE s.state \notin DOMAIN AfterBegin
    <3>1. r.state = "error" /\ Place(s.state) \notin {"up", "down"}
      BY <2>1, <2>2, <2>5, <1>2, <1>4
    <3> QED
      BY <3>1, <1>7 DEF r
  <2> QED
    BY <2>4, <2>5
<1>8. CASE k = "NoTransaction"
  <2>1. r = [s EXCEPT !.useTx = FALSE]
    BY <1>1, <1>8 DEF Annotate, NoTransaction
  <2>2. r.state = s.state /\ r.buf = s.buf /\ r.stmts = s.stmts
    BY <2>1 DEF Parser
  <2> QED
    BY <2>2, <1>8 DEF r
<1>9. CASE k \in {"EnvsubOn", "EnvsubOff"}
  <2>1. r = [s EXCEPT !.useEnvsub = (k = "EnvsubOn")]
    BY <1>1, <1>9 DEF Annotate
  <2>2. r.state = s.state /\ r.buf = s.buf /\ r.stmts = s.stmts
    BY <2>1 DEF Parser
  <2> QED
    BY <2>2, <1>9 DEF r
<1>10. CASE k = "invalid"
  BY <1>1, <1>4, <1>10 DEF Annotate, r
<1> QED
  BY <1>5, <1>6, <1>7, <1>8, <1>9, <1>10 DEF Annotations

-----------------------------------------------------------------------------
(* The inductive invariant: the parsers against the reference *)

PlaceOf(section, inside) ==
    CASE section = "none" -> "none"
      [] section = "up" -> IF inside THEN "upBlock" ELSE "up"
      [] OTHER -> IF inside THEN "downBlock" ELSE "down"

\* A parser is at the place where the file is.
Placed(d) == /\ Place(parser[d].state) = PlaceOf(Section, Inside)
             /\ parser[d].useEnvsub = Substituting
             /\ Section = "none" => ~Inside

\* It holds text that nothing has closed, and behind its section no SQL.
BufferFits(d) ==
    /\ parser[d].buf \subseteq Open(d)
    /\ Section # d => cleanupStatement(lines, parser[d].buf) = {}
    /\ parser[d].state = OwnEnd[d] => parser[d].buf = {}

\* Its statements are text of its section that something has closed, in order.
StatementsFit(d) ==
    /\ \A m \in DOMAIN parser[d].stmts : \A i \in parser[d].stmts[m] :
           /\ i \in Where(TextKinds) /\ SectionOf(i) = d
           /\ \E e \in Ends(d) : i <= e
    /\ \A l, m \in DOMAIN parser[d].stmts : l < m =>
           \A i \in parser[d].stmts[l], j \in parser[d].stmts[m] : i < j

\* Is i the first line of SQL behind a block, not before an empty one?
Excused(i) == \E t \in Where({"StatementEnd"}) :
                  /\ t < i
                  /\ \A j \in Where(SQLKinds) : ~(t < j /\ j < i)
                  /\ \E e \in EmptyBlocks : e <= t

\* Every line of SQL is buffered, in a statement, or excused.
Accounted(d) ==
    \A i \in Where(SQLKinds) : SectionOf(i) = d =>
        \/ i \in parser[d].buf
        \/ \E m \in DOMAIN parser[d].stmts : i \in parser[d].stmts[m]
        \/ Excused(i)

\* The line that an empty block swallows is excused.
Swallows(d) == parser[d].state = OwnEnd[d] => Excused(Len(lines) + 1)

\* The open text from its first line that is neither a comment nor empty.
Buffered(d) == {i \in Open(d) :
                   \E j \in Open(d) : j <= i /\ lines[j] \in SQLKinds \cup {"blank"}}

\* What the parser takes for an unfinished statement, the reference and the
\* comments that white space makes it keep together; and which files it lets
\* pass on that account.
Leftover(d) ==
    \E i \in Open(d) : \/ lines[i] \in SQLKinds
                       \/ lines[i] = "comment" /\ \E j \in Open(d) : j < i /\ lines[j] = "blank"

Passable ==
    /\ InOrder
    /\ Where({"invalid"}) = {}
    /\ \A i \in Where({"sqlBadVar"}) : ~Switched(i, "EnvsubOn", "EnvsubOff")
    /\ Where({"Down"}) # {} => ~Leftover("up")

Passed ==
    /\ Passable
    /\ Where({"Up"}) # {}
    /\ ~BlockAt(Len(lines) + 1)
    /\ \A d \in Directions : ~Leftover(d)

\* Without empty blocks the parser has exactly what the reference says.
Exact(d) == EmptyBlocks = {} => /\ Section = d => parser[d].buf = Buffered(d)
                                /\ Returned(d) = Statements(d)

Follows(d) == /\ Placed(d) /\ BufferFits(d) /\ StatementsFit(d)
              /\ Accounted(d) /\ Swallows(d) /\ Exact(d)

\* What the file read so far must look like, given that no parser has failed.
Sound == /\ \A i \in Where(SQLKinds) : SectionOf(i) # "none"
         /\ InOrder
         /\ Where({"invalid"}) = {}
         /\ EmptyBlocks = {} => Passable

\* At the end of the file nothing is left in a buffer.
Done == eof => \A d \in Directions : cleanupStatement(lines, parser[d].buf) = {}

ParserInv == ~Failed => (\A d \in Directions : Follows(d)) /\ Sound /\ Done

\* Both parsers read an n-th line of kind k.
Reads(k, n) == /\ Longer(k, n) /\ TypeOK /\ TypeOK' /\ ~Failed
               /\ parser' = [d \in Directions |-> Scan(parser[d], d, lines')]

-----------------------------------------------------------------------------
(* What a line does to a parser, in terms of the reference *)

\* Trimming drops nothing but white space.
LEMMA CleanupFacts ==
    ASSUME NEW ls, NEW b \in SUBSET Nat
    PROVE  /\ cleanupStatement(ls, b) \subseteq b
           /\ \A i \in b : ls[i] \notin {"empty", "blank"} => i \in cleanupStatement(ls, b)
           /\ cleanupStatement(ls, b) = {} <=> \A i \in b : ls[i] \in {"empty", "blank"}
<1>1. \A i \in b : i <= i
  OBVIOUS
<1> QED
  BY <1>1 DEF cleanupStatement

\* A line more changes nothing in what is trimmed.
LEMMA LongerCleanup ==
    ASSUME NEW k, NEW n, Longer(k, n), NEW b \in SUBSET Lines
    PROVE  cleanupStatement(lines', b) = cleanupStatement(lines, b)
<1>1. \A i \in b : lines'[i] = lines[i]
  BY LongerLines
<1> QED
  BY <1>1 DEF cleanupStatement

\* A state and the place of the next line.
LEMMA StateAt ==
    ASSUME NEW d \in Directions, TypeOK, ~Failed, Placed(d)
    PROVE  /\ parser[d] \in Parser /\ parser[d].state # "error"
           /\ Section \in {"none", "up", "down"}
           /\ Section = "none" <=> parser[d].state = "start"
           /\ Section = d <=> parser[d].state \in Own(d)
           /\ Section \notin {"none", d} <=> parser[d].state \in Other(d)
           /\ Inside <=> parser[d].state \in InBlock
           /\ parser[d].state = OwnEnd[d] => Section = d /\ ~Inside
<1>1. parser[d] \in Parser /\ parser[d].state \in States \ {"error"}
  BY DEF TypeOK, Parser, Failed
<1>2. Section \in {"none", "up", "down"}
  BY DEF Section, SectionOf
<1>3. Place(parser[d].state) = PlaceOf(Section, Inside) /\ (Section = "none" => ~Inside)
  BY DEF Placed
<1> DEFINE st == parser[d].state
           sec == Section
<1>4. \A x \in BOOLEAN : PlaceOf(sec, x) =
          IF sec = "none" THEN "none"
          ELSE IF sec = "up" THEN IF x THEN "upBlock" ELSE "up"
          ELSE IF x THEN "downBlock" ELSE "down"
  BY <1>2 DEF PlaceOf
<1>5. Inside \in BOOLEAN
  BY DEF Inside, BlockAt, Switched
<1> HIDE DEF st, sec
<1>6. Place(st) = IF sec = "none" THEN "none"
                  ELSE IF sec = "up" THEN IF Inside THEN "upBlock" ELSE "up"
                  ELSE IF Inside THEN "downBlock" ELSE "down"
  BY <1>3, <1>4, <1>5 DEF st, sec
<1>7. st \in States \ {"error"} /\ sec \in {"none", "up", "down"} /\ (sec = "none" => ~Inside)
  BY <1>1, <1>2, <1>3 DEF st, sec
<1>8. /\ sec = "none" <=> st = "start"
      /\ sec = d <=> st \in Own(d)
      /\ sec \notin {"none", d} <=> st \in Other(d)
      /\ Inside <=> st \in InBlock
      /\ st = OwnEnd[d] => sec = d /\ ~Inside
  BY <1>5, <1>6, <1>7 DEF Place, States, InUp, InDown, InBlock, Own, Other, OwnEnd, Directions
<1> QED
  BY <1>1, <1>2, <1>8 DEF st, sec

\* A line that no parser of direction d goes past.
Mistake(d, k) ==
    \/ k = "Up" /\ Section # "none"
    \/ k = "Down" /\ (\/ Section # "up" \/ Inside
                      \/ cleanupStatement(lines, parser[d].buf) # {})
    \/ k = "StatementBegin" /\ (Section = "none" \/ Inside)
    \/ k = "StatementEnd" /\ ~Inside
    \/ k = "invalid"
    \/ k \in SQLKinds /\ Section = "none"

\* The facts that the lemmas about Scan need.
LEMMA ReadsFacts ==
    ASSUME NEW k, NEW n, Reads(k, n), NEW d \in Directions, BufferFits(d)
    PROVE  /\ parser[d] \in Parser /\ parser[d].state # "error"
           /\ parser'[d] = Scan(parser[d], d, lines') /\ parser'[d] \in Parser
           /\ k = Last(lines') /\ Len(lines') = n /\ n \in Nat
           /\ k \in Annotations \cup TextKinds
           /\ parser[d].buf \in SUBSET Lines /\ parser[d].buf \in SUBSET Nat
           /\ Section = "none" => parser[d].buf = {}
           /\ \A b \in SUBSET Lines :
                  cleanupStatement(lines', b) = cleanupStatement(lines, b)
<1>1. Longer(k, n) /\ TypeOK /\ TypeOK' /\ ~Failed
      /\ parser' = [x \in Directions |-> Scan(parser[x], x, lines')]
  BY DEF Reads
<1>2. /\ parser[d] \in Parser /\ parser[d].state # "error" /\ parser'[d] \in Parser
      /\ parser'[d] = Scan(parser[d], d, lines')
  BY <1>1 DEF TypeOK, Failed
<1>3. k \in Annotations \cup TextKinds /\ n \in Nat /\ Len(lines') = n /\ Last(lines') = k
      /\ Lines \subseteq Nat
  BY <1>1, LongerLines DEF Longer, Last
<1>4. parser[d].buf \subseteq Lines
  BY <1>1, LongerEnds DEF BufferFits
<1>5. ASSUME Section = "none" PROVE parser[d].buf = {}
  <2>1. \A i \in Lines : SectionOf(i) = "none"
    BY <1>1, <1>5, LongerHere, LongerSection, LongerLines
  <2>2. \A i \in Open(d) : i \in Lines /\ SectionOf(i) = d
    BY DEF Open, Where
  <2> QED
    BY <2>1, <2>2 DEF BufferFits, Directions
<1>6. \A b \in SUBSET Lines : cleanupStatement(lines', b) = cleanupStatement(lines, b)
  BY <1>1, LongerCleanup
<1> QED
  BY <1>2, <1>3, <1>4, <1>5, <1>6

\* A line is refused if it is a mistake, or for a substitution that fails.
LEMMA Refusals ==
    ASSUME NEW k, NEW n, Reads(k, n), NEW d \in Directions, Placed(d), BufferFits(d)
    PROVE  /\ Mistake(d, k) => parser'[d].state = "error"
           /\ parser'[d].state = "error" =>
                  Mistake(d, k) \/ (k = "sqlBadVar" /\ Substituting)
           /\ k = "sqlBadVar" /\ Substituting /\ Section = d
                  /\ parser'[d].state # "error" => parser[d].state = OwnEnd[d]
<1>0. PICK s, r : s = parser[d] /\ r = parser'[d]
  OBVIOUS
<1>1. /\ s \in Parser /\ s.state # "error" /\ r = Scan(s, d, lines')
      /\ k = Last(lines') /\ Len(lines') \in Nat /\ k \in Annotations \cup TextKinds
      /\ Section = "none" => s.buf = {}
      /\ cleanupStatement(lines', s.buf) = cleanupStatement(lines, s.buf)
  BY <1>0, ReadsFacts
<1>8. s \in Parser /\ r = Scan(s, d, lines') /\ k = Last(lines') /\ Len(lines') \in Nat
  BY <1>1
<1>2. /\ Section \in {"none", "up", "down"}
      /\ Section = "none" <=> s.state = "start"
      /\ Section = d <=> s.state \in Own(d)
      /\ Section \notin {"none", d} <=> s.state \in Other(d)
      /\ Inside <=> s.state \in InBlock
  BY <1>0, StateAt DEF Reads
<1>3. /\ Place(s.state) = PlaceOf(Section, Inside) /\ s.useEnvsub = Substituting
      /\ Inside \in BOOLEAN
  BY <1>0 DEF Placed, Inside, BlockAt, Switched
<1>4. /\ Place(s.state) # "none" <=> Section # "none"
      /\ Place(s.state) # "up" <=> Section # "up" \/ Inside
      /\ Place(s.state) \notin {"up", "down"} <=> Section = "none" \/ Inside
  BY <1>2, <1>3 DEF PlaceOf
<1>5. CASE k \in Annotations \ {"StatementEnd"}
  <2>1. r.state = "error" <=>
            \/ k = "Up" /\ Section # "none"
            \/ k = "Down" /\ (Section # "up" \/ Inside \/ cleanupStatement(lines, s.buf) # {})
            \/ k = "StatementBegin" /\ (Section = "none" \/ Inside)
            \/ k = "invalid"
    BY <1>1, <1>4, <1>5, ScanAnnotation
  <2>2. k # "StatementEnd" /\ k \notin SQLKinds /\ k # "sqlBadVar"
    BY <1>5 DEF Annotations, SQLKinds
  <2> QED
    BY <1>0, <2>1, <2>2 DEF Mistake
<1>6. CASE k = "StatementEnd"
  <2>1. r.state = "error" <=> s.state \notin InBlock
    <3>1. s.state \in InBlock => s.state \in Own(d) \/ s.state \in Other(d)
      BY DEF Own, Other, InBlock, InUp, InDown
    <3>2. \A x \in Other(d) : x # "error"
      BY DEF Other, InUp, InDown
    <3>3. OwnEnd[d] # "error"
      BY DEF OwnEnd, Directions
    <3>4. s.state \notin InBlock => r.state = "error"
      BY <1>8, <1>6, ScanBlockEnd, ZenonT(60)
    <3>5. s.state \in InBlock \cap Other(d) => r.state \in Other(d)
      BY <1>8, <1>6, ScanBlockEnd, ZenonT(60)
    <3>6. s.state \in InBlock \cap Own(d) => r.state = OwnEnd[d] \/ r.state # "error"
      BY <1>8, <1>6, ScanBlockEnd, ZenonT(60)
    <3> QED
      BY <3>1, <3>2, <3>3, <3>4, <3>5, <3>6
  <2>2. k \notin SQLKinds
    BY <1>6 DEF SQLKinds
  <2> QED
    BY <2>1, <2>2, <1>2, <1>6, <1>0 DEF Mistake
<1>7. CASE k \in TextKinds
  <2>1. k \notin Annotations /\ k \notin {"Up", "Down", "StatementBegin", "StatementEnd", "invalid"}
    BY <1>7 DEF TextKinds, SQLKinds, Annotations
  <2>2. Mistake(d, k) <=> k \in SQLKinds /\ Section = "none"
    BY <2>1 DEF Mistake
  <2>3. CASE Section = "none"
    <3>1. k \notin SQLKinds => r.state = s.state
      BY <2>3, <1>1, <1>2, <1>7, ScanStart
    <3>2. k \in SQLKinds => r.state = "error"
      BY <2>3, <1>1, <1>2, <1>7, ScanStart
    <3>3. Section # d
      BY <2>3 DEF Directions
    <3> QED
      BY <2>2, <2>3, <3>1, <3>2, <3>3, <1>0, <1>1
  <2>4. CASE Section \notin {"none", d}
    <3>1. r.state = "error" => k = "sqlBadVar" /\ s.useEnvsub
      BY <2>4, <1>1, <1>2, <1>7, ScanOther
    <3> QED
      BY <2>2, <2>4, <3>1, <1>0, <1>3
  <2>5. CASE Section = d
    <3>1. k = "sqlBadVar" => k \notin {"comment", "empty"}
      OBVIOUS
    <3>2. /\ r.state = "error" => k = "sqlBadVar" /\ s.useEnvsub
          /\ k = "sqlBadVar" /\ s.useEnvsub /\ r.state # "error" => s.state = OwnEnd[d]
      <4>1. s.state \in Own(d)
        BY <2>5, <1>2
      <4>2. Ignored(s, k) => r = s
        BY <4>1, <1>8, <1>7, OwnFacts
      <4>5. ~Ignored(s, k) /\ s.state = OwnEnd[d] => r.state # "error"
        BY <1>8, <1>7, ScanSwallows
      <4>6. ~Ignored(s, k) /\ s.state # OwnEnd[d] /\ Refused(s, k) => r.state = "error"
        BY <4>1, <1>8, <1>7, OwnFacts, FailFacts
      <4>7. ~Ignored(s, k) /\ s.state # OwnEnd[d] /\ ~Refused(s, k) /\ Terminates(s, k) =>
                r.state # "error"
        BY <4>1, <1>8, <1>7, ScanStores
      <4>8. ~Ignored(s, k) /\ s.state # OwnEnd[d] /\ ~Refused(s, k) /\ ~Terminates(s, k) =>
                r.state = s.state
        BY <4>1, <1>8, <1>7, ScanBuffers
      <4>3. k = "sqlBadVar" => ~Ignored(s, k)
        BY <3>1 DEF Ignored
      <4> QED
        BY <4>2, <4>3, <4>5, <4>6, <4>7, <4>8, <1>1 DEF Refused
    <3>3. Section # "none"
      BY <2>5 DEF Directions
    <3> QED
      BY <2>2, <3>2, <3>3, <1>0, <1>3
  <2> QED
    BY <2>3, <2>4, <2>5
<1> QED
  BY <1>1, <1>5, <1>6, <1>7

\* The parsers stay where the file is.
LEMMA PlacedStep ==
    ASSUME NEW k, NEW n, Reads(k, n), NEW d \in Directions, Placed(d), BufferFits(d),
           parser'[d].state # "error"
    PROVE  Placed(d)'
<1>1. PICK s, r : s = parser[d] /\ r = parser'[d]
  OBVIOUS
<1>2. s \in Parser /\ s.state # "error" /\ r = Scan(s, d, lines') /\ r.state # "error"
      /\ k = Last(lines') /\ Len(lines') \in Nat /\ k \in Annotations \cup TextKinds
  BY <1>1, ReadsFacts
<1>3. Advances(s, r, k)
  <2>1. Last(lines') \in Annotations \cup TextKinds
    BY <1>2
  <2> QED
    BY <2>1, <1>2, ScanFacts
<1>4. /\ Section' = (IF k = "Down" THEN "down"
                     ELSE IF k = "Up" /\ Section = "none" THEN "up" ELSE Section)
      /\ Inside' <=> k = "StatementBegin" \/ (k # "StatementEnd" /\ Inside)
      /\ Substituting' <=> k = "EnvsubOn" \/ (k # "EnvsubOff" /\ Substituting)
      /\ Section \in {"none", "up", "down"}
  BY LongerHere DEF Reads
<1>5. ~Mistake(d, k)
  BY <1>1, <1>2, Refusals
<1>6. /\ k = "Up" => Section = "none"
      /\ k = "Down" => Section = "up" /\ ~Inside
      /\ k = "StatementBegin" => Section # "none" /\ ~Inside
      /\ k = "StatementEnd" => Inside
  BY <1>5 DEF Mistake
<1>7. /\ Place(s.state) = PlaceOf(Section, Inside) /\ s.useEnvsub = Substituting
      /\ Section = "none" => ~Inside
      /\ Substituting \in BOOLEAN /\ Substituting' \in BOOLEAN
  BY <1>1 DEF Placed, Substituting, Switched
<1>8. PlaceOf(Section', Inside') = Moved(PlaceOf(Section, Inside), k)
  <2>1. CASE k = "Up"
    BY <2>1, <1>4, <1>6, <1>7 DEF PlaceOf, Moved
  <2>2. CASE k = "Down"
    BY <2>2, <1>4, <1>6, <1>7 DEF PlaceOf, Moved
  <2>3. CASE k = "StatementBegin"
    BY <2>3, <1>4, <1>6, <1>7 DEF PlaceOf, Moved
  <2>4. CASE k = "StatementEnd"
    BY <2>4, <1>4, <1>6, <1>7 DEF PlaceOf, Moved
  <2>5. CASE k \notin {"Up", "Down", "StatementBegin", "StatementEnd"}
    <3>1. Section' = Section /\ (Inside' <=> Inside)
      BY <2>5, <1>4
    <3>2. Moved(PlaceOf(Section, Inside), k) = PlaceOf(Section, Inside)
      BY <2>5 DEF Moved
    <3> QED
      BY <3>1, <3>2, <1>4 DEF PlaceOf
  <2> QED
    BY <2>1, <2>2, <2>3, <2>4, <2>5
<1>9. Place(r.state) = PlaceOf(Section', Inside')
  BY <1>3, <1>7, <1>8 DEF Advances
<1>10. r.useEnvsub = Substituting'
  <2>1. r.useEnvsub = (IF k \in {"EnvsubOn", "EnvsubOff"} THEN k = "EnvsubOn" ELSE Substituting)
    BY <1>3, <1>7 DEF Advances
  <2> QED
    BY <2>1, <1>4, <1>7
<1>11. Section' = "none" => ~Inside'
  BY <1>4, <1>6, <1>7
<1> QED
  BY <1>1, <1>9, <1>10, <1>11 DEF Placed

\* The ways in which the parser of direction d takes the n-th line of kind k.
\* It leaves the line alone.
Keeps(d, k, n) ==
    /\ parser'[d].stmts = parser[d].stmts /\ parser'[d].buf = parser[d].buf
    /\ ~Ending(d, k, n)
    /\ k \in TextKinds /\ Section = d => parser[d].buf = {} /\ k \in {"comment", "empty"}
    /\ k = "Down" => cleanupStatement(lines, parser[d].buf) = {}
    /\ parser'[d].state = OwnEnd[d] => parser[d].state = OwnEnd[d]

\* It drops the line with the rest of the buffer.
Drops(d, k) ==
    /\ Section # d /\ k \in TextKinds \cup {"StatementEnd"}
    /\ parser'[d].stmts = parser[d].stmts /\ parser'[d].buf = {}
    /\ parser'[d].state # OwnEnd[d]

\* It comes to the end of a block and has nothing to store.
Misses(d, k) ==
    /\ k = "StatementEnd" /\ Section = d
    /\ parser'[d].stmts = parser[d].stmts
    /\ parser[d].buf = {} /\ parser'[d].buf = {}

\* It stores a statement.
Stores(d, k, n) ==
    /\ Ending(d, k, n)
    /\ parser'[d].state # OwnEnd[d] /\ parser'[d].buf = {}
    /\ parser'[d].stmts = Append(parser[d].stmts,
                                 cleanupStatement(lines', parser[d].buf \cup Added(d, k, n)))

\* It swallows the line behind an empty block.
Swallowed(d, k) ==
    /\ Section = d /\ k \in TextKinds
    /\ parser[d].state = OwnEnd[d] /\ parser'[d].state # OwnEnd[d]
    /\ parser[d].buf = {} /\ parser'[d].buf = {}
    /\ parser'[d].stmts = Append(parser[d].stmts, {})

\* It buffers the line.
Collects(d, k, n) ==
    /\ Section = d /\ k \in TextKinds /\ ~Ending(d, k, n)
    /\ ~(parser[d].buf = {} /\ k \in {"comment", "empty"})
    /\ parser'[d].stmts = parser[d].stmts /\ parser'[d].buf = parser[d].buf \cup {n}
    /\ parser'[d].state # OwnEnd[d]

\* A parser that does not fail does one of these.
LEMMA Outcomes ==
    ASSUME NEW k, NEW n, Reads(k, n), NEW d \in Directions, Placed(d), BufferFits(d),
           parser'[d].state # "error"
    PROVE  \/ Keeps(d, k, n) \/ Drops(d, k) \/ Misses(d, k) \/ Stores(d, k, n)
           \/ Swallowed(d, k) \/ Collects(d, k, n)
<1>1. PICK s, r : s = parser[d] /\ r = parser'[d]
  OBVIOUS
<1>2. s \in Parser /\ r = Scan(s, d, lines') /\ k = Last(lines') /\ Len(lines') \in Nat
  BY <1>1, ReadsFacts
<1>3. /\ s.state # "error" /\ k \in Annotations \cup TextKinds /\ Len(lines') = n
      /\ Section = "none" => s.buf = {}
      /\ cleanupStatement(lines', s.buf) = cleanupStatement(lines, s.buf)
      /\ s.state = OwnEnd[d] => s.buf = {}
  BY <1>1, ReadsFacts DEF BufferFits
<1>4. /\ Section \in {"none", "up", "down"}
      /\ Section = "none" <=> s.state = "start"
      /\ Section = d <=> s.state \in Own(d)
      /\ Section \notin {"none", d} <=> s.state \in Other(d)
      /\ Inside <=> s.state \in InBlock
  BY <1>1, StateAt DEF Reads
<1>5. ~Mistake(d, k) /\ r.state # "error"
  BY <1>1, Refusals
<1>6. /\ s.useEnvsub = Substituting /\ Section = SectionOf(n) /\ (Inside <=> BlockAt(n))
      /\ Substituting <=> Switched(n, "EnvsubOn", "EnvsubOff")
  BY <1>1, LongerHere DEF Placed, Reads
<1>7. Ending(d, k, n) <=> /\ Section = d
                          /\ \/ k = "StatementEnd"
                             \/ ~Inside /\ endsWithSemicolon(k, s.useEnvsub)
  BY <1>6 DEF Ending, endsWithSemicolon
<1>8. CASE k \in Annotations \ {"StatementEnd"}
  <2>1. /\ r.buf = s.buf /\ r.stmts = s.stmts /\ (r.state = s.state \/ ~AtEnd(r))
        /\ k = "Down" => cleanupStatement(lines', s.buf) = {}
    <3>1. s.state # "error"
      BY <1>3
    <3> QED
      BY <3>1, <1>2, <1>5, <1>8, ScanAnnotation
  <2>2. k \notin TextKinds /\ k # "StatementEnd" /\ ~endsWithSemicolon(k, s.useEnvsub)
    BY <1>8 DEF Annotations, TextKinds, SQLKinds, endsWithSemicolon
  <2>3. r.state = OwnEnd[d] => AtEnd(r)
    BY DEF OwnEnd, AtEnd, Directions
  <2> QED
    BY <2>1, <2>2, <2>3, <1>1, <1>3, <1>7 DEF Keeps
<1>9. CASE k = "StatementEnd"
  <2>1. Inside /\ s.state \in InBlock
    BY <1>4, <1>5, <1>9 DEF Mistake
  <2>2. Last(lines') = "StatementEnd"
    BY <1>2, <1>9
  <2>3. \A x \in Other(d) : x # OwnEnd[d]
    BY DEF Other, OwnEnd, InUp, InDown, Directions
  <2>4. s.state \in Own(d) \/ s.state \in Other(d)
    BY <2>1 DEF InBlock, Own, Other, InUp, InDown
  <2>5. CASE s.state \in Other(d)
    <3>1. r.state \in Other(d) /\ r.buf = {} /\ r.stmts = s.stmts
      BY <2>1, <2>2, <2>5, <1>2, ScanBlockEnd
    <3> QED
      BY <3>1, <2>3, <2>5, <1>1, <1>4, <1>9 DEF Drops
  <2>6. CASE s.state \in Own(d) /\ s.buf = {}
    <3>1. r.buf = {} /\ r.stmts = s.stmts
      BY <2>1, <2>2, <2>6, <1>2, ScanBlockEnd
    <3> QED
      BY <3>1, <2>6, <1>1, <1>4, <1>9 DEF Misses
  <2>7. CASE s.state \in Own(d) /\ s.buf # {}
    <3>1. /\ r.state # OwnEnd[d] /\ r.buf = {}
          /\ r.stmts = Append(s.stmts, cleanupStatement(lines', s.buf))
      BY <2>1, <2>2, <2>7, <1>2, ScanBlockEnd
    <3>2. Added(d, k, n) = {}
      BY <1>9 DEF Added, TextKinds, SQLKinds
    <3>3. s.buf \cup Added(d, k, n) = s.buf
      BY <3>2
    <3> QED
      BY <3>1, <3>3, <2>7, <1>1, <1>4, <1>7, <1>9 DEF Stores
  <2> QED
    BY <2>4, <2>5, <2>6, <2>7
<1>10. CASE k \in TextKinds
  <2>1. k \notin Annotations /\ k # "StatementEnd" /\ k # "Down"
    BY <1>10 DEF TextKinds, SQLKinds, Annotations
  <2>2. CASE Section = "none"
    <3>1. k \notin SQLKinds
      BY <2>2, <1>5 DEF Mistake
    <3>2. s.state = "start" /\ s.buf = {}
      BY <2>2, <1>3, <1>4
    <3>3. r = s
      BY <3>1, <3>2, <1>2, <1>10, ScanStart
    <3>4. Section # d
      BY <2>2 DEF Directions
    <3> QED
      BY <3>3, <3>4, <2>1, <1>1, <1>7 DEF Keeps
  <2>3. CASE Section \notin {"none", d}
    <3>1. s.state \in Other(d)
      BY <2>3, <1>4
    <3>2. r.state = s.state /\ r.stmts = s.stmts /\ r.buf \in {{}, s.buf}
      BY <3>1, <1>2, <1>5, <1>10, ScanOther
    <3>3. s.state # OwnEnd[d]
      BY <3>1 DEF Other, OwnEnd, InUp, InDown, Directions
    <3>4. CASE r.buf = {}
      BY <3>2, <3>3, <3>4, <2>3, <1>1, <1>10 DEF Drops
    <3>5. CASE r.buf = s.buf
      BY <3>2, <3>3, <3>5, <2>1, <2>3, <1>1, <1>7 DEF Keeps
    <3> QED
      BY <3>2, <3>4, <3>5
  <2>4. CASE Section = d
    <3>1. s.state \in Own(d)
      BY <2>4, <1>4
    <3>2. /\ Ending(d, k, n) <=> Terminates(s, k)
          /\ Added(d, k, n) = {n}
      BY <2>1, <2>4, <1>4, <1>6, <1>7, <1>10 DEF Terminates, Added
    <3>3. Ignored(s, k) => ~Terminates(s, k)
      BY DEF Ignored, Terminates, endsWithSemicolon
    <3>4. CASE Ignored(s, k)
      <4>1. r = s
        BY <3>1, <3>4, <1>2, <1>10, OwnFacts
      <4> QED
        BY <4>1, <3>2, <3>3, <3>4, <2>1, <1>1 DEF Keeps, Ignored
    <3>5. CASE ~Ignored(s, k) /\ s.state = OwnEnd[d]
      <4>1. /\ r.state # OwnEnd[d] /\ r.buf = {}
            /\ r.stmts = Append(s.stmts, cleanupStatement(lines', s.buf))
        BY <3>5, <1>2, <1>10, ScanSwallows
      <4>2. s.buf = {} /\ cleanupStatement(lines', {}) = {}
        BY <3>5, <1>3 DEF cleanupStatement
      <4> QED
        BY <4>1, <4>2, <3>5, <2>4, <1>1, <1>10 DEF Swallowed
    <3>6. CASE ~Ignored(s, k) /\ s.state # OwnEnd[d]
      <4>1. ~Refused(s, k)
        BY <3>1, <3>6, <1>2, <1>5, <1>10, OwnFacts, FailFacts
      <4>2. CASE Terminates(s, k)
        <5>1. /\ r.state # OwnEnd[d] /\ r.buf = {}
              /\ r.stmts = Append(s.stmts, cleanupStatement(lines', s.buf \cup {Len(lines')}))
          <6>1. PICK b : b = s.buf \cup {Len(lines')}
            OBVIOUS
          <6>2. s.state # OwnEnd[d] /\ ~Ignored(s, k)
            BY <3>6
          <6>3. /\ r.state # OwnEnd[d] /\ r.buf = {}
                /\ r.stmts = Append(s.stmts, cleanupStatement(lines', b))
            <7>1. r.buf = {}
              BY <6>1, <6>2, <3>1, <4>1, <4>2, <1>2, <1>10, ScanStores
            <7>2. r.state # OwnEnd[d]
              BY <6>1, <6>2, <3>1, <4>1, <4>2, <1>2, <1>10, ScanStores
            <7>3. r.stmts = Append(s.stmts, cleanupStatement(lines', b))
              <8>1. r = Store(Buffers(s, Len(lines')), lines')
                BY <6>2, <3>1, <4>1, <4>2, <1>2, <1>10, OwnFacts
              <8>2. PICK x : x = Buffers(s, Len(lines'))
                OBVIOUS
              <8>3. x \in Parser /\ x.buf = b /\ x.stmts = s.stmts
                BY <8>2, <6>1, <1>2 DEF Buffers, Parser
              <8>4. Store(x, lines').stmts = Append(x.stmts, cleanupStatement(lines', x.buf))
                BY <8>3 DEF Store, Parser
              <8> QED
                BY <8>1, <8>2, <8>3, <8>4
            <7> QED
              BY <7>1, <7>2, <7>3
          <6> QED
            BY <6>1, <6>3
        <5> QED
          BY <5>1, <4>2, <3>2, <1>1, <1>3 DEF Stores
      <4>3. CASE ~Terminates(s, k)
        <5>1. r.state = s.state /\ r.buf = s.buf \cup {Len(lines')} /\ r.stmts = s.stmts
          BY <3>1, <3>6, <4>1, <4>3, <1>2, <1>10, ScanBuffers
        <5> QED
          BY <5>1, <4>3, <3>2, <3>6, <2>4, <1>1, <1>3, <1>10 DEF Collects, Ignored
      <4> QED
        BY <4>2, <4>3
    <3> QED
      BY <3>4, <3>5, <3>6
  <2> QED
    BY <2>2, <2>3, <2>4
<1> QED
  BY <1>3, <1>8, <1>9, <1>10

-----------------------------------------------------------------------------
(* One line keeps the invariant *)

\* What is buffered is still open text, and behind the section white space.
LEMMA BufferFitsStep ==
    ASSUME NEW k, NEW n, Reads(k, n), NEW d \in Directions, Placed(d), BufferFits(d),
           parser'[d].state # "error"
    PROVE  BufferFits(d)'
<1>1. PICK s, r : s = parser[d] /\ r = parser'[d]
  OBVIOUS
<1>2. /\ s.buf \subseteq Open(d) /\ s.buf \in SUBSET Lines
      /\ Section # d => cleanupStatement(lines, s.buf) = {}
      /\ s.state = OwnEnd[d] => s.buf = {}
      /\ cleanupStatement(lines', s.buf) = cleanupStatement(lines, s.buf)
  BY <1>1, ReadsFacts DEF BufferFits
<1>3. \A ls : cleanupStatement(ls, {}) = {}
  BY DEF cleanupStatement
<1>4. Open(d)' = IF Ending(d, k, n) THEN {} ELSE Open(d) \cup Added(d, k, n)
  BY LongerEnds DEF Reads
<1>5. /\ k # "Down" /\ Section = d => Section' = d
      /\ Section = SectionOf(n)
  BY LongerHere DEF Reads, Directions
<1>6. SUFFICES /\ r.buf \subseteq Open(d)'
               /\ Section' # d => cleanupStatement(lines', r.buf) = {}
               /\ r.state = OwnEnd[d] => r.buf = {}
  BY <1>1 DEF BufferFits
<1>7. CASE r.buf = {}
  BY <1>3, <1>7
<1>8. CASE Keeps(d, k, n)
  <2>1. r.buf = s.buf /\ ~Ending(d, k, n) /\ (r.state = OwnEnd[d] => s.state = OwnEnd[d])
        /\ (k = "Down" => cleanupStatement(lines, s.buf) = {})
    BY <1>1, <1>8 DEF Keeps
  <2>2. Section' # d => cleanupStatement(lines', r.buf) = {}
    BY <2>1, <1>2, <1>5
  <2> QED
    BY <2>1, <2>2, <1>2, <1>4
<1>9. CASE Collects(d, k, n)
  <2>1. /\ r.buf = s.buf \cup {n} /\ ~Ending(d, k, n) /\ r.state # OwnEnd[d]
        /\ Section = d /\ k \in TextKinds
    BY <1>1, <1>9 DEF Collects
  <2>2. Added(d, k, n) = {n}
    BY <2>1, <1>5 DEF Added
  <2>3. k # "Down"
    BY <2>1 DEF TextKinds, SQLKinds
  <2> QED
    BY <2>1, <2>2, <2>3, <1>2, <1>4, <1>5
<1>10. \/ r.buf = {} \/ Keeps(d, k, n) \/ Collects(d, k, n)
  BY <1>1, Outcomes DEF Drops, Misses, Stores, Swallowed
<1> QED
  BY <1>7, <1>8, <1>9, <1>10

\* What is stored is text that this line closes.
LEMMA StoredFacts ==
    ASSUME NEW k, NEW n, Reads(k, n), NEW d \in Directions, BufferFits(d), Ending(d, k, n)
    PROVE  LET b == parser[d].buf \cup Added(d, k, n)
               c == cleanupStatement(lines', b)
           IN  /\ b \in SUBSET Nat /\ c \subseteq b
               /\ b \subseteq Open(d) \cup Added(d, k, n)
               /\ \A i \in b : /\ i \in Where(TextKinds)' /\ SectionOf(i)' = d /\ i <= n
                               /\ \A e \in Ends(d) : e < i
               /\ c \cap Where(SQLKinds)' = b \cap Where(SQLKinds)'
<1> DEFINE b == parser[d].buf \cup Added(d, k, n)
           c == cleanupStatement(lines', b)
<1>1. Longer(k, n)
  BY DEF Reads
<1>2. /\ n \in Nat /\ lines'[n] = k /\ Lines' = Lines \cup {n}
      /\ \A i \in Lines : i \in Nat /\ i < n /\ i \in 1..n /\ lines'[i] = lines[i]
  BY <1>1, LongerLines
<1>3. \A i \in 1..n : SectionOf(i)' = SectionOf(i)
  BY <1>1, LongerSection
<1>4. /\ Open(d) \subseteq Lines /\ \A e \in Ends(d) : e < n
  BY <1>1, LongerEnds
<1>5. parser[d].buf \subseteq Open(d)
  BY DEF BufferFits
<1>6. \A i \in Added(d, k, n) : i = n /\ k \in TextKinds /\ SectionOf(n) = d
  BY DEF Added
<1>7. b \subseteq Open(d) \cup Added(d, k, n) /\ b \in SUBSET Nat
  BY <1>2, <1>4, <1>5, <1>6
<1>8. ASSUME NEW i \in b
      PROVE  /\ i \in Where(TextKinds)' /\ SectionOf(i)' = d /\ i <= n
             /\ \A e \in Ends(d) : e < i
  <2>1. CASE i \in Open(d)
    <3>1. i \in Where(TextKinds) /\ SectionOf(i) = d /\ \A e \in Ends(d) : e < i
      BY <2>1 DEF Open
    <3>2. i \in Where(TextKinds)'
      BY <3>1, <1>1, LongerWhere
    <3> QED
      BY <2>1, <3>1, <3>2, <1>2, <1>3, <1>4
  <2>2. CASE i \in Added(d, k, n)
    <3>1. i = n /\ k \in TextKinds /\ SectionOf(n) = d
      BY <2>2, <1>6
    <3>2. n \in Where(TextKinds)' /\ n \in 1..n
      BY <3>1, <1>1, LongerWhere, LongerLines
    <3> QED
      BY <3>1, <3>2, <1>2, <1>3, <1>4
  <2> QED
    BY <2>1, <2>2, <1>7
<1> HIDE DEF b
<1>9. c \subseteq b /\ \A i \in b : lines'[i] \notin {"empty", "blank"} => i \in c
  BY <1>7, CleanupFacts
<1>10. \A i \in Where(SQLKinds)' : lines'[i] \notin {"empty", "blank"}
  BY DEF Where, SQLKinds
<1> QED
  BY <1>7, <1>8, <1>9, <1>10 DEF b

\* The statements new are the statements old and c.
More(d, k, n, old, new, c) ==
    /\ c \in SUBSET Nat /\ new = Append(old, c)
    /\ DOMAIN new = 1..(Len(old) + 1) /\ new[Len(old) + 1] = c
    /\ \A m \in 1..Len(old) : new[m] = old[m]
    /\ \/ c = {}
       \/ /\ Ending(d, k, n)
          /\ c = cleanupStatement(lines', parser[d].buf \cup Added(d, k, n))

\* The statements of the parser, one more or the same.
LEMMA MoreStatements ==
    ASSUME NEW k, NEW n, Reads(k, n), NEW d \in Directions, Placed(d), BufferFits(d),
           parser'[d].state # "error",
           NEW old, NEW new, old = parser[d].stmts, new = parser'[d].stmts
    PROVE  /\ old \in Seq(SUBSET Nat) /\ DOMAIN old = 1..Len(old) /\ Len(old) \in Nat
           /\ new = old \/ \E c : More(d, k, n, old, new, c)
<1>1. old \in Seq(SUBSET Nat) /\ DOMAIN old = 1..Len(old) /\ Len(old) \in Nat
  <2>1. parser[d] \in Parser
    BY ReadsFacts
  <2>2. old \in Seq(SUBSET Nat)
    BY <2>1 DEF Parser
  <2> QED
    BY <2>2, LenProperties
<1>2. ASSUME NEW c \in SUBSET Nat, new = Append(old, c)
      PROVE  /\ DOMAIN new = 1..(Len(old) + 1) /\ new[Len(old) + 1] = c
             /\ \A m \in 1..Len(old) : new[m] = old[m]
  BY <1>1, <1>2, AppendProperties, LenProperties
<1>3. CASE Stores(d, k, n)
  <2> DEFINE c == cleanupStatement(lines', parser[d].buf \cup Added(d, k, n))
  <2>1. Ending(d, k, n) /\ new = Append(old, c)
    BY <1>3 DEF Stores
  <2>2. c \in SUBSET Nat
    BY <2>1, StoredFacts
  <2> HIDE DEF c
  <2> QED
    BY <2>1, <2>2, <1>1, <1>2 DEF More, c
<1>4. CASE Swallowed(d, k)
  <2>1. new = Append(old, {}) /\ {} \in SUBSET Nat
    BY <1>4 DEF Swallowed
  <2> QED
    BY <2>1, <1>1, <1>2 DEF More
<1>5. new = old \/ Stores(d, k, n) \/ Swallowed(d, k)
  BY Outcomes DEF Keeps, Drops, Misses, Collects
<1> QED
  BY <1>1, <1>3, <1>4, <1>5

\* A statement that is stored comes behind the others.
LEMMA StatementsFitStep ==
    ASSUME NEW k, NEW n, Reads(k, n), NEW d \in Directions, Placed(d), BufferFits(d),
           StatementsFit(d), parser'[d].state # "error"
    PROVE  StatementsFit(d)'
<1>1. PICK old, new : old = parser[d].stmts /\ new = parser'[d].stmts
  OBVIOUS
<1> DEFINE Fits(i) == /\ i \in Where(TextKinds)' /\ SectionOf(i)' = d
                      /\ \E e \in Ends(d)' : i <= e
<1>2. /\ \A m \in DOMAIN old : \A i \in old[m] : Fits(i) /\ \E e \in Ends(d) : i <= e
      /\ \A m \in DOMAIN old : \A i \in old[m] : i \in Nat
      /\ \A l, m \in DOMAIN old : l < m => \A i \in old[l], j \in old[m] : i < j
  <2>1. /\ \A m \in DOMAIN old : \A i \in old[m] :
               i \in Where(TextKinds) /\ SectionOf(i) = d /\ \E e \in Ends(d) : i <= e
        /\ \A l, m \in DOMAIN old : l < m => \A i \in old[l], j \in old[m] : i < j
    BY <1>1 DEF StatementsFit
  <2>2. Longer(k, n)
    BY DEF Reads
  <2>3. /\ Where(TextKinds) \subseteq Where(TextKinds)' /\ Where(TextKinds) \subseteq Lines
        /\ \A i \in Lines : SectionOf(i)' = SectionOf(i) /\ i \in Nat
        /\ Ends(d) \subseteq Ends(d)'
    BY <2>2, LongerWhere, LongerSection, LongerEnds, LongerLines
  <2> QED
    BY <2>1, <2>3
<1> HIDE DEF Fits
<1>3. SUFFICES /\ \A m \in DOMAIN new : \A i \in new[m] : Fits(i)
               /\ \A l, m \in DOMAIN new : l < m => \A i \in new[l], j \in new[m] : i < j
  BY <1>1 DEF StatementsFit, Fits
<1>4. CASE new = old
  BY <1>2, <1>4
<1>5. CASE new # old
  <2>1. PICK c : /\ c \in SUBSET Nat /\ new = Append(old, c)
                 /\ DOMAIN new = 1..(Len(old) + 1) /\ new[Len(old) + 1] = c
                 /\ \A m \in 1..Len(old) : new[m] = old[m]
                 /\ \/ c = {}
                    \/ /\ Ending(d, k, n)
                       /\ c = cleanupStatement(lines', parser[d].buf \cup Added(d, k, n))
    <3>1. new = old \/ \E c : More(d, k, n, old, new, c)
      BY <1>1, MoreStatements
    <3> QED
      BY <3>1, <1>5 DEF More
  <2>2. DOMAIN old = 1..Len(old) /\ Len(old) \in Nat
    BY <1>1, MoreStatements
  <2>3. \A i \in c : Fits(i) /\ \A e \in Ends(d) : e < i
    <3> SUFFICES ASSUME NEW i \in c PROVE Fits(i) /\ \A e \in Ends(d) : e < i
      OBVIOUS
    <3>1. Ending(d, k, n) /\ i \in parser[d].buf \cup Added(d, k, n)
      BY <2>1, StoredFacts
    <3>2. /\ i \in Where(TextKinds)' /\ SectionOf(i)' = d /\ i <= n
          /\ \A e \in Ends(d) : e < i
      BY <3>1, StoredFacts
    <3>3. n \in Ends(d)'
      BY <3>1, LongerEnds DEF Reads
    <3> QED
      BY <3>2, <3>3 DEF Fits
  <2>4. \A e \in Ends(d) : e \in Nat
    BY LongerEnds DEF Reads
  <2>5. \A m \in DOMAIN new : m \in 1..Len(old) \/ m = Len(old) + 1
    BY <2>1, <2>2
  <2>6. \A m \in DOMAIN new : \A i \in new[m] : Fits(i)
    BY <2>1, <2>2, <2>3, <2>5, <1>2
  <2>7. ASSUME NEW l \in DOMAIN new, NEW m \in DOMAIN new, l < m,
               NEW i \in new[l], NEW j \in new[m]
        PROVE  i < j
    <3>1. l \in 1..Len(old) /\ i \in old[l] /\ l \in DOMAIN old
      BY <2>1, <2>2, <2>5, <2>7
    <3>2. CASE m \in 1..Len(old)
      BY <3>1, <3>2, <2>1, <2>2, <2>7, <1>2
    <3>3. CASE m = Len(old) + 1
      <4>1. PICK e \in Ends(d) : i <= e
        BY <3>1, <1>2
      <4>2. j \in Nat /\ i \in Nat /\ e \in Nat /\ e < j
        BY <3>1, <3>3, <2>1, <2>3, <2>4, <1>2
      <4> QED
        BY <4>1, <4>2
    <3> QED
      BY <3>2, <3>3, <2>5
  <2> QED
    BY <2>6, <2>7
<1> QED
  BY <1>4, <1>5

\* An excuse stays one, and reaches on over lines without SQL.
LEMMA LongerExcused ==
    ASSUME NEW k, NEW n, Longer(k, n)
    PROVE  /\ \A i \in 1..n : Excused(i) => Excused(i)'
           /\ Excused(n) /\ k \notin SQLKinds => Excused(n + 1)'
           /\ \A i \in 1..n : Excused(i) => \E e \in EmptyBlocks : e < i
<1> DEFINE B == Where({"StatementEnd"})
           S == Where(SQLKinds)
           E == EmptyBlocks
<1>1. /\ B \subseteq B' /\ \A t \in B : t \in Nat /\ t < n
  BY LongerWhere
<1>2. /\ S' \subseteq S \cup {n} /\ (n \in S' <=> k \in SQLKinds)
      /\ \A t \in S : t \in Nat /\ t < n
  BY LongerWhere
<1>3. E \subseteq E' /\ \A e \in E : e \in Nat
  BY LongerBlocks, LongerLines
<1>4. n \in Nat
  BY LongerLines
<1>5. \A i : /\ Excused(i) <=> \E t \in B : /\ t < i
                                            /\ \A j \in S : ~(t < j /\ j < i)
                                            /\ \E e \in E : e <= t
             /\ Excused(i)' <=> \E t \in B' : /\ t < i
                                              /\ \A j \in S' : ~(t < j /\ j < i)
                                              /\ \E e \in E' : e <= t
  BY DEF Excused
<1> HIDE DEF B, S, E
<1>6. ASSUME NEW i \in 1..n, Excused(i)
      PROVE  Excused(i)' /\ (\E e \in E : e < i) /\ (i = n /\ k \notin SQLKinds => Excused(n + 1)')
  <2>1. PICK t \in B : /\ t < i
                       /\ \A j \in S : ~(t < j /\ j < i)
                       /\ \E e \in E : e <= t
    BY <1>5, <1>6
  <2>2. \A j \in S' : ~(t < j /\ j < i)
    BY <2>1, <1>2, <1>4
  <2>3. \E e \in E : e < i
    BY <2>1, <1>1, <1>3
  <2>4. i = n /\ k \notin SQLKinds => t < n + 1 /\ \A j \in S' : ~(t < j /\ j < n + 1)
    BY <2>1, <1>1, <1>2, <1>4
  <2> QED
    BY <2>1, <2>2, <2>3, <2>4, <1>1, <1>3, <1>5
<1>7. n \in 1..n
  BY LongerLines
<1> QED
  BY <1>6, <1>7 DEF E

\* A line of SQL that is swallowed is excused, and one in the buffer is stored.
LEMMA AccountedStep ==
    ASSUME NEW k, NEW n, Reads(k, n), NEW d \in Directions, Placed(d), BufferFits(d),
           StatementsFit(d), Accounted(d), Swallows(d), parser'[d].state # "error"
    PROVE  Accounted(d)'
<1>1. PICK s, r : s = parser[d] /\ r = parser'[d]
  OBVIOUS
<1>2. Longer(k, n) /\ n = Len(lines) + 1
  BY DEF Reads, Longer
<1> DEFINE Told(i) == i \in r.buf \/ (\E m \in DOMAIN r.stmts : i \in r.stmts[m]) \/ Excused(i)'
<1>3. SUFFICES ASSUME NEW i \in Where(SQLKinds)', SectionOf(i)' = d PROVE Told(i)
  BY <1>1 DEF Accounted
<1>4. lines'[i] \in SQLKinds /\ lines'[i] \notin {"empty", "blank"}
  BY DEF Where, SQLKinds
<1>5. /\ DOMAIN s.stmts = 1..Len(s.stmts) /\ Len(s.stmts) \in Nat
      /\ \/ r.stmts = s.stmts
         \/ \E c : /\ c \in SUBSET Nat /\ r.stmts = Append(s.stmts, c)
                   /\ DOMAIN r.stmts = 1..(Len(s.stmts) + 1) /\ r.stmts[Len(s.stmts) + 1] = c
                   /\ \A m \in 1..Len(s.stmts) : r.stmts[m] = s.stmts[m]
  <2>1. PICK old, new : old = s.stmts /\ new = r.stmts
    OBVIOUS
  <2>2. old = parser[d].stmts /\ new = parser'[d].stmts
    BY <2>1, <1>1
  <2>3. /\ DOMAIN old = 1..Len(old) /\ Len(old) \in Nat
        /\ new = old \/ \E c : More(d, k, n, old, new, c)
    BY <2>2, MoreStatements
  <2> QED
    BY <2>1, <2>3 DEF More
<1>6. ASSUME Stores(d, k, n), i \in s.buf \cup Added(d, k, n) PROVE Told(i)
  <2>1. PICK c : c = cleanupStatement(lines', s.buf \cup Added(d, k, n))
    OBVIOUS
  <2>2. Ending(d, k, n) /\ r.stmts = Append(s.stmts, c)
    BY <2>1, <1>1, <1>6 DEF Stores
  <2>3. c \in SUBSET Nat /\ i \in c
    <3>1. /\ s.buf \cup Added(d, k, n) \in SUBSET Nat /\ c \subseteq s.buf \cup Added(d, k, n)
          /\ c \cap Where(SQLKinds)' = (s.buf \cup Added(d, k, n)) \cap Where(SQLKinds)'
      BY <2>1, <2>2, <1>1, StoredFacts
    <3> QED
      BY <3>1, <1>6
  <2>4. s.stmts \in Seq(SUBSET Nat)
    BY <1>1, MoreStatements
  <2>5. DOMAIN r.stmts = 1..(Len(s.stmts) + 1) /\ r.stmts[Len(s.stmts) + 1] = c
    BY <2>2, <2>3, <2>4, AppendProperties, LenProperties
  <2>6. Len(s.stmts) + 1 \in DOMAIN r.stmts
    BY <2>5, <1>5
  <2> QED
    BY <2>3, <2>5, <2>6
<1>7. CASE i \in Where(SQLKinds)
  <2>1. i \in Lines /\ i \in 1..n /\ SectionOf(i) = d /\ lines[i] \in SQLKinds
        /\ lines[i] \notin {"empty", "blank"}
    BY <1>2, <1>3, <1>4, <1>7, LongerLines, LongerWhere, LongerSection
  <2>2. i \in s.buf \/ (\E m \in DOMAIN s.stmts : i \in s.stmts[m]) \/ Excused(i)
    BY <2>1, <1>1, <1>7 DEF Accounted
  <2>3. CASE Excused(i)
    BY <2>1, <2>3, <1>2, LongerExcused
  <2>4. CASE \E m \in DOMAIN s.stmts : i \in s.stmts[m]
    <3>1. PICK m \in DOMAIN s.stmts : i \in s.stmts[m]
      BY <2>4
    <3>2. m \in DOMAIN r.stmts /\ r.stmts[m] = s.stmts[m]
      BY <1>5
    <3> QED
      BY <3>1, <3>2
  <2>5. CASE i \in s.buf
    <3>1. Section # d => ~(i \in s.buf)
      <4>1. s.buf \in SUBSET Nat /\ (Section # d => cleanupStatement(lines, s.buf) = {})
        BY <1>1, ReadsFacts DEF BufferFits
      <4> QED
        BY <4>1, <2>1, CleanupFacts
    <3>2. CASE Keeps(d, k, n) \/ Collects(d, k, n)
      BY <3>2, <2>5, <1>1 DEF Keeps, Collects
    <3>3. CASE Stores(d, k, n)
      BY <3>3, <2>5, <1>6
    <3> QED
      BY <3>1, <3>2, <3>3, <2>5, <1>1, Outcomes DEF Drops, Misses, Swallowed
  <2> QED
    BY <2>2, <2>3, <2>4, <2>5
<1>8. CASE i \notin Where(SQLKinds)
  <2>1. i = n /\ k \in SQLKinds /\ n \in 1..n
    BY <1>2, <1>8, LongerWhere, LongerLines
  <2>2. k \in TextKinds /\ k \notin {"comment", "empty", "StatementEnd"}
    BY <2>1 DEF TextKinds, SQLKinds
  <2>3. Section = d /\ SectionOf(n) = d
    BY <2>1, <1>2, <1>3, LongerHere, LongerSection
  <2>4. CASE Stores(d, k, n)
    <3>1. i \in Added(d, k, n)
      BY <2>1, <2>2, <2>3 DEF Added
    <3> QED
      BY <3>1, <2>4, <1>6
  <2>5. CASE Swallowed(d, k)
    <3>1. Excused(n)
      BY <2>5, <1>2 DEF Swallowed, Swallows
    <3> QED
      BY <3>1, <2>1, <1>2, LongerExcused
  <2>6. CASE Collects(d, k, n)
    BY <2>1, <2>6, <1>1 DEF Collects
  <2> QED
    BY <2>2, <2>3, <2>4, <2>5, <2>6, Outcomes DEF Keeps, Drops, Misses
<1> QED
  BY <1>7, <1>8

\* The line behind a block for which nothing was stored is excused: the block is
\* empty, or what it holds was excused, which an earlier empty block did.
LEMMA SwallowsStep ==
    ASSUME NEW k, NEW n, Reads(k, n), NEW d \in Directions, Placed(d), BufferFits(d),
           StatementsFit(d), Accounted(d), Swallows(d), parser'[d].state # "error"
    PROVE  Swallows(d)'
<1>1. Longer(k, n) /\ n = Len(lines) + 1 /\ n \in Nat /\ n + 1 = Len(lines') + 1 /\ n \in 1..n
  BY LongerLines DEF Reads, Longer
<1>2. SUFFICES ASSUME parser'[d].state = OwnEnd[d] PROVE Excused(n + 1)'
  BY <1>1 DEF Swallows, Excused
<1>3. CASE Keeps(d, k, n)
  <2>1. parser[d].state = OwnEnd[d]
    BY <1>2, <1>3 DEF Keeps
  <2>2. Section = d
    BY <2>1, StateAt DEF Reads
  <2>3. k \notin SQLKinds
    BY <2>2, <1>3 DEF Keeps, SQLKinds, TextKinds
  <2>4. Excused(n)
    BY <2>1, <1>1 DEF Swallows
  <2> QED
    BY <2>3, <2>4, <1>1, LongerExcused
<1>4. CASE Misses(d, k)
  <2>1. k = "StatementEnd" /\ Section = d /\ SectionOf(n) = d /\ parser[d].buf = {}
    BY <1>1, <1>4, LongerHere DEF Misses
  <2>2. n \in Where({"StatementEnd"})'
    BY <2>1, <1>1, LongerWhere
  <2>3. \A j \in Where(SQLKinds)' : ~(n < j /\ j < n + 1)
    <3>1. /\ Where(SQLKinds)' \subseteq Where(SQLKinds) \cup {n}
          /\ \A j \in Where(SQLKinds) : j \in Nat
      BY <1>1, LongerWhere
    <3> QED
      BY <3>1, <1>1
  <2>4. \E e \in EmptyBlocks' : e <= n
    <3>1. CASE SQLOf(Open(d)) = {}
      <4>1. n \in EmptyBlocks'
        BY <3>1, <2>1, <1>1, LongerBlocks
      <4> QED
        BY <4>1, <1>1
    <3>2. CASE SQLOf(Open(d)) # {}
      <4>1. PICK i \in Open(d) : i \in Where(SQLKinds)
        BY <3>2 DEF SQLOf
      <4>2. SectionOf(i) = d /\ i \in Nat /\ i < n /\ i \in 1..n /\ \A e \in Ends(d) : e < i
        BY <4>1, <1>1, LongerLines DEF Open, Where, Lines
      <4>3. ~ \E m \in DOMAIN parser[d].stmts : i \in parser[d].stmts[m]
        <5> SUFFICES ASSUME NEW m \in DOMAIN parser[d].stmts, i \in parser[d].stmts[m]
                     PROVE  FALSE
          OBVIOUS
        <5>1. PICK e \in Ends(d) : i <= e
          BY DEF StatementsFit
        <5>2. e \in Nat
          BY <1>1, LongerEnds
        <5> QED
          BY <5>1, <5>2, <4>2
      <4>4. Excused(i)
        BY <4>1, <4>2, <4>3, <2>1 DEF Accounted
      <4>5. PICK e \in EmptyBlocks : e < i
        BY <4>2, <4>4, <1>1, LongerExcused
      <4>6. e \in EmptyBlocks' /\ e \in Nat
        BY <1>1, LongerBlocks, LongerLines
      <4> QED
        BY <4>2, <4>5, <4>6, <1>1
    <3> QED
      BY <3>1, <3>2
  <2>5. n < n + 1
    BY <1>1
  <2> QED
    BY <2>2, <2>3, <2>4, <2>5 DEF Excused
<1>5. Keeps(d, k, n) \/ Misses(d, k)
  <2>1. \/ Keeps(d, k, n) \/ Drops(d, k) \/ Misses(d, k) \/ Stores(d, k, n)
        \/ Swallowed(d, k) \/ Collects(d, k, n)
    BY Outcomes
  <2>2. ~Drops(d, k) /\ ~Stores(d, k, n) /\ ~Swallowed(d, k) /\ ~Collects(d, k, n)
    BY <1>2 DEF Drops, Stores, Swallowed, Collects
  <2> QED
    BY <2>1, <2>2
<1> QED
  BY <1>3, <1>4, <1>5

\* An excuse is due to an empty block.
LEMMA NoSwallow ==
    ASSUME NEW d, Swallows(d), EmptyBlocks = {}
    PROVE  parser[d].state # OwnEnd[d]
BY DEF Swallows, Excused

\* What is buffered has the SQL of the open text.
LEMMA BufferedFacts ==
    ASSUME NEW d, lines \in Seq(Annotations \cup TextKinds)
    PROVE  /\ Buffered(d) \subseteq Open(d) /\ Open(d) \subseteq Lines /\ Lines \subseteq Nat
           /\ Buffered(d) \cap Where(SQLKinds) = Open(d) \cap Where(SQLKinds)
           /\ cleanupStatement(lines, Buffered(d)) = {} <=> ~Leftover(d)
<1>1. /\ Buffered(d) \subseteq Open(d) /\ Open(d) \subseteq Lines
  BY DEF Buffered, Open, Where
<1>2. Lines \subseteq Nat
  BY LenProperties DEF Lines
<1>3. \A i \in Open(d) : i \in Nat /\ i <= i /\ lines[i] \in TextKinds
  BY <1>1, <1>2 DEF Open, Where
<1>4. \A i \in Open(d) : lines[i] \in SQLKinds => i \in Buffered(d)
  BY <1>3 DEF Buffered
<1>5. Buffered(d) \cap Where(SQLKinds) = Open(d) \cap Where(SQLKinds)
  BY <1>1, <1>4 DEF Where
<1>6. Buffered(d) \in SUBSET Nat
  BY <1>1, <1>2
<1>7. cleanupStatement(lines, Buffered(d)) = {} <=>
          \A i \in Buffered(d) : lines[i] \in {"empty", "blank"}
  BY <1>6, CleanupFacts
<1>8. ASSUME NEW i \in Buffered(d), lines[i] \notin {"empty", "blank"} PROVE Leftover(d)
  <2>1. PICK j \in Open(d) : j <= i /\ lines[j] \in SQLKinds \cup {"blank"}
    BY DEF Buffered
  <2>2. i \in Open(d) /\ i \in Nat /\ j \in Nat /\ lines[i] \in TextKinds
    BY <1>1, <1>3
  <2>3. CASE lines[i] \in SQLKinds \/ lines[j] \in SQLKinds
    BY <2>2, <2>3 DEF Leftover
  <2>4. CASE lines[i] \notin SQLKinds /\ lines[j] \notin SQLKinds
    <3>1. lines[i] = "comment" /\ lines[j] = "blank"
      BY <2>1, <2>2, <2>4, <1>8 DEF TextKinds
    <3>2. j # i
      BY <3>1
    <3>3. j < i
      BY <3>2, <2>1, <2>2
    <3> QED
      BY <3>1, <3>3, <2>2 DEF Leftover
  <2> QED
    BY <2>3, <2>4
<1>9. ASSUME Leftover(d) PROVE \E i \in Buffered(d) : lines[i] \notin {"empty", "blank"}
  <2>1. PICK i \in Open(d) : \/ lines[i] \in SQLKinds
                             \/ /\ lines[i] = "comment"
                                /\ \E j \in Open(d) : j < i /\ lines[j] = "blank"
    BY <1>9 DEF Leftover
  <2>2. CASE lines[i] \in SQLKinds
    <3>1. lines[i] \notin {"empty", "blank"}
      BY <2>2 DEF SQLKinds
    <3> QED
      BY <3>1, <2>2, <1>4
  <2>3. CASE lines[i] = "comment" /\ \E j \in Open(d) : j < i /\ lines[j] = "blank"
    <3>1. PICK j \in Open(d) : j < i /\ lines[j] = "blank"
      BY <2>3
    <3>2. j <= i
      BY <3>1, <1>3
    <3>3. i \in Buffered(d)
      BY <3>1, <3>2 DEF Buffered
    <3> QED
      BY <3>3, <2>3
  <2> QED
    BY <2>1, <2>2, <2>3
<1> QED
  BY <1>1, <1>2, <1>5, <1>7, <1>8, <1>9

\* The statements returned, one more or the same.
LEMMA LongerReturned ==
    ASSUME NEW k, NEW n, Reads(k, n), NEW d \in Directions, Placed(d), BufferFits(d),
           StatementsFit(d), parser'[d].state # "error",
           NEW old, NEW new, old = parser[d].stmts, new = parser'[d].stmts
    PROVE  /\ new = old => Returned(d)' = Returned(d)
           /\ \A c : More(d, k, n, old, new, c) =>
                         Returned(d)' = Append(Returned(d), c \cap Where(SQLKinds)')
<1> DEFINE W == Where(SQLKinds)
           R == Returned(d)
<1>1. Longer(k, n)
  BY DEF Reads
<1>2. \A m \in DOMAIN old : old[m] \cap W' = old[m] \cap W
  <2>1. /\ W \subseteq W' /\ W' \subseteq W \cup {n} /\ n \notin Lines
    BY <1>1, LongerWhere, LongerLines
  <2>2. \A m \in DOMAIN old : old[m] \subseteq Lines
    BY DEF StatementsFit, Where
  <2> QED
    BY <2>1, <2>2
<1>3. R = [m \in DOMAIN old |-> old[m] \cap W] /\ R' = [m \in DOMAIN new |-> new[m] \cap W']
  BY DEF Returned, SQLOf
<1>4. W \subseteq Nat /\ W' \subseteq Nat
  BY <1>1, LongerWhere, LongerLines
<1>5. DOMAIN old = 1..Len(old) /\ Len(old) \in Nat
  BY MoreStatements
<1> HIDE DEF W, R
<1>6. new = old => R' = R
  BY <1>2, <1>3
<1>7. ASSUME NEW c, More(d, k, n, old, new, c) PROVE R' = Append(R, c \cap W')
  <2> DEFINE L == Len(old)
             x == c \cap W'
  <2>1. /\ DOMAIN new = 1..(L + 1) /\ new[L + 1] = c /\ \A m \in 1..L : new[m] = old[m]
        /\ L \in Nat /\ x \in SUBSET Nat
    BY <1>4, <1>5, <1>7 DEF More
  <2>2. R \in [1..L -> SUBSET Nat]
    BY <1>3, <1>4, <1>5
  <2>3. R' \in [1..(L + 1) -> SUBSET Nat]
    BY <2>1, <1>3, <1>4
  <2>4. R \in Seq(SUBSET Nat) /\ Len(R) = L /\ R' \in Seq(SUBSET Nat) /\ Len(R') = L + 1
    BY <2>1, <2>2, <2>3
  <2> HIDE DEF x
  <2>5. /\ Append(R, x) \in Seq(SUBSET Nat) /\ Len(Append(R, x)) = L + 1
        /\ Append(R, x)[L + 1] = x /\ \A m \in 1..L : Append(R, x)[m] = R[m]
    BY <2>1, <2>4, AppendProperties
  <2>6. \A m \in 1..L : R'[m] = R[m]
    <3> SUFFICES ASSUME NEW m \in 1..L PROVE R'[m] = R[m]
      OBVIOUS
    <3>1. m \in 1..(L + 1) /\ m \in DOMAIN old /\ new[m] = old[m]
      BY <2>1, <1>5
    <3> QED
      BY <3>1, <2>1, <1>2, <1>3
  <2>7. R'[L + 1] = x
    <3>1. L + 1 \in 1..(L + 1)
      BY <2>1
    <3> QED
      BY <3>1, <2>1, <1>3 DEF x
  <2>8. \A m \in 1..(L + 1) : R'[m] = Append(R, x)[m]
    BY <2>1, <2>5, <2>6, <2>7
  <2> QED
    BY <2>4, <2>5, <2>8, SeqEqual DEF x
<1> QED
  BY <1>6, <1>7 DEF R, W

\* Without empty blocks, buffer and statements follow the reference.
LEMMA ExactStep ==
    ASSUME NEW k, NEW n, Reads(k, n), NEW d \in Directions, Placed(d), BufferFits(d),
           StatementsFit(d), Swallows(d), Exact(d), parser'[d].state # "error"
    PROVE  Exact(d)'
<1>1. SUFFICES ASSUME EmptyBlocks' = {}
               PROVE  /\ Section' = d => parser'[d].buf = Buffered(d)'
                      /\ Returned(d)' = Statements(d)'
  BY DEF Exact
<1>2. PICK s, r : s = parser[d] /\ r = parser'[d]
  OBVIOUS
<1> DEFINE W == Where(SQLKinds)
<1>3. /\ Longer(k, n) /\ n \in Nat /\ n \notin Lines /\ lines'[n] = k
      /\ \A i \in Lines : lines'[i] = lines[i] /\ i \in Nat /\ i < n
      /\ lines \in Seq(Annotations \cup TextKinds)
  BY LongerLines DEF Reads, Longer
<1>4. /\ EmptyBlocks = {}
      /\ n \in EmptyBlocks' <=> k = "StatementEnd" /\ SQLOf(Open(SectionOf(n))) = {}
  BY <1>1, <1>3, LongerBlocks
<1>5. /\ Section = d => s.buf = Buffered(d)
      /\ Returned(d) = Statements(d)
      /\ s.state # OwnEnd[d] /\ s.buf \subseteq Open(d)
  BY <1>2, <1>4, NoSwallow DEF Exact, BufferFits
<1>6. /\ Section = SectionOf(n)
      /\ Section' = (IF k = "Down" THEN "down"
                     ELSE IF k = "Up" /\ Section = "none" THEN "up" ELSE Section)
      /\ Section \in {"none", "up", "down"}
  BY <1>3, LongerHere
<1>7. /\ Open(d)' = IF Ending(d, k, n) THEN {} ELSE Open(d) \cup Added(d, k, n)
      /\ Open(d) \subseteq Lines
  BY <1>3, LongerEnds
<1>8. /\ Buffered(d) \subseteq Open(d)
      /\ Buffered(d) \cap W = Open(d) \cap W
  BY <1>3, BufferedFacts
<1>9. ASSUME NEW i
      PROVE  i \in Buffered(d)' <=>
                 /\ i \in Open(d)'
                 /\ \E j \in Open(d)' : j <= i /\ lines'[j] \in SQLKinds \cup {"blank"}
  BY DEF Buffered
<1>10. ASSUME NEW i
       PROVE  i \in Buffered(d) <=>
                  /\ i \in Open(d)
                  /\ \E j \in Open(d) : j <= i /\ lines[j] \in SQLKinds \cup {"blank"}
  BY DEF Buffered
<1>11. ~Misses(d, k)
  <2> SUFFICES ASSUME Misses(d, k) PROVE FALSE
    OBVIOUS
  <2>1. k = "StatementEnd" /\ Section = d /\ s.buf = {}
    BY <1>2 DEF Misses
  <2>2. Open(d) \cap W = {}
    BY <2>1, <1>5, <1>8
  <2>3. SQLOf(Open(SectionOf(n))) = {}
    BY <2>1, <2>2, <1>6 DEF SQLOf
  <2> QED
    BY <2>1, <2>3, <1>1, <1>4
<1>12. CASE Stores(d, k, n)
  <2> DEFINE b == s.buf \cup Added(d, k, n)
             c == cleanupStatement(lines', b)
             all == Open(d) \cup Added(d, k, n)
  <2>1. Ending(d, k, n) /\ r.buf = {} /\ r.stmts = Append(s.stmts, c)
    BY <1>2, <1>12 DEF Stores
  <2>2. Section = d
    BY <2>1, <1>6 DEF Ending
  <2>3. Statements(d)' = Append(Statements(d), all \cap W')
    BY <2>1, <1>3, LongerStatements
  <2>4. c \cap W' = b \cap W'
    BY <2>1, <1>2, StoredFacts
  <2>5. b \cap W' = all \cap W'
    <3>1. W' \subseteq W \cup {n}
      BY <1>3, LongerWhere
    <3>2. s.buf \cap W = Open(d) \cap W /\ s.buf \subseteq Lines
      BY <2>2, <1>5, <1>7, <1>8
    <3> QED
      BY <3>1, <3>2, <1>3, <1>7
  <2>6. Returned(d)' = Append(Returned(d), c \cap W')
    <3>1. PICK old, new : old = parser[d].stmts /\ new = parser'[d].stmts
      OBVIOUS
    <3>2. new = Append(old, c)
      BY <3>1, <2>1, <1>2
    <3>3. old \in Seq(SUBSET Nat) /\ (new = old \/ \E x : More(d, k, n, old, new, x))
      BY <3>1, MoreStatements
    <3>4. c \in SUBSET Nat
      BY <2>1, <1>2, StoredFacts
    <3> HIDE DEF c
    <3>5. /\ DOMAIN old = 1..Len(old) /\ Len(old) \in Nat
          /\ Len(new) = Len(old) + 1 /\ new[Len(old) + 1] = c
      BY <3>2, <3>3, <3>4, AppendProperties, LenProperties
    <3>6. new # old
      BY <3>5
    <3>7. PICK x : More(d, k, n, old, new, x)
      BY <3>3, <3>6
    <3>8. x = c
      BY <3>5, <3>7 DEF More
    <3> QED
      BY <3>1, <3>7, <3>8, LongerReturned
  <2>7. Buffered(d)' = {}
    BY <2>1, <1>7, <1>9
  <2> QED
    BY <2>1, <2>3, <2>4, <2>5, <2>6, <2>7, <1>2, <1>5
<1>13. ASSUME r.stmts = s.stmts, ~Ending(d, k, n) PROVE Returned(d)' = Statements(d)'
  <2>1. Returned(d)' = Returned(d)
    <3>1. PICK old, new : old = parser[d].stmts /\ new = parser'[d].stmts
      OBVIOUS
    <3> QED
      BY <3>1, <1>2, <1>13, LongerReturned
  <2>2. Statements(d)' = Statements(d)
    BY <1>3, <1>13, LongerStatements
  <2> QED
    BY <2>1, <2>2, <1>5
<1>14. CASE Drops(d, k)
  <2>1. Section # d /\ k \notin {"Up", "Down"} /\ r.stmts = s.stmts
    BY <1>2, <1>14 DEF Drops, TextKinds, SQLKinds
  <2>2. ~Ending(d, k, n) /\ Section' # d
    BY <2>1, <1>6 DEF Ending
  <2> QED
    BY <2>1, <2>2, <1>13
<1>15. CASE Collects(d, k, n)
  <2>1. /\ Section = d /\ k \in TextKinds /\ ~Ending(d, k, n)
        /\ ~(s.buf = {} /\ k \in {"comment", "empty"})
        /\ r.stmts = s.stmts /\ r.buf = s.buf \cup {n}
    BY <1>2, <1>15 DEF Collects
  <2>2. Open(d)' = Open(d) \cup {n}
    BY <2>1, <1>6, <1>7 DEF Added
  <2>3. k \in SQLKinds \cup {"blank"} \/ Buffered(d) # {}
    BY <2>1, <1>5 DEF TextKinds
  <2>4. ASSUME NEW i PROVE i \in Buffered(d)' <=> i \in Buffered(d) \cup {n}
    <3>1. CASE i = n
      <4>1. CASE k \in SQLKinds \cup {"blank"}
        BY <3>1, <4>1, <2>2, <1>3, <1>9
      <4>2. CASE Buffered(d) # {}
        <5>1. PICK h \in Buffered(d) : TRUE
          BY <4>2
        <5>2. PICK j \in Open(d) : lines[j] \in SQLKinds \cup {"blank"}
          BY <5>1, <1>10
        <5>3. j <= n /\ lines'[j] = lines[j]
          BY <1>3, <1>7
        <5> QED
          BY <3>1, <5>2, <5>3, <2>2, <1>9
      <4> QED
        BY <2>3, <4>1, <4>2
    <3>2. CASE i \in Open(d)
      <4>1. i \in Nat /\ i < n /\ \A j \in Open(d) : lines'[j] = lines[j] /\ j \in Nat
        BY <3>2, <1>3, <1>7
      <4>2. (\E j \in Open(d)' : j <= i /\ lines'[j] \in SQLKinds \cup {"blank"}) <=>
            (\E j \in Open(d) : j <= i /\ lines[j] \in SQLKinds \cup {"blank"})
        <5>1. \A j \in Open(d)' : j <= i => j \in Open(d)
          BY <4>1, <2>2, <1>3
        <5> QED
          BY <4>1, <5>1, <2>2
      <4>3. i # n /\ i \in Open(d)'
        BY <3>2, <4>1, <2>2, <1>3
      <4> QED
        BY <3>2, <4>2, <4>3, <1>9, <1>10
    <3>3. CASE i \notin Open(d) \cup {n}
      BY <3>3, <2>2, <1>8, <1>9
    <3> QED
      BY <3>1, <3>2, <3>3
  <2>5. Buffered(d)' = Buffered(d) \cup {n}
    BY <2>4
  <2> QED
    BY <2>1, <2>5, <1>2, <1>5, <1>13
<1>16. CASE Keeps(d, k, n)
  <2>1. /\ r.stmts = s.stmts /\ r.buf = s.buf /\ ~Ending(d, k, n)
        /\ k \in TextKinds /\ Section = d => s.buf = {} /\ k \in {"comment", "empty"}
    BY <1>2, <1>16 DEF Keeps
  <2>2. ASSUME Section' = d PROVE r.buf = Buffered(d)'
    <3>1. CASE Section = d /\ k \in TextKinds
      <4>1. s.buf = {} /\ k \in {"comment", "empty"} /\ Buffered(d) = {}
        BY <3>1, <2>1, <1>5
      <4>2. Open(d)' = Open(d) \cup {n}
        BY <3>1, <2>1, <1>6, <1>7 DEF Added
      <4>3. \A j \in Open(d)' : lines'[j] \notin SQLKinds \cup {"blank"}
        <5> SUFFICES ASSUME NEW j \in Open(d)', lines'[j] \in SQLKinds \cup {"blank"} PROVE FALSE
          OBVIOUS
        <5>1. j # n
          BY <4>1, <1>3 DEF SQLKinds
        <5>2. j \in Open(d) /\ lines[j] = lines'[j] /\ j <= j
          BY <5>1, <4>2, <1>3, <1>7
        <5> QED
          BY <5>2, <4>1, <1>10
      <4> QED
        BY <4>1, <4>3, <2>1, <1>9
    <3>2. CASE Section = d /\ k \notin TextKinds
      <4>1. Open(d)' = Open(d)
        BY <3>2, <2>1, <1>7 DEF Added
      <4>2. \A i : i \in Buffered(d)' <=> i \in Buffered(d)
        BY <4>1, <1>3, <1>7, <1>9, <1>10
      <4> QED
        BY <3>2, <4>2, <2>1, <1>5
    <3>3. CASE Section # d
      <4>1. \A i \in Lines : SectionOf(i) # d
        <5>1. \A i \in 1..n : /\ SectionOf(n) = "none" => SectionOf(i) = "none"
                              /\ SectionOf(n) = "up" => SectionOf(i) # "down"
          BY <1>3, LongerSection
        <5>2. \A i \in Lines : i \in 1..n
          BY <1>3, LongerLines
        <5>3. Section = "none" \/ (Section = "up" /\ d = "down")
          <6>1. Section = "down" => d = "down"
            BY <2>2, <1>6
          <6>2. d \in {"up", "down"}
            BY DEF Directions
          <6>3. Section \in {"none", "up", "down"} /\ Section # d
            BY <3>3, <1>6
          <6> QED
            BY <6>1, <6>2, <6>3
        <5> QED
          BY <5>1, <5>2, <5>3, <1>6 DEF Directions
      <4>2. Open(d) = {}
        BY <4>1 DEF Open, Where
      <4>3. Added(d, k, n) = {}
        BY <3>3, <1>6 DEF Added
      <4>4. Open(d)' = {} /\ s.buf = {}
        BY <4>2, <4>3, <1>5, <1>7
      <4> QED
        BY <4>4, <2>1, <1>9
    <3> QED
      BY <3>1, <3>2, <3>3
  <2> QED
    BY <2>1, <2>2, <1>2, <1>13
<1>17. ~Swallowed(d, k)
  BY <1>2, <1>5 DEF Swallowed
<1>18. \/ Keeps(d, k, n) \/ Drops(d, k) \/ Misses(d, k) \/ Stores(d, k, n)
       \/ Swallowed(d, k) \/ Collects(d, k, n)
  BY Outcomes
<1> QED
  BY <1>11, <1>12, <1>14, <1>15, <1>16, <1>17, <1>18

-----------------------------------------------------------------------------
(* The lines that are refused *)

\* A line of kind k that is out of order.
Disorder(k) ==
    \/ k = "Up" /\ Section # "none"
    \/ k = "Down" /\ (Section # "up" \/ Inside)
    \/ k = "StatementBegin" /\ (Section = "none" \/ Inside)
    \/ k = "StatementEnd" /\ (Section = "none" \/ ~Inside)
    \/ k \in SQLKinds /\ Section = "none"

\* A file stays in order unless the line is out of order.
LEMMA LongerInOrder ==
    ASSUME NEW k, NEW n, Longer(k, n), InOrder
    PROVE  InOrder' <=> ~Disorder(k)
<1> DEFINE U == Where({"Up"})
           D == Where({"Down"})
           UD == Where({"Up", "Down"})
           X == Where(SQLKinds \cup {"Down", "StatementBegin", "StatementEnd"})
           B == Where({"Down", "StatementBegin"})
           E == Where({"StatementEnd"})
<1>1. /\ U' \subseteq U \cup {n} /\ U \subseteq U' /\ (n \in U' <=> k = "Up")
      /\ \A i \in U : i \in Nat /\ i < n
  BY LongerWhere
<1>2. /\ D' \subseteq D \cup {n} /\ D \subseteq D' /\ (n \in D' <=> k = "Down")
      /\ \A i \in D : i \in Nat /\ i < n
  BY LongerWhere
<1>3. /\ X' \subseteq X \cup {n} /\ X \subseteq X'
      /\ n \in X' <=> k \in SQLKinds \cup {"Down", "StatementBegin", "StatementEnd"}
      /\ \A i \in X : i \in Nat /\ i < n
  BY LongerWhere
<1>4. /\ B' \subseteq B \cup {n} /\ B \subseteq B'
      /\ n \in B' <=> k \in {"Down", "StatementBegin"}
      /\ \A i \in B : i \in Lines
  BY LongerWhere
<1>5. /\ E' \subseteq E \cup {n} /\ E \subseteq E' /\ (n \in E' <=> k = "StatementEnd")
      /\ \A i \in E : i \in Lines
  BY LongerWhere
<1>6. n \in Nat /\ n \in 1..n /\ \A i \in Lines : i \in 1..n
  BY LongerLines
<1>7. \A i \in 1..n : BlockAt(i)' <=> BlockAt(i)
  <2>1. "StatementBegin" # "StatementEnd"
    OBVIOUS
  <2> QED
    BY <2>1, LongerSwitched DEF BlockAt
<1>8. /\ Inside <=> BlockAt(n)
      /\ Section = SectionOf(n) /\ Section \in {"none", "up", "down"}
  BY LongerHere
<1>9. /\ Section = "none" <=> UD = {}
      /\ Section = "down" <=> D # {}
  BY <1>8, LongerSection
<1>10. /\ \A i, j \in U : i = j
       /\ \A i, j \in D : i = j
       /\ \A i \in X : \E u \in U : u < i
       /\ \A i \in B : ~BlockAt(i)
       /\ \A i \in E : BlockAt(i)
  BY DEF InOrder
<1>11. U # {} <=> Section # "none"
  <2>1. UD = U \cup D /\ D \subseteq X
    BY DEF Where
  <2> QED
    BY <2>1, <1>9, <1>10
<1>12. InOrder' <=> /\ \A i, j \in U' : i = j
                    /\ \A i, j \in D' : i = j
                    /\ \A i \in X' : \E u \in U' : u < i
                    /\ \A i \in B' : ~BlockAt(i)'
                    /\ \A i \in E' : BlockAt(i)'
  BY DEF InOrder
<1> HIDE DEF U, D, UD, X, B, E
<1>13. (\A i, j \in U' : i = j) <=> ~(k = "Up" /\ Section # "none")
  <2>1. CASE k = "Up"
    <3>1. n \in U' /\ \A i \in U : i \in U' /\ i # n
      BY <2>1, <1>1, <1>6
    <3> QED
      BY <2>1, <3>1, <1>1, <1>10, <1>11
  <2>2. CASE k # "Up"
    BY <2>2, <1>1, <1>10
  <2> QED
    BY <2>1, <2>2
<1>14. (\A i, j \in D' : i = j) <=> ~(k = "Down" /\ Section = "down")
  <2>1. CASE k = "Down"
    <3>1. n \in D' /\ \A i \in D : i \in D' /\ i # n
      BY <2>1, <1>2, <1>6
    <3> QED
      BY <2>1, <3>1, <1>2, <1>9, <1>10
  <2>2. CASE k # "Down"
    BY <2>2, <1>2, <1>10
  <2> QED
    BY <2>1, <2>2
<1>15. (\A i \in X' : \E u \in U' : u < i) <=> ~(n \in X' /\ Section = "none")
  <2>1. \A i \in X : \E u \in U' : u < i
    BY <1>1, <1>10
  <2>2. (\E u \in U' : u < n) <=> Section # "none"
    <3>1. (\E u \in U' : u < n) <=> U # {}
      BY <1>1, <1>6
    <3> QED
      BY <3>1, <1>11
  <2> QED
    BY <2>1, <2>2, <1>3
<1>16. (\A i \in B' : ~BlockAt(i)') <=> ~(k \in {"Down", "StatementBegin"} /\ Inside)
  <2>1. \A i \in B : ~BlockAt(i)'
    BY <1>4, <1>6, <1>7, <1>10
  <2>2. BlockAt(n)' <=> Inside
    BY <1>6, <1>7, <1>8
  <2> QED
    BY <2>1, <2>2, <1>4
<1>17. (\A i \in E' : BlockAt(i)') <=> ~(k = "StatementEnd" /\ ~Inside)
  <2>1. \A i \in E : BlockAt(i)'
    BY <1>5, <1>6, <1>7, <1>10
  <2>2. BlockAt(n)' <=> Inside
    BY <1>6, <1>7, <1>8
  <2> QED
    BY <2>1, <2>2, <1>5
<1>18. InOrder' <=> /\ ~(k = "Up" /\ Section # "none")
                    /\ ~(k = "Down" /\ Section = "down")
                    /\ ~(/\ k \in SQLKinds \cup {"Down", "StatementBegin", "StatementEnd"}
                         /\ Section = "none")
                    /\ ~(k \in {"Down", "StatementBegin"} /\ Inside)
                    /\ ~(k = "StatementEnd" /\ ~Inside)
  BY <1>3, <1>12, <1>13, <1>14, <1>15, <1>16, <1>17
<1> QED
  BY <1>8, <1>18 DEF Disorder

\* A file that could be continued can still be, unless the line is a mistake.
LEMMA LongerPassable ==
    ASSUME NEW k, NEW n, Longer(k, n), Passable
    PROVE  Passable' <=> /\ ~Disorder(k) /\ k # "invalid"
                         /\ ~(k = "sqlBadVar" /\ Substituting)
                         /\ ~(k = "Down" /\ Leftover("up"))
<1> DEFINE I == Where({"invalid"})
           V == Where({"sqlBadVar"})
           D == Where({"Down"})
           Sub(i) == Switched(i, "EnvsubOn", "EnvsubOff")
<1>1. /\ InOrder /\ I = {} /\ \A i \in V : ~Sub(i)
      /\ D # {} => ~Leftover("up")
  BY DEF Passable
<1>2. Passable' <=> /\ InOrder' /\ I' = {} /\ \A i \in V' : ~Sub(i)'
                    /\ D' # {} => ~Leftover("up")'
  BY DEF Passable
<1>3. I' \subseteq I \cup {n} /\ (n \in I' <=> k = "invalid")
  BY LongerWhere
<1>4. /\ V \subseteq V' /\ V' \subseteq V \cup {n} /\ V \subseteq Lines
      /\ n \in V' <=> k = "sqlBadVar"
  BY LongerWhere
<1>5. D \subseteq D' /\ D' \subseteq D \cup {n} /\ (n \in D' <=> k = "Down")
  BY LongerWhere
<1>6. /\ n \in 1..n /\ n \notin Lines
      /\ \A i \in Lines : i \in 1..n /\ lines'[i] = lines[i]
  BY LongerLines
<1>7. \A i \in 1..n : Sub(i)' <=> Sub(i)
  <2>1. "EnvsubOn" # "EnvsubOff"
    OBVIOUS
  <2> QED
    BY <2>1, LongerSwitched
<1>8. (Substituting <=> Sub(n)) /\ Section = SectionOf(n)
  BY LongerHere
<1>9. Section = "down" <=> D # {}
  BY <1>8, LongerSection
<1>10. ASSUME D' # {} PROVE Leftover("up")' <=> Leftover("up")
  <2>1. ~Ending("up", k, n) /\ Added("up", k, n) = {}
    <3>1. CASE k = "Down"
      BY <3>1 DEF Ending, Added, endsWithSemicolon, TextKinds, SQLKinds
    <3>2. CASE k # "Down"
      <4>1. D # {}
        BY <3>2, <1>5, <1>10
      <4>2. SectionOf(n) # "up"
        BY <4>1, <1>8, <1>9
      <4> QED
        BY <4>2 DEF Ending, Added
    <3> QED
      BY <3>1, <3>2
  <2>2. Open("up")' = Open("up") /\ Open("up") \subseteq Lines
    BY <2>1, LongerEnds
  <2>3. \A i \in Open("up") : lines'[i] = lines[i]
    BY <2>2, <1>6
  <2> QED
    BY <2>2, <2>3 DEF Leftover
<1> HIDE DEF I, V, D, Sub
<1>11. I' = {} <=> k # "invalid"
  BY <1>1, <1>3
<1>12. (\A i \in V' : ~Sub(i)') <=> ~(k = "sqlBadVar" /\ Substituting)
  BY <1>1, <1>4, <1>6, <1>7, <1>8
<1>13. (D' # {} => ~Leftover("up")') <=> ~(k = "Down" /\ Leftover("up"))
  BY <1>1, <1>5, <1>10
<1>14. InOrder' <=> ~Disorder(k)
  BY <1>1, LongerInOrder
<1> QED
  BY <1>2, <1>11, <1>12, <1>13, <1>14

\* Without empty blocks the parsers refuse a line exactly if no well-formed file
\* begins like this.
LEMMA RefusedIffNotPassable ==
    ASSUME NEW k, NEW n, Reads(k, n), \A d \in Directions : Follows(d), Sound,
           EmptyBlocks' = {}
    PROVE  Failed' <=> ~Passable'
<1>1. /\ Longer(k, n) /\ TypeOK /\ ~Failed /\ lines \in Seq(Annotations \cup TextKinds)
  BY DEF Reads, Longer
<1>2. EmptyBlocks = {} /\ Passable
  BY <1>1, LongerBlocks DEF Sound
<1>3. \A d \in Directions : Placed(d) /\ BufferFits(d) /\ Swallows(d)
  BY DEF Follows
<1>4. \A d \in Directions : /\ Mistake(d, k) => parser'[d].state = "error"
                            /\ parser'[d].state = "error" =>
                                   Mistake(d, k) \/ (k = "sqlBadVar" /\ Substituting)
                            /\ k = "sqlBadVar" /\ Substituting /\ Section = d
                                   /\ parser'[d].state # "error" => parser[d].state = OwnEnd[d]
  BY <1>3, Refusals
<1>5. \A d \in Directions : parser[d].state # OwnEnd[d]
  BY <1>2, <1>3, NoSwallow
<1>6. \A d \in Directions : Section = d =>
          (cleanupStatement(lines, parser[d].buf) # {} <=> Leftover(d))
  <2> SUFFICES ASSUME NEW d \in Directions, Section = d
               PROVE  cleanupStatement(lines, parser[d].buf) # {} <=> Leftover(d)
    OBVIOUS
  <2>1. parser[d].buf = Buffered(d)
    BY <1>2 DEF Follows, Exact
  <2> QED
    BY <2>1, <1>1, BufferedFacts
<1>7. \A d \in Directions : Section # d => cleanupStatement(lines, parser[d].buf) = {}
  BY <1>3 DEF BufferFits
<1>8. Section \in {"none", "up", "down"} /\ (Section = "none" => ~Inside)
  BY <1>1, <1>3, LongerHere DEF Placed, Directions
<1>9. "up" \in Directions
  BY DEF Directions
<1>10. Failed' <=> \E d \in Directions : parser'[d].state = "error"
  BY DEF Failed
<1>11. Passable' <=> /\ ~Disorder(k) /\ k # "invalid"
                     /\ ~(k = "sqlBadVar" /\ Substituting)
                     /\ ~(k = "Down" /\ Leftover("up"))
  BY <1>1, <1>2, LongerPassable
<1>12. ASSUME Passable' PROVE ~Failed'
  <2> SUFFICES ASSUME NEW d \in Directions, Mistake(d, k) PROVE FALSE
    BY <1>4, <1>10, <1>11, <1>12
  <2>1. k = "Down" => Section = "up"
    BY <1>11, <1>12 DEF Disorder
  <2>2. k = "Down" => cleanupStatement(lines, parser[d].buf) = {}
    <3>1. CASE d = "up"
      BY <3>1, <2>1, <1>6, <1>11, <1>12
    <3>2. CASE d # "up"
      BY <3>2, <2>1, <1>7
    <3> QED
      BY <3>1, <3>2
  <2> QED
    BY <2>2, <1>8, <1>11, <1>12 DEF Mistake, Disorder
<1>13. ASSUME ~Passable' PROVE Failed'
  <2>1. CASE Disorder(k) \/ k = "invalid"
    <3>1. Mistake("up", k)
      BY <2>1, <1>8 DEF Mistake, Disorder
    <3> QED
      BY <3>1, <1>4, <1>9, <1>10
  <2>2. CASE k = "Down" /\ Leftover("up")
    <3>1. Mistake("up", k)
      BY <2>2, <1>6, <1>9 DEF Mistake
    <3> QED
      BY <3>1, <1>4, <1>9, <1>10
  <2>3. CASE k = "sqlBadVar" /\ Substituting
    <3>1. CASE Section = "none"
      <4>1. Mistake("up", k)
        BY <2>3, <3>1 DEF Mistake, SQLKinds
      <4> QED
        BY <4>1, <1>4, <1>9, <1>10
    <3>2. CASE Section # "none"
      <4>1. Section \in Directions
        BY <3>2, <1>8 DEF Directions
      <4>2. parser'[Section].state = "error"
        BY <4>1, <2>3, <1>4, <1>5
      <4> QED
        BY <4>1, <4>2, <1>10
    <3> QED
      BY <3>1, <3>2
  <2> QED
    BY <2>1, <2>2, <2>3, <1>11, <1>13
<1> QED
  BY <1>12, <1>13

\* A line that is not refused leaves the file sound.
LEMMA SoundStep ==
    ASSUME NEW k, NEW n, Reads(k, n), \A d \in Directions : Follows(d), Sound, ~Failed'
    PROVE  Sound'
<1>1. Longer(k, n)
  BY DEF Reads
<1>2. "up" \in Directions /\ Placed("up") /\ BufferFits("up") /\ parser'["up"].state # "error"
  BY DEF Directions, Follows, Failed
<1>3. ~Mistake("up", k)
  BY <1>2, Refusals
<1>4. Section = "none" => ~Inside
  BY <1>2 DEF Placed
<1>5. ~Disorder(k) /\ k # "invalid"
  BY <1>3, <1>4 DEF Mistake, Disorder
<1>6. InOrder'
  BY <1>1, <1>5, LongerInOrder DEF Sound
<1>7. Where({"invalid"})' = {}
  BY <1>1, <1>5, LongerWhere DEF Sound
<1>8. ASSUME NEW i \in Where(SQLKinds)' PROVE SectionOf(i)' # "none"
  <2>1. /\ i \in Where(SQLKinds) \/ (i = n /\ k \in SQLKinds)
        /\ Where(SQLKinds) \subseteq Lines
    BY <1>1, LongerWhere
  <2>2. /\ n \in 1..n /\ \A j \in Lines : j \in 1..n
    BY <1>1, LongerLines
  <2>3. \A j \in 1..n : SectionOf(j)' = SectionOf(j)
    BY <1>1, LongerSection
  <2>4. CASE i \in Where(SQLKinds)
    BY <2>1, <2>2, <2>3, <2>4 DEF Sound
  <2>5. CASE i = n /\ k \in SQLKinds
    <3>1. SectionOf(n) # "none"
      BY <2>5, <1>1, <1>5, LongerHere DEF Disorder
    <3> QED
      BY <3>1, <2>2, <2>3, <2>5
  <2> QED
    BY <2>1, <2>4, <2>5
<1>9. EmptyBlocks' = {} => Passable'
  BY RefusedIffNotPassable
<1> QED
  BY <1>6, <1>7, <1>8, <1>9 DEF Sound

-----------------------------------------------------------------------------
(* The steps of the two parsers *)

\* ReadLine reads a line.
LEMMA ReadLineReads ==
    ASSUME TypeOK, NEW k \in Kinds, ReadLine(k)
    PROVE  /\ \E n : Reads(k, n)
           /\ eof' = eof /\ ~eof
<1>1. /\ lines' = Append(lines, k) /\ k \in Annotations \cup TextKinds
      /\ eof' = eof /\ ~eof /\ ~Failed
      /\ parser' = [d \in Directions |-> Scan(parser[d], d, lines')]
  BY ParserAssumption DEF ReadLine
<1>2. lines \in Seq(Annotations \cup TextKinds)
  BY DEF TypeOK
<1>3. lines' \in Seq(Annotations \cup TextKinds) /\ Len(lines') \in Nat /\ Last(lines') = k
  BY <1>1, <1>2, AppendProperties, LenProperties DEF Last
<1>4. \A d \in Directions : parser'[d] \in Parser
  BY <1>1, <1>3, ScanFacts DEF TypeOK, Failed
<1>5. TypeOK'
  BY <1>1, <1>3, <1>4 DEF TypeOK
<1>6. Longer(k, Len(lines) + 1)
  BY <1>1, <1>2 DEF Longer
<1> QED
  BY <1>1, <1>5, <1>6 DEF Reads

\* One line keeps the invariant.
LEMMA ReadLineInv ==
    ASSUME TypeOK, ParserInv, NEW k \in Kinds, ReadLine(k)
    PROVE  ParserInv'
<1>1. PICK n : Reads(k, n)
  BY ReadLineReads
<1>2. (\A d \in Directions : Follows(d)) /\ Sound
  BY <1>1 DEF Reads, ParserInv
<1>3. SUFFICES ASSUME ~Failed' PROVE (\A d \in Directions : Follows(d)') /\ Sound' /\ Done'
  BY DEF ParserInv
<1>4. ASSUME NEW d \in Directions PROVE Follows(d)'
  <2>1. Placed(d) /\ BufferFits(d) /\ StatementsFit(d) /\ Accounted(d) /\ Swallows(d) /\ Exact(d)
    BY <1>2 DEF Follows
  <2>2. parser'[d].state # "error"
    BY <1>3 DEF Failed
  <2>3. Placed(d)'
    BY <2>1, <2>2, <1>1, PlacedStep
  <2>4. BufferFits(d)'
    BY <2>1, <2>2, <1>1, BufferFitsStep
  <2>5. StatementsFit(d)'
    BY <2>1, <2>2, <1>1, StatementsFitStep
  <2>6. Accounted(d)'
    BY <2>1, <2>2, <1>1, AccountedStep
  <2>7. Swallows(d)'
    BY <2>1, <2>2, <1>1, SwallowsStep
  <2>8. Exact(d)'
    BY <2>1, <2>2, <1>1, ExactStep
  <2> QED
    BY <2>3, <2>4, <2>5, <2>6, <2>7, <2>8 DEF Follows
<1>5. Sound'
  BY <1>1, <1>2, <1>3, SoundStep
<1>6. Done'
  BY ReadLineReads DEF Done
<1> QED
  BY <1>4, <1>5, <1>6

\* Nothing but eof changes at the end of a file that is accepted.
LEMMA EndOfFileFacts ==
    ASSUME TypeOK, EndOfFile
    PROVE  /\ lines' = lines /\ eof' = TRUE /\ ~eof /\ ~Failed
           /\ Failed' <=> \E d \in Directions : \/ parser[d].state \in {"start"} \cup InBlock
                                                \/ cleanupStatement(lines, parser[d].buf) # {}
           /\ ~Failed' => parser' = parser
<1>1. /\ lines' = lines /\ eof' = TRUE /\ ~eof /\ ~Failed
      /\ parser' = [d \in Directions |-> Finish(parser[d], lines)]
  BY DEF EndOfFile
<1>2. \A d \in Directions : parser[d] \in Parser /\ parser[d].state # "error"
  BY <1>1 DEF TypeOK, Failed
<1> DEFINE Bad(d) == \/ parser[d].state \in {"start"} \cup InBlock
                     \/ cleanupStatement(lines, parser[d].buf) # {}
<1>3. \A d \in Directions : /\ Bad(d) => parser'[d].state = "error"
                            /\ ~Bad(d) => parser'[d] = parser[d]
  <2> SUFFICES ASSUME NEW d \in Directions
               PROVE  /\ Bad(d) => parser'[d].state = "error"
                      /\ ~Bad(d) => parser'[d] = parser[d]
    OBVIOUS
  <2>1. parser'[d] = IF Bad(d) THEN Fail(parser[d]) ELSE parser[d]
    BY <1>1 DEF Finish
  <2>2. Fail(parser[d]).state = "error"
    BY <1>2, FailFacts
  <2> HIDE DEF Bad
  <2> QED
    BY <2>1, <2>2
<1> HIDE DEF Bad
<1>4. Failed' <=> \E d \in Directions : Bad(d)
  BY <1>2, <1>3 DEF Failed
<1>5. ASSUME ~Failed' PROVE parser' = parser
  <2>1. \A d \in Directions : parser'[d] = parser[d]
    BY <1>3, <1>4, <1>5
  <2>2. parser \in [Directions -> Parser] /\ parser' = [d \in Directions |-> parser'[d]]
    BY <1>1 DEF TypeOK
  <2> QED
    BY <2>1, <2>2
<1> QED
  BY <1>1, <1>4, <1>5 DEF Bad

\* The reference is about the lines alone.
LEMMA SameReference ==
    ASSUME lines' = lines
    PROVE  /\ \A ks : Where(ks)' = Where(ks)
           /\ \A i : SectionOf(i)' = SectionOf(i)
           /\ \A i, on, off : Switched(i, on, off)' <=> Switched(i, on, off)
           /\ \A i : BlockAt(i)' <=> BlockAt(i)
           /\ \A d : Ends(d)' = Ends(d) /\ Open(d)' = Open(d)
           /\ \A d, t : Closed(d, t)' = Closed(d, t)
           /\ EmptyBlocks' = EmptyBlocks
           /\ \A d : Statements(d)' = Statements(d)
           /\ \A d : Leftover(d)' <=> Leftover(d)
           /\ InOrder' <=> InOrder
           /\ Passable' <=> Passable
<1>1. /\ \A ks : Where(ks)' = Where(ks)
      /\ \A i : SectionOf(i)' = SectionOf(i)
      /\ \A i, on, off : Switched(i, on, off)' <=> Switched(i, on, off)
      /\ \A i : BlockAt(i)' <=> BlockAt(i)
  BY DEF Where, Lines, SectionOf, Switched, BlockAt
<1>2. \A d : Ends(d)' = Ends(d)
  BY DEF Ends, SectionOf, BlockAt, Switched, Where, Lines, endsWithSemicolon
<1>3. /\ \A d : Open(d)' = Open(d)
      /\ \A d, t : Closed(d, t)' = Closed(d, t)
  BY <1>1, <1>2 DEF Open, Closed
<1>4. EmptyBlocks' = EmptyBlocks
  BY DEF EmptyBlocks, SQLOf, Closed, Ends, SectionOf, BlockAt, Switched, Where, Lines,
         endsWithSemicolon
<1>5. \A d : Statements(d)' = Statements(d)
  BY DEF Statements, SQLOf, Closed, Ends, SectionOf, BlockAt, Switched, Where, Lines,
         endsWithSemicolon
<1>6. \A d : Leftover(d)' <=> Leftover(d)
  BY <1>3 DEF Leftover
<1>7. InOrder' <=> InOrder
  BY <1>1 DEF InOrder
<1>8. Passable' <=> Passable
  BY <1>1, <1>6, <1>7 DEF Passable
<1> QED
  BY <1>1, <1>2, <1>3, <1>4, <1>5, <1>6, <1>7, <1>8

\* The invariant is about the lines and the parsers.
LEMMA SameInv ==
    ASSUME lines' = lines, parser' = parser
    PROVE  /\ \A d \in Directions : Follows(d)' <=> Follows(d)
           /\ Sound' <=> Sound
           /\ Failed' <=> Failed
<1>1. /\ \A ks : Where(ks)' = Where(ks)
      /\ \A i : SectionOf(i)' = SectionOf(i)
      /\ \A d : Ends(d)' = Ends(d) /\ Open(d)' = Open(d)
      /\ EmptyBlocks' = EmptyBlocks
      /\ \A d : Statements(d)' = Statements(d)
      /\ InOrder' <=> InOrder
      /\ Passable' <=> Passable
  BY SameReference
<1>2. Section' = Section /\ (Inside' <=> Inside) /\ (Substituting' <=> Substituting)
  BY DEF Section, Inside, Substituting, SectionOf, BlockAt, Switched, Where, Lines
<1>3. \A i : Excused(i)' <=> Excused(i)
  BY <1>1 DEF Excused
<1>4. Sound' <=> Sound
  BY <1>1 DEF Sound
<1>5. Failed' <=> Failed
  BY DEF Failed
<1>6. ASSUME NEW d \in Directions PROVE Follows(d)' <=> Follows(d)
  <2>1. Placed(d)' <=> Placed(d)
    <3>1. Inside \in BOOLEAN /\ Inside' \in BOOLEAN
          /\ Substituting \in BOOLEAN /\ Substituting' \in BOOLEAN
      BY DEF Inside, Substituting, BlockAt, Switched
    <3>2. Inside' = Inside /\ Substituting' = Substituting
      BY <3>1, <1>2
    <3>3. PlaceOf(Section', Inside') = PlaceOf(Section, Inside)
      BY <3>2, <1>2
    <3> QED
      BY <3>2, <3>3, <1>2 DEF Placed
  <2>2. BufferFits(d)' <=> BufferFits(d)
    BY <1>1, <1>2 DEF BufferFits
  <2>3. StatementsFit(d)' <=> StatementsFit(d)
    BY <1>1 DEF StatementsFit
  <2>4. Accounted(d)' <=> Accounted(d)
    BY <1>1, <1>3 DEF Accounted
  <2>5. Swallows(d)' <=> Swallows(d)
    <3>1. Excused(Len(lines) + 1)' <=> Excused(Len(lines) + 1)
      BY <1>1 DEF Excused
    <3> QED
      BY <3>1 DEF Swallows
  <2>6. Returned(d)' = Returned(d) /\ Buffered(d)' = Buffered(d)
    BY <1>1 DEF Returned, SQLOf, Buffered
  <2>7. Exact(d)' <=> Exact(d)
    BY <2>6, <1>1, <1>2 DEF Exact
  <2> QED
    BY <2>1, <2>2, <2>3, <2>4, <2>5, <2>7 DEF Follows
<1> QED
  BY <1>4, <1>5, <1>6

\* Every step keeps the invariant.
LEMMA ParserInvStep ==
    ASSUME TypeOK, ParserInv, [Next]_vars
    PROVE  ParserInv'
<1>1. ASSUME NEW k \in Kinds, ReadLine(k) PROVE ParserInv'
  BY <1>1, ReadLineInv
<1>2. ASSUME EndOfFile PROVE ParserInv'
  <2>1. SUFFICES ASSUME ~Failed' PROVE (\A d \in Directions : Follows(d)') /\ Sound' /\ Done'
    BY DEF ParserInv
  <2>2. lines' = lines /\ parser' = parser /\ ~Failed
    BY <2>1, <1>2, EndOfFileFacts
  <2>3. Done'
    <3>1. \A d \in Directions : cleanupStatement(lines, parser[d].buf) = {}
      BY <2>1, <1>2, EndOfFileFacts
    <3> QED
      BY <3>1, <2>2 DEF Done
  <2> QED
    BY <2>2, <2>3, SameInv DEF ParserInv
<1>3. ASSUME NEW d \in Directions, ReadFails(d) PROVE ParserInv'
  <2>1. parser' = [parser EXCEPT ![d] = Fail(parser[d])] /\ parser[d] \in Parser
    BY <1>3 DEF ReadFails, TypeOK
  <2>2. parser'[d].state = "error"
    BY <2>1, FailFacts DEF TypeOK
  <2> QED
    BY <2>2 DEF ParserInv, Failed
<1>4. CASE UNCHANGED vars
  <2>1. lines' = lines /\ parser' = parser /\ eof' = eof
    BY <1>4 DEF vars
  <2>2. Done' <=> Done
    BY <2>1 DEF Done
  <2> QED
    BY <2>1, <2>2, SameInv DEF ParserInv
<1> QED
  BY <1>1, <1>2, <1>3, <1>4 DEF Next

\* Before the first line there is nothing to account for.
LEMMA InitInv ==
    ASSUME Init
    PROVE  TypeOK /\ BothAgree /\ ParserInv
<1> DEFINE s == [state |-> "start", buf |-> {}, stmts |-> <<>>,
                 useTx |-> TRUE, useEnvsub |-> FALSE]
<1>1. s \in Parser /\ s.state = "start" /\ s.buf = {} /\ s.stmts = <<>> /\ s.useEnvsub = FALSE
  BY EmptySeq DEF Parser, States
<1>2. parser = [d \in Directions |-> s] /\ lines = <<>> /\ eof = FALSE
  BY DEF Init
<1> HIDE DEF s
<1>3. TypeOK /\ BothAgree
  BY <1>1, <1>2, EmptySeq DEF TypeOK, BothAgree, Agree, Directions
<1>4. Lines = {} /\ \A ks : Where(ks) = {}
  BY <1>2 DEF Lines, Where
<1>5. \A d : Ends(d) = {} /\ Open(d) = {} /\ Buffered(d) = {}
  BY <1>4 DEF Ends, Open, Buffered
<1>6. Section = "none" /\ ~Inside /\ ~Substituting
  BY <1>4 DEF Section, SectionOf, Inside, BlockAt, Substituting, Switched
<1>7. \A d : Statements(d) = <<>>
  <2>1. IsFiniteSet({}) /\ Cardinality({}) = 0
    BY FS_EmptySet
  <2>2. Ascending({}) \in Seq({}) /\ Len(Ascending({})) = 0
    BY <2>1, AscendingProperties
  <2>3. Ascending({}) = <<>> /\ DOMAIN Ascending({}) = {}
    BY <2>2, EmptySeq, LenProperties
  <2> QED
    BY <2>3, <1>5 DEF Statements
<1>8. Sound
  <2>1. InOrder
    BY <1>4 DEF InOrder
  <2> QED
    BY <2>1, <1>4 DEF Sound, Passable
<1>9. ASSUME NEW d \in Directions PROVE Follows(d)
  <2>1. parser[d] = s
    BY <1>2
  <2>2. Placed(d)
    <3>1. Place("start") = PlaceOf("none", Inside)
      BY DEF Place, PlaceOf
    <3>2. Substituting = FALSE
      BY <1>6 DEF Substituting, Switched
    <3> QED
      BY <3>1, <3>2, <2>1, <1>1, <1>6 DEF Placed
  <2>3. BufferFits(d)
    BY <2>1, <1>1 DEF BufferFits, cleanupStatement
  <2>4. StatementsFit(d)
    BY <2>1, <1>1 DEF StatementsFit
  <2>5. Accounted(d)
    BY <1>4 DEF Accounted
  <2>6. "start" # OwnEnd[d]
    BY DEF OwnEnd, Directions
  <2>7. Swallows(d)
    BY <2>1, <2>6, <1>1 DEF Swallows
  <2>8. Returned(d) = <<>>
    BY <2>1, <1>1 DEF Returned
  <2>9. Exact(d)
    BY <2>1, <2>8, <1>1, <1>5, <1>7 DEF Exact
  <2> QED
    BY <2>2, <2>3, <2>4, <2>5, <2>7, <2>9 DEF Follows
<1>10. Done
  BY <1>2 DEF Done
<1> QED
  BY <1>3, <1>8, <1>9, <1>10 DEF ParserInv

-----------------------------------------------------------------------------
(* The properties *)

\* The invariant says how an accepted file is split.
LEMMA ExactIsSplit ==
    ASSUME ParserInv
    PROVE  SplitAsWritten
BY DEF ParserInv, Follows, Exact, SplitAsWritten, Accepted

\* The invariant says what an accepted file may lose.
LEMMA AccountedIsBounded ==
    ASSUME TypeOK, ParserInv
    PROVE  LossIsBounded
<1>1. SUFFICES ASSUME Accepted
               PROVE  /\ \A i \in Lost : Excused(i)
                      /\ \A d \in Directions : \A l, m \in DOMAIN parser[d].stmts :
                             /\ l < m => \A i \in Returned(d)[l], j \in Returned(d)[m] : i < j
                             /\ \A i \in Returned(d)[m] : SectionOf(i) = d
  BY DEF LossIsBounded, Excused
<1>2. ~Failed /\ eof /\ (\A d \in Directions : Follows(d)) /\ Sound /\ Done
  BY <1>1 DEF ParserInv, Accepted
<1>3. ASSUME NEW i \in Lost PROVE Excused(i)
  <2>1. /\ i \in Where(SQLKinds)
        /\ \A m \in DOMAIN parser[SectionOf(i)].stmts : i \notin parser[SectionOf(i)].stmts[m]
    BY DEF Lost
  <2>2. PICK d : d = SectionOf(i)
    OBVIOUS
  <2>3. d \in Directions
    <3>1. d # "none"
      BY <2>1, <2>2, <1>2 DEF Sound
    <3>2. d \in {"none", "up", "down"}
      BY <2>2 DEF SectionOf
    <3> QED
      BY <3>1, <3>2 DEF Directions
  <2>4. i \in parser[d].buf \/ Excused(i)
    BY <2>1, <2>2, <2>3, <1>2 DEF Follows, Accounted
  <2>5. i \notin parser[d].buf
    <3>1. parser[d].buf \in SUBSET Nat /\ cleanupStatement(lines, parser[d].buf) = {}
      BY <2>3, <1>2 DEF Done, TypeOK, Parser
    <3>2. lines[i] \notin {"empty", "blank"}
      BY <2>1 DEF Where, SQLKinds
    <3> QED
      BY <3>1, <3>2, CleanupFacts
  <2> QED
    BY <2>4, <2>5
<1>4. ASSUME NEW d \in Directions, NEW l \in DOMAIN parser[d].stmts,
             NEW m \in DOMAIN parser[d].stmts
      PROVE  /\ l < m => \A i \in Returned(d)[l], j \in Returned(d)[m] : i < j
             /\ \A i \in Returned(d)[m] : SectionOf(i) = d
  <2>1. StatementsFit(d)
    BY <1>2 DEF Follows
  <2>2. \A x \in DOMAIN parser[d].stmts : Returned(d)[x] \subseteq parser[d].stmts[x]
    BY DEF Returned, SQLOf
  <2> QED
    BY <2>1, <2>2 DEF StatementsFit
<1> QED
  BY <1>3, <1>4

\* At the end of the file.
LEMMA AcceptedIffPassed ==
    ASSUME TypeOK, ParserInv, EndOfFile, EmptyBlocks = {}
    PROVE  Failed' <=> ~Passed
<1>1. /\ ~Failed /\ (\A d \in Directions : Follows(d)) /\ Sound
      /\ Failed' <=> \E d \in Directions : \/ parser[d].state \in {"start"} \cup InBlock
                                           \/ cleanupStatement(lines, parser[d].buf) # {}
  BY EndOfFileFacts DEF ParserInv
<1>2. Passable /\ InOrder
  BY <1>1 DEF Sound
<1>3. \A d \in Directions : /\ Section \in {"none", "up", "down"}
                            /\ Section = "none" <=> parser[d].state = "start"
                            /\ Inside <=> parser[d].state \in InBlock
  BY <1>1, StateAt DEF Follows
<1>4. "up" \in Directions /\ Directions = {"up", "down"}
  BY DEF Directions
<1>5. /\ lines \in Seq(Annotations \cup TextKinds) /\ Len(lines) \in Nat
      /\ Lines = 1..Len(lines)
  BY LenProperties DEF TypeOK, Lines
<1> DEFINE h == Len(lines) + 1
           D == Where({"Down"})
           UD == Where({"Up", "Down"})
<1>6. \A i \in Lines : i < h /\ ~(i >= h)
  BY <1>5
<1>7. /\ Section = "down" <=> D # {}
      /\ Section = "none" <=> UD = {}
      /\ Section = "none" => D = {}
  <2>1. D \subseteq UD /\ UD \subseteq Lines
    BY DEF Where
  <2>2. Section = CASE \E j \in D : j < h -> "down"
                    [] \A j \in UD : j >= h -> "none"
                    [] OTHER -> "up"
    BY DEF Section, SectionOf
  <2>3. (\E j \in D : j < h) <=> D # {}
    BY <2>1, <1>6
  <2>4. (\A j \in UD : j >= h) <=> UD = {}
    BY <2>1, <1>6
  <2> HIDE DEF D, UD, h
  <2> QED
    BY <2>1, <2>2, <2>3, <2>4
<1>8. Section = "none" <=> Where({"Up"}) = {}
  <2>1. UD = Where({"Up"}) \cup D
    BY DEF Where
  <2>2. D # {} => Where({"Up"}) # {}
    BY <1>2 DEF InOrder, Where
  <2> QED
    BY <2>1, <2>2, <1>7
<1>9. ASSUME NEW d \in Directions, Section # "none"
      PROVE  cleanupStatement(lines, parser[d].buf) # {} <=> Leftover(d)
  <2>1. CASE Section = d
    <3>1. parser[d].buf = Buffered(d)
      BY <2>1, <1>1 DEF Follows, Exact
    <3> QED
      BY <3>1, <1>5, BufferedFacts
  <2>2. CASE Section # d
    <3>1. cleanupStatement(lines, parser[d].buf) = {}
      BY <2>2, <1>1 DEF Follows, BufferFits
    <3>2. ~Leftover(d)
      <4>1. CASE d = "up"
        <5>1. Section = "down"
          BY <4>1, <2>2, <1>3, <1>4, <1>9
        <5> QED
          BY <4>1, <5>1, <1>2, <1>7 DEF Passable
      <4>2. CASE d = "down"
        <5>1. D = {}
          BY <4>2, <2>2, <1>7
        <5>2. \A i : SectionOf(i) # "down"
          BY <5>1 DEF SectionOf
        <5> QED
          BY <4>2, <5>2 DEF Leftover, Open
      <4> QED
        BY <4>1, <4>2, <1>4
    <3> QED
      BY <3>1, <3>2
  <2> QED
    BY <2>1, <2>2
<1>10. Passed <=> Section # "none" /\ ~Inside /\ \A d \in Directions : ~Leftover(d)
  BY <1>2, <1>8 DEF Passed, Inside
<1>11. CASE Section = "none"
  <2>1. Failed'
    BY <1>1, <1>3, <1>4, <1>11
  <2> QED
    BY <2>1, <1>10, <1>11
<1>12. CASE Section # "none"
  <2>1. \A d \in Directions : /\ parser[d].state \in {"start"} \cup InBlock <=> Inside
                              /\ cleanupStatement(lines, parser[d].buf) # {} <=> Leftover(d)
    BY <1>3, <1>9, <1>12
  <2>2. Failed' <=> \E d \in Directions : Inside \/ Leftover(d)
    BY <2>1, <1>1
  <2> QED
    BY <2>2, <1>4, <1>10, <1>12
<1> QED
  BY <1>11, <1>12

\* The action property, of one step.
LEMMA AcceptsStep ==
    ASSUME TypeOK, ParserInv, [Next]_vars, EmptyBlocks' = {}
    PROVE  /\ lines' # lines => (Failed' <=> ~Passable')
           /\ eof' # eof => (Accepted' <=> Passed')
<1>1. ASSUME NEW k \in Kinds, ReadLine(k)
      PROVE  (Failed' <=> ~Passable') /\ eof' = eof
  <2>1. PICK n : Reads(k, n)
    BY <1>1, ReadLineReads
  <2>2. (\A d \in Directions : Follows(d)) /\ Sound
    BY <2>1 DEF Reads, ParserInv
  <2> QED
    BY <2>1, <2>2, <1>1, ReadLineReads, RefusedIffNotPassable
<1>2. ASSUME EndOfFile PROVE lines' = lines /\ (Accepted' <=> Passed')
  <2>1. lines' = lines /\ eof' = TRUE
    BY <1>2, EndOfFileFacts
  <2>2. EmptyBlocks = {}
    BY <2>1, SameReference
  <2>3. Failed' <=> ~Passed
    BY <2>2, <1>2, AcceptedIffPassed
  <2>4. Passed' <=> Passed
    <3>1. BlockAt(Len(lines) + 1)' <=> BlockAt(Len(lines) + 1)
      BY <2>1 DEF BlockAt, Switched, Where, Lines
    <3> QED
      BY <2>1, <3>1, SameReference DEF Passed
  <2> QED
    BY <2>1, <2>3, <2>4 DEF Accepted
<1>3. ASSUME NEW d \in Directions, ReadFails(d) PROVE lines' = lines /\ eof' = eof
  BY <1>3 DEF ReadFails
<1>4. CASE UNCHANGED vars
  BY <1>4 DEF vars
<1> QED
  BY <1>1, <1>2, <1>3, <1>4 DEF Next

\* Both parsers are where the file is and have what the reference says.
LEMMA Invariance == Spec => [](TypeOK /\ BothAgree /\ ParserInv)
<1>1. Init => TypeOK /\ BothAgree /\ ParserInv
  BY InitInv
<1>2. TypeOK /\ BothAgree /\ ParserInv /\ [Next]_vars => TypeOK' /\ BothAgree' /\ ParserInv'
  BY AgreeStep, ParserInvStep
<1> QED
  BY <1>1, <1>2, PTL DEF Spec

\* ParseAllFromFS may take UseTx from the up parser alone: whatever the file,
\* while neither direction has failed both have the same UseTx, the same
\* substitution, and are in the same section and the same block.
THEOREM DirectionsAgreeCorrect == Spec => []DirectionsAgree
<1>1. TypeOK /\ BothAgree => DirectionsAgree
  <2> SUFFICES ASSUME TypeOK, BothAgree, ~Failed PROVE DirectionsAgree
    BY DEF DirectionsAgree
  <2>1. Agree(parser["up"], parser["down"])
    BY DEF BothAgree
  <2>2. \A d \in Directions : parser[d].state \in States \ {"error"}
    BY DEF TypeOK, Parser, Failed
  <2>3. \A x, y \in States : Place(x) = Place(y) =>
            \A S \in {InUp, InDown, InBlock} : x \in S <=> y \in S
    BY DEF States, InUp, InDown, InBlock, Place
  <2> QED
    BY <2>1, <2>2, <2>3 DEF DirectionsAgree, Agree, Directions
<1> QED
  BY <1>1, Invariance, PTL

\* A file of any length that ParseAllFromFS accepts and that has no empty block
\* is split as it is written: each direction gets the statements of its section,
\* whole, in order, each once.
THEOREM SplitAsWrittenCorrect == Spec => []SplitAsWritten
<1>1. TypeOK /\ BothAgree /\ ParserInv => SplitAsWritten
  BY ExactIsSplit
<1> QED
  BY <1>1, Invariance, PTL

\* Whatever the file, an empty block costs the first line of SQL behind a later
\* block at most; no line is returned twice, out of order or for the wrong
\* direction.
THEOREM LossIsBoundedCorrect == Spec => []LossIsBounded
<1>1. TypeOK /\ BothAgree /\ ParserInv => LossIsBounded
  BY AccountedIsBounded
<1> QED
  BY <1>1, Invariance, PTL

\* The two differ by stranded comments only.
LEMMA LeftoverIs == \A d : Leftover(d) <=> Unfinished(d) \/ Stranded(d)
BY DEF Leftover, Unfinished, Stranded

LEMMA PassableIs ==
    /\ Passable => Viable
    /\ Viable => Passable \/ (Where({"Down"}) # {} /\ Stranded("up"))
    /\ Passed => WellFormed
    /\ WellFormed => Passed \/ \E d \in Directions : Stranded(d)
<1>1. /\ Passable => Viable
      /\ Viable => Passable \/ (Where({"Down"}) # {} /\ Stranded("up"))
  BY LeftoverIs DEF Passable, Viable
<1>2. "up" \in Directions
  BY DEF Directions
<1> QED
  BY <1>1, <1>2, LeftoverIs DEF Passed, WellFormed

\* A file without empty blocks is refused at the first line that no well-formed
\* file could go on from, and otherwise accepted at its end exactly if it is
\* well-formed; files with a comment behind white space after the last statement
\* are excepted, and those alone.
THEOREM AcceptsWellFormedCorrect == Spec => AcceptsWellFormed
<1> DEFINE A == EmptyBlocks' = {} =>
                  /\ lines' # lines =>
                        /\ ~Viable' => Failed'
                        /\ Failed' => ~Viable' \/ (Where({"Down"})' # {} /\ Stranded("up")')
                  /\ eof' # eof =>
                        /\ Accepted' => WellFormed'
                        /\ WellFormed' => Accepted' \/ \E d \in Directions : Stranded(d)'
<1>1. TypeOK /\ BothAgree /\ ParserInv /\ [Next]_vars => A
  <2> SUFFICES ASSUME TypeOK, ParserInv, [Next]_vars, EmptyBlocks' = {} PROVE A
    OBVIOUS
  <2>1. /\ lines' # lines => (Failed' <=> ~Passable')
        /\ eof' # eof => (Accepted' <=> Passed')
    BY AcceptsStep
  <2>2. (/\ Passable => Viable
         /\ Viable => Passable \/ (Where({"Down"}) # {} /\ Stranded("up"))
         /\ Passed => WellFormed
         /\ WellFormed => Passed \/ \E d \in Directions : Stranded(d))'
    BY PassableIs, PTL
  <2> QED
    BY <2>1, <2>2
<1>2. TypeOK /\ BothAgree /\ ParserInv /\ [Next]_vars => [A]_vars
  BY <1>1
<1>3. Spec => [][A]_vars
  BY <1>2, Invariance, PTL DEF Spec
<1> QED
  BY <1>3 DEF AcceptsWellFormed
=============================================================================
