----------------------------- MODULE CollectMC -----------------------------
(* TLC instances of Collect. *)
EXTENDS Collect

Named(v, ext, name, content) ==
    [version |-> v, ext |-> ext, padded |-> FALSE, name |-> name, content |-> content]

\* Two SQL files whose names are not in the order of their versions, a Go file
\* with the version of one of them, a timestamp and a name without a version.
SomeFiles == {Named(2, "sql", "a", 1), Named(10, "sql", "a", 2), Named(10, "go", "a", 3),
              Named(21, "go", "a", 4), Named(0, "sql", "b", 5)}

FileNames == {f.name : f \in SomeFiles}
JustA     == {"a"}
AllTexts  == 1..7
NewTexts  == {6, 7}

\* "20_" to "23_" stand for timestamps; 10 can be parsed, but is before the epoch.
Timestamps == {10} \cup 20..23
InPath     == {23}

\* "00000_", ..., "0_", "10_", ..., "19_", "1_", "20_", ....
NameOrder == [i \in 1..24 |-> <<i - 1, TRUE>>]
             \o <<<<0, FALSE>>>> \o [i \in 1..10 |-> <<i + 9, FALSE>>]
             \o <<<<1, FALSE>>, <<20, FALSE>>, <<21, FALSE>>, <<22, FALSE>>, <<23, FALSE>>>>
             \o [i \in 1..8 |-> <<i + 1, FALSE>>]

Name(v) == [ext |-> "go", version |-> v]

Go(v, source, ok) == [version |-> v, source |-> source, funcsOK |-> ok]

\* init functions: with a file and with a name that has no version.
Registrations == {Name(21), Name(0)}

\* A list that is refused half way, and one that is accepted.
Lists == {<<Go(4, NoSource, TRUE), Go(5, Name(10), TRUE)>>, <<Go(10, Name(10), TRUE)>>}

With(o, a) == [with |-> o, args |-> a]

\* Options that have something to do with each other.
Groups == {{With("session", <<"s">>), With("table", <<"t">>)},
           {With("logger", <<"l">>), With("logger", <<"m">>), With("slog", <<"l">>)},
           {With("store", <<"s">>), With("tableName", <<"a">>), With("tableName", <<"b">>)},
           {With("excludeNames", <<Base(Named(2, "sql", "a", 1)), Base(Named(10, "go", "a", 3))>>),
            With("excludeNames", <<Base(Named(10, "go", "a", 3))>>)},
           {With("excludeVersions", <<10>>), With("excludeVersions", <<2, 2>>)},
           {With("goMigrations", <<Go(3, NoSource, TRUE)>>),
            With("noGlobal", <<TRUE>>), With("noGlobal", <<FALSE>>)}}

\* Options that are refused whatever the others are, and a flag used later.
Alone == {With("table", <<>>), With("slog", <<>>), With("store", <<>>), With("tableName", <<>>),
          With("goMigrations", <<Go(4, NoSource, FALSE)>>), With("isolateDDL", <<TRUE>>)}

Options == {<<>>} \cup {<<o>> : o \in Alone \cup UNION Groups}
           \cup UNION {{<<o, p>> : o, p \in G} : G \in Groups}
=============================================================================
