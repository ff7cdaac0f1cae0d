--------------------------- MODULE MCReviewSession --------------------------
(* Instances of ReviewSession for TLC: two lenses, two turns with tools in *)
(* the first pass, one in the retry and in each lens, and reviews of at    *)
(* most two findings.                                                      *)
EXTENDS Conversation, FindingScan

F(sev, line, text) == [sev |-> sev, line |-> line, text |-> text, over |-> "nothing"]

\* On a changed line; the same, rated lower; off by one; outside; no line.
Sharp == F(0, 4, "sql")
Blunt == F(2, 4, "sql")
Drifted == F(1, 6, "loop")
Outside == F(1, 9, "loop")
Nowhere == F(3, NoLine, "docs")
\* Longer than a description, or a category, may be; on the line git's marker
\* adds to the count.
Wordy == [F(0, 4, "rant") EXCEPT !.over = "description"]
Ornate == [F(1, 9, "docs") EXCEPT !.over = "field"]
Beyond == F(1, 6, "docs")

Answer(json, canary, summary, fs) ==
  [json |-> json, canary |-> canary, summary |-> summary, findings |-> fs]
Whole(fs) == Answer("whole", "right", "short", fs)

SomeAnswers == {
  Whole(<<>>), Whole(<<Nowhere, Drifted>>), Whole(<<Blunt, Outside>>),
  Whole(<<Nowhere, Wordy, Sharp>>), Whole(<<Ornate>>),
  Answer("whole", "right", "long", <<Beyond>>),
  Answer("broken", "right", "short", <<Outside, Outside, Blunt, Drifted>>),
  Answer("whole", "wrong", "short", <<Drifted>>),
  Answer("broken", "none", "short", <<>>)}

\* Two calls, one without an id.
SomeTurns == {<<"a", NoId>>}

\* A push moves the hunk down by three lines. It ends the file without a
\* newline, which commentable_lines counts as a line (run diff_eof).
Hunk == [v \in 0..1 |-> (3 + 3 * v)..(5 + 3 * v)]
Counted == [v \in 0..1 |-> (3 + 3 * v)..(6 + 3 * v)]
Code == [v \in 0..1 |-> [sql |-> {4 + 3 * v}, loop |-> {5 + 3 * v, 11}, docs |-> {}, rant |-> {}]]

\* {}; {"}"}; {"\"{"}; {{}}; {[]}; {"\\"}; and what such strings hold.
Quoted(s) == <<"lbrace", "quote">> \o s \o <<"quote", "rbrace">>
SomeStrings == {<<"rbrace">>, <<"backslash", "quote", "lbrace">>, <<"backslash", "backslash">>}
SomeObjects == {<<"lbrace", "rbrace">>, <<"lbrace", "lbrace", "rbrace", "rbrace">>,
                <<"lbrace", "lbracket", "rbracket", "rbrace">>}
               \cup {Quoted(s) : s \in SomeStrings}

\* The scans of salvage_pr_review, on three of these objects cut anywhere.
ASSUME CutsSalvaged == SalvageExact

=============================================================================
