---------------------------- MODULE MCRepoIndex -----------------------------
(* An instance of RepoIndex for TLC: eleven entries, two of which define   *)
(* the same names, second texts of a path already read, definitions over   *)
(* each cap of a body, two whose signatures are not ASCII, a document, and *)
(* four that are left out. A body is cut after four lines or nine bytes, a *)
(* signature after one character, an answer lists two definitions.         *)
EXTENDS RepoIndex

\* A line whose characters have the given number of bytes.
Wider(bytes, name, opens, closes, size, span, kind) ==
  [defines |-> name, matches |-> IF name = NoName THEN {} ELSE {"fn"},
   opens |-> opens, closes |-> closes, semi |-> kind = "semi", size |-> size,
   signature |-> Cut(size, bytes * SIG_CHARS), snippet |-> Cut(size, bytes * GREP_LINE_CAP),
   span |-> span, kind |-> kind]
Line(name, opens, closes, size, span, kind) ==
  Wider(1, name, opens, closes, size, span, kind)
Plain(opens, closes, size) == Line(NoName, opens, closes, size, 0, "other")
Says(l, p) == [l EXCEPT !.matches = @ \cup {p}]

\* fn run() / where T / { / } and struct Cfg; behind it.
Spread == <<Line("run", 0, 0, 1, 4, "braces"), Plain(0, 0, 1), Plain(1, 0, 1), Plain(0, 1, 1),
            Line("Cfg", 0, 0, 1, 1, "semi")>>
\* fn new() {} / fn run() { / if { } else { / } } / a constant with a brace in a literal
Dense == <<Says(Line("new", 1, 1, 1, 1, "braces"), "todo"), Line("run", 1, 0, 2, 3, "braces"),
           Says(Plain(2, 1, 2), "todo"), Plain(0, 2, 1), Line("new", 1, 0, 1, 1, "other")>>
\* A body of five lines; one with a line that fills it.
Tall == <<Line("new", 1, 0, 1, 5, "braces"), Plain(0, 0, 1), Plain(0, 0, 1), Plain(0, 0, 1),
          Plain(0, 1, 1)>>
Wide == <<Line("Cfg", 1, 0, 2, 4, "braces"), Plain(0, 0, 7), Plain(0, 0, 1), Plain(0, 1, 1)>>
\* Two names in letters of four bytes, the second with a parameter in braces on
\* a line of its own.
Foreign == <<Says(Wider(4, "run", 1, 1, 4, 1, "braces"), "todo"),
             Says(Wider(4, "new", 0, 0, 4, 3, "other"), "todo"),
             Plain(1, 1, 1), Plain(1, 1, 1)>>
Prose == <<Says(Wider(4, "new", 0, 0, 4, 1, "other"), "todo"),
           Says(Wider(4, NoName, 0, 0, 5, 0, "other"), "todo")>>

Source(path, text) == [is_file |-> TRUE, rel |-> path, encoding |-> "utf8", text |-> text,
                       size |-> Bytes(text, 1, Len(text))]

SomeEntries == {
  Source(1, Spread), Source(1, Dense), Source(2, Dense), Source(2, Tall), Source(2, Wide),
  Source(2, Foreign), Source(3, Prose),
  [Source(3, Prose) EXCEPT !.is_file = FALSE], [Source(2, Tall) EXCEPT !.encoding = "binary"],
  Source(1, Dense \o Wide), [Source(3, <<>>) EXCEPT !.rel = NoPath]}

Raw(file, flags, limits) == [file |-> file, flags |-> flags, limits |-> limits]
Nothing == [k \in {} |-> 0]
SomeRaws == {
  Raw("absent", Nothing, Nothing), Raw("malformed", Nothing, Nothing),
  Raw("parsed", Nothing, [max_context_bytes |-> 0]),
  Raw("parsed", [pr_review_enabled |-> FALSE], Nothing),
  Raw("parsed", [enabled |-> TRUE], [max_context_bytes |-> 100])}

SmallLimits == [k \in LimitKeys |-> [default |-> 4, low |-> 2, high |-> 9]]

=============================================================================
