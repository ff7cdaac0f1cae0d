----------------------------- MODULE SourceText -----------------------------
(***************************************************************************)
(* What repo_index.rs reads in source text, line by line: which name a     *)
(* line defines (its regexes), which patterns match it, and the braces by  *)
(* which extract_body finds the end of a definition.                       *)
(*                                                                         *)
(* A text also says what only a parser would know: how many lines the item *)
(* that starts on a line has, and how it is delimited.                     *)
(***************************************************************************)
EXTENDS Integers, Sequences, FiniteSets, FiniteSetsExt

CONSTANTS
  Names,            \* symbols, the part of speech "no name" not among them
  NoName,           \* a line that defines nothing
  Patterns,         \* regular expressions that compile
  BODY_LINES,       \* extract_body: MAX_LINES (120)
  BODY_BYTES,       \* extract_body: MAX_BYTES (6_000)
  SIG_CHARS,        \* characters of a signature (200)
  GREP_LINE_CAP,    \* characters of a matching line (300)
  SITES_PER_NAME    \* definition sites kept of one name (8)

\* Of a character in UTF-8, of a signature and of a matching line, at most.
CHAR_BYTES == 4
SignatureBytes == CHAR_BYTES * SIG_CHARS
SnippetBytes == CHAR_BYTES * GREP_LINE_CAP

Cut(size, n) == IF size < n THEN size ELSE n

(* defines: the name captured. opens, closes: the braces on the line, in   *)
(* code or not. semi: it ends with a semicolon. size: its bytes with the   *)
(* newline; signature, snippet: the bytes of its first SIG_CHARS (without  *)
(* the space around it) and GREP_LINE_CAP characters. Of the item that     *)
(* starts here: span lines, delimited by braces in code ("braces"), by one *)
(* semicolon on its line ("semi"), or otherwise ("other": an initialiser   *)
(* over several lines, braces in literals, or braces that close again in   *)
(* the header, as of a parameter Point { x, y }: Point on its own line).   *)
IsLine(l) ==
  /\ l.defines \in Names \cup {NoName} /\ l.matches \subseteq Patterns
  /\ l.opens \in Nat /\ l.closes \in Nat /\ l.semi \in BOOLEAN /\ l.size \in Nat \ {0}
  /\ l.signature \in 0..Cut(l.size, SignatureBytes)
  /\ l.snippet \in 0..Cut(l.size, SnippetBytes)
  /\ l.span \in Nat /\ l.kind \in {"braces", "semi", "other"}
  /\ l.defines # NoName => l.span > 0

Bytes(text, from, to) == SumFunction([i \in from..to |-> text[i].size])
Depth(text, from, to) == SumFunction([i \in from..to |-> text[i].opens - text[i].closes])

\* The lines of the item that starts on line i are all there.
EndOf(text, i) == i + text[i].span - 1

\* What the two kinds that extract_body is made for mean: an item in braces has
\* no line ending in a semicolon before its first brace, is open at the end of
\* each line from there to its last and closed at its end; one that ends with a
\* semicolon is a line without braces. Of the kind "other" nothing is said.
WellFormed(text, i) ==
  /\ EndOf(text, i) <= Len(text)
  /\ text[i].kind = "braces" =>
       LET opened(k) == \E h \in i..k : text[h].opens > 0
       IN  /\ opened(EndOf(text, i)) /\ Depth(text, i, EndOf(text, i)) = 0
           /\ \A k \in i..(EndOf(text, i) - 1) :
                IF opened(k) THEN Depth(text, i, k) > 0 ELSE ~text[k].semi
  /\ text[i].kind = "semi" => text[i].span = 1 /\ text[i].semi /\ text[i].opens = 0

IsText(text) ==
  /\ text \in Seq({text[i] : i \in DOMAIN text})
  /\ \A i \in DOMAIN text :
       IsLine(text[i]) /\ (text[i].defines # NoName => WellFormed(text, i))

ASSUME SourceTextAssumption ==
  /\ NoName \notin Names
  /\ BODY_LINES \in Nat \ {0} /\ BODY_BYTES \in Nat
  /\ SIG_CHARS \in Nat /\ GREP_LINE_CAP \in Nat \ {0}
  /\ SITES_PER_NAME \in Nat \ {0}

-----------------------------------------------------------------------------
(* extract_body *)

\* MUTANT of Balanced: a header without a brace is taken for the whole item.
BalancedAtOnce(text, start, i) ==
  \/ Depth(text, start, i) <= 0
  \/ text[i].semi

\* The loop looks at the balance at the end of a line: closed again, or not
\* yet opened and ending in a semicolon.
Balanced(text, start, i) ==
  IF \E k \in start..i : text[k].opens > 0
  THEN Depth(text, start, i) <= 0
  ELSE text[i].semi

\* The balance is asked for first: a body that is complete is not marked.
Truncated(text, start, i) ==
  ~Balanced(text, start, i) /\ Bytes(text, start, i) >= BODY_BYTES

\* From the line of the definition to the first on which the loop breaks, or
\* the last it may take.
extract_body(text, start) ==
  LET end == IF start + BODY_LINES - 1 < Len(text) THEN start + BODY_LINES - 1 ELSE Len(text)
      breaks == {i \in start..end : Balanced(text, start, i) \/ Truncated(text, start, i)}
      last == IF breaks = {} THEN end ELSE Min(breaks)
  IN  [last |-> last, marked |-> Truncated(text, start, last),
       size |-> Bytes(text, start, last)]

-----------------------------------------------------------------------------
(* A repository's texts: files[p] for the paths p, which are numbers in    *)
(* the order of their names; rust holds those that end in ".rs".           *)

Places(files) == UNION {{p} \X DOMAIN files[p] : p \in DOMAIN files}

Before(s, t) == s[1] < t[1] \/ (s[1] = t[1] /\ s[2] < t[2])

\* The first n of a set of places: what a loop over the files in order that
\* stops at n has found.
FirstOf(n, places) == {s \in places : Cardinality({t \in places : Before(t, s)}) < n}

\* The name's definitions, as far as the symbol table keeps them.
build_symbols(files, rust) ==
  [n \in Names |->
     FirstOf(SITES_PER_NAME,
             {s \in Places(files) : s[1] \in rust /\ files[s[1]][s[2]].defines = n})]

=============================================================================
