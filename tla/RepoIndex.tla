------------------------------ MODULE RepoIndex -----------------------------
(***************************************************************************)
(* The repository index of one review (repo_index.rs) and what review.rs   *)
(* makes of it: the tarball is read entry by entry under a cap on its      *)
(* text, the identifiers of the diff are collected (diff_digest.rs) and    *)
(* looked up for the first prompt within the repository's own limit, and   *)
(* then the model's tool calls are answered from it.                       *)
(***************************************************************************)
EXTENDS SourceText, RepoConfig, Selection

CONSTANTS
  MAX_INDEX_BYTES,     \* of all texts (50_000_000)
  MAX_FILE_BYTES,      \* of one file (1_000_000)
  MAX_IDENTS,          \* identifiers taken from the diff (300)
  MAX_HINTS,           \* definitions in the first prompt (40)
  HINT_BYTES,          \* of a hint beside its signature, at most
  TOOL_DEFS,           \* definitions in one answer (3)
  GREP_DEFAULT, GREP_MAX,  \* 50, 200
  READ_RETURN_CAP,     \* 60_000
  LIST_CAP, PATH_BYTES, \* 800; the longest path
  NOTE_BYTES,          \* an error's own words, or a mark that something was cut
  ECHO,                \* how often an error repeats what was asked, at most
  Paths, RustPaths,    \* file names by their order, those that end in ".rs"
  Asked,               \* bytes of what the model sends with a call
  Entries,             \* entries a tarball may have
  Raws,                \* configurations a repository may have
  Unusable,            \* names shorter than three letters and keywords
  MaxEntries,          \* bound: entries of the tarball
  MaxTokens            \* bound: identifiers on the lines of the diff

NoPath == 0

IsEntry(e) ==
  /\ e.is_file \in BOOLEAN /\ e.rel \in Paths \cup {NoPath}
  /\ e.encoding \in {"utf8", "binary", "other"}
  /\ IsText(e.text) /\ e.size = Bytes(e.text, 1, Len(e.text))

ASSUME RepoIndexAssumption ==
  /\ {MAX_INDEX_BYTES, MAX_FILE_BYTES, MAX_IDENTS, MAX_HINTS, HINT_BYTES, TOOL_DEFS,
      GREP_DEFAULT, GREP_MAX, READ_RETURN_CAP, LIST_CAP, PATH_BYTES,
      NOTE_BYTES, ECHO, MaxEntries, MaxTokens} \subseteq Nat \ {0}
  /\ READ_RETURN_CAP >= CHAR_BYTES /\ Asked \subseteq Nat
  /\ Paths \subseteq Nat \ {0} /\ RustPaths \subseteq Paths
  /\ Unusable \subseteq Names
  /\ \A e \in Entries : IsEntry(e) /\ e.size \in Nat
  /\ \A r \in Raws : IsRaw(r)

VARIABLES
  pc,       \* where the review stands
  config,   \* the resolved configuration
  read,     \* history: the entries of the tarball so far
  files,    \* RepoIndex.files
  total,    \* from_tarball: bytes of text so far
  symbols,  \* RepoIndex.symbols
  tokens,   \* identifiers of the diff looked at
  idents,   \* referenced_identifiers
  at,       \* referenced_defs_context: the next of them
  hints,    \* its lines: a name and a place each
  used,     \* their bytes
  answer    \* the last tool call and what it was answered

building == <<read, files, total, symbols>>
context == <<tokens, idents, at, hints, used>>
vars == <<pc, config, building, context, answer>>

NoFiles == [p \in {} |-> <<>>]
NoSymbols == [n \in Names |-> {}]
NoAnswer == [tool |-> "none", asked |-> 0, size |-> 0]

Goto(from, to) == pc = from /\ pc' = to

-----------------------------------------------------------------------------
(* from_tarball *)

\* A review is on: the configuration could be read and has it enabled.
Init ==
  /\ pc = "tarball"
  /\ config \in {c \in {resolve(r) : r \in {q \in Raws : Resolves(q)}} : Reviews(c)}
  /\ read = <<>> /\ files = NoFiles /\ total = 0 /\ symbols = NoSymbols
  /\ tokens = 0 /\ idents = <<>> /\ at = 1 /\ hints = <<>> /\ used = 0
  /\ answer = NoAnswer

\* Directories and links, large files, the top directory itself, and what is
\* not text.
Skipped(e) ==
  \/ ~e.is_file \/ e.size > MAX_FILE_BYTES \/ e.rel = NoPath
  \/ e.encoding # "utf8"

\* MUTANT of Insert: the first of two entries of one path stays.
InsertOnce(e) == IF e.rel \in DOMAIN files THEN files
                 ELSE [p \in DOMAIN files \cup {e.rel} |->
                         IF p = e.rel THEN e.text ELSE files[p]]

\* BTreeMap::insert.
Insert(e) == [p \in DOMAIN files \cup {e.rel} |-> IF p = e.rel THEN e.text ELSE files[p]]

Entry(e) ==
  /\ pc = "tarball" /\ Len(read) < MaxEntries
  /\ read' = Append(read, e)
  /\ \/ /\ Skipped(e)
        /\ UNCHANGED <<pc, files, total>>
     \/ /\ ~Skipped(e) /\ total + e.size <= MAX_INDEX_BYTES
        /\ total' = total + e.size
        /\ files' = Insert(e)
        /\ UNCHANGED pc
     \/ /\ ~Skipped(e) /\ total + e.size > MAX_INDEX_BYTES
        /\ total' = total + e.size
        /\ pc' = "diff only" /\ files' = NoFiles
  /\ UNCHANGED <<config, symbols, context, answer>>

\* The last entry is read: from_files.
Build ==
  /\ Goto("tarball", "identifiers")
  /\ symbols' = build_symbols(files, RustPaths)
  /\ UNCHANGED <<config, read, files, total, context, answer>>

\* No head, no tarball, or one above its own cap: a review without an index.
NoTarball ==
  /\ read = <<>> /\ Goto("tarball", "diff only")
  /\ UNCHANGED <<config, building, context, answer>>

\* A damaged archive ends the job.
Damaged ==
  /\ Goto("tarball", "failed")
  /\ UNCHANGED <<config, building, context, answer>>

-----------------------------------------------------------------------------
(* referenced_identifiers, then referenced_defs_context *)

\* MUTANT of Taken: short names and keywords are taken too.
TakenAny(n) == \A i \in DOMAIN idents : idents[i] # n

\* Three letters, no keyword, and not there yet.
Taken(n) == n \notin Unusable /\ \A i \in DOMAIN idents : idents[i] # n

\* The next identifier of the patches, on an added line or on another; an
\* added line that starts with two pluses passes for a header.
Identifier(n, line) ==
  /\ pc = "identifiers" /\ tokens < MaxTokens
  /\ tokens' = tokens + 1
  /\ \/ /\ line = "added" /\ Taken(n)
        /\ idents' = Append(idents, n)
        /\ pc' = IF Len(idents) + 1 >= MAX_IDENTS THEN "context" ELSE pc
     \/ /\ line # "added" \/ ~Taken(n)
        /\ UNCHANGED <<pc, idents>>
  /\ UNCHANGED <<config, building, at, hints, used, answer>>

EndOfDiff ==
  /\ Goto("identifiers", "context")
  /\ UNCHANGED <<config, building, context, answer>>

\* The signature's place: the first the symbol table has.
Site(n) == CHOOSE s \in symbols[n] : \A t \in symbols[n] : ~Before(t, s)

SizeOfHint(s) == HINT_BYTES + files[s[1]][s[2]].signature

\* MUTANT of Room: only the number of hints is looked at.
RoomForMore == Len(hints) < MAX_HINTS

\* Both limits, before a hint is added.
Room == Len(hints) < MAX_HINTS /\ used < config.limits["max_context_bytes"]

Hint ==
  /\ pc = "context" /\ at <= Len(idents) /\ Room
  /\ at' = at + 1
  /\ \/ /\ symbols[idents[at]] # {}
        /\ LET s == Site(idents[at])
           IN  /\ hints' = Append(hints, [name |-> idents[at], site |-> s])
               /\ used' = used + SizeOfHint(s)
     \/ /\ symbols[idents[at]] = {}
        /\ UNCHANGED <<hints, used>>
  /\ UNCHANGED <<pc, config, building, tokens, idents, answer>>

\* MUTANT of EndOfContext: the loop is left with its first hint.
EndOfContextEarly ==
  /\ at > Len(idents) \/ hints # <<>>
  /\ Goto("context", "tools")
  /\ UNCHANGED <<config, building, context, answer>>

EndOfContext ==
  /\ at > Len(idents) \/ ~Room
  /\ Goto("context", "tools")
  /\ UNCHANGED <<config, building, context, answer>>

-----------------------------------------------------------------------------
(* dispatch_tool. The size of an answer is that of the texts it carries,   *)
(* before JSON escapes them.                                               *)

Hits(p) == {s \in Places(files) : p \in files[s[1]][s[2]].matches}

\* MUTANT of grep_cap: whatever the model asks for.
grep_cap_asked(max) == max

grep_cap(max) == clamp(max, 1, GREP_MAX)

\* The model may leave max_results out, or name any number.
grep(p, max) ==
  LET hits == FirstOf(grep_cap(max), Hits(p))
  IN  [tool |-> "grep", hits |-> hits, asked |-> 0,
       size |-> SumFunction([s \in hits |-> PATH_BYTES + files[s[1]][s[2]].snippet])]

\* An error names what the model asked for: the name, the path or the tool
\* there is not, or the pattern that does not compile (regex shows it, and
\* points into it).
Error(asked, times) ==
  [tool |-> "error", asked |-> asked, size |-> NOTE_BYTES + times * asked]

definition(n, asked) ==
  IF symbols[n] = {} THEN Error(asked, 1)
  ELSE LET sites == FirstOf(TOOL_DEFS, symbols[n])
           bodies == [s \in sites |-> extract_body(files[s[1]], s[2])]
       IN  [tool |-> "definition", bodies |-> bodies, asked |-> asked,
            size |-> SumFunction([s \in sites |-> PATH_BYTES + bodies[s].size + NOTE_BYTES])]

\* floor_char_boundary: the cut is where a character begins, so that up to
\* three bytes more are lost.
read_file(p, asked, lost) ==
  IF p \notin DOMAIN files THEN Error(asked, 1)
  ELSE LET size == Bytes(files[p], 1, Len(files[p]))
           cut == size > READ_RETURN_CAP
       IN  [tool |-> "read_file", path |-> p, cut |-> cut, asked |-> asked,
            size |-> PATH_BYTES + IF cut THEN READ_RETURN_CAP - lost + NOTE_BYTES ELSE size]

\* contains: the paths the model's filter lets pass.
list_files(contains) ==
  LET listed == {p \in DOMAIN files \cap contains :
                   Cardinality({q \in DOMAIN files \cap contains : q < p}) < LIST_CAP}
  IN  [tool |-> "list_files", paths |-> listed, asked |-> 0,
       size |-> Cardinality(listed) * PATH_BYTES]

\* A pattern that is empty or does not compile, or a tool there is not, is
\* answered with an error, too.
dispatch_tool ==
  /\ pc = "tools"
  /\ \/ \E p \in Patterns, max \in {0, GREP_DEFAULT, GREP_MAX + 1} : answer' = grep(p, max)
     \/ \E n \in Names, asked \in Asked : answer' = definition(n, asked)
     \/ \E p \in Paths, asked \in Asked, lost \in 0..(CHAR_BYTES - 1) :
          answer' = read_file(p, asked, lost)
     \/ \E contains \in {Paths, RustPaths} : answer' = list_files(contains)
     \/ \E asked \in Asked, times \in 0..ECHO : answer' = Error(asked, times)
  /\ UNCHANGED <<pc, config, building, context>>

-----------------------------------------------------------------------------
from_tarball == (\E e \in Entries : Entry(e)) \/ Build \/ NoTarball \/ Damaged

referenced_identifiers ==
  \/ \E n \in Names, line \in {"added", "header", "other"} : Identifier(n, line)
  \/ EndOfDiff

referenced_defs_context == Hint \/ EndOfContext

Next == from_tarball \/ referenced_identifiers \/ referenced_defs_context \/ dispatch_tool

Spec == Init /\ [][Next]_vars

-----------------------------------------------------------------------------
\* The shape of the state.
TypeOK ==
  /\ pc \in {"tarball", "diff only", "failed", "identifiers", "context", "tools"}
  /\ config \in ResolvedConfig
  /\ read \in Seq(Entries) /\ total \in Nat
  /\ DOMAIN files \subseteq Paths /\ \A p \in DOMAIN files : IsText(files[p])
  /\ \A n \in Names : symbols[n] \subseteq Places(files)
  /\ tokens \in Nat /\ idents \in Seq(Names \ Unusable)
  /\ at \in 1..(Len(idents) + 1)
  /\ hints \in Seq([name : Names, site : Places(files)]) /\ used \in Nat
  /\ answer.size \in Nat

\* The entries that count for the index.
Counted == {i \in DOMAIN read : ~Skipped(read[i])}

\* The index holds the last text of every path that was read, and is given
\* up for the diff alone exactly when the texts together pass the cap.
IndexFaithful ==
  /\ pc \in {"tarball", "identifiers", "context", "tools"} =>
       /\ DOMAIN files = {read[i].rel : i \in Counted}
       /\ \A i \in Counted :
            (\A k \in Counted : k > i => read[k].rel # read[i].rel) =>
              files[read[i].rel] = read[i].text
       /\ total <= MAX_INDEX_BYTES
  /\ pc = "diff only" /\ read # <<>> => total > MAX_INDEX_BYTES
  /\ total = SumFunction([i \in Counted |-> read[i].size])

\* The definitions sent with the diff keep to their number, and pass the
\* repository's own max_context_bytes by less than one of them.
ContextBounded ==
  /\ Len(hints) <= MAX_HINTS
  /\ used < config.limits["max_context_bytes"] + HINT_BYTES + SignatureBytes

\* Every name of the diff that has a definition has its hint, in the order of
\* the diff, up to where one of the limits was reached: none is left out while
\* there is room, and no configuration leaves the model without any.
ContextComplete ==
  pc = "tools" =>
    LET known == At(idents, {i \in 1..(at - 1) : symbols[idents[i]] # {}})
    IN  /\ [i \in DOMAIN hints |-> hints[i].name] = known
        /\ at <= Len(idents) =>
             /\ hints # <<>>
             /\ \/ Len(hints) = MAX_HINTS
                \/ used >= config.limits["max_context_bytes"]

\* "From the definition line until braces balance (or a ; for declarations),
\* capped": a definition the model asks for is the whole item and nothing
\* behind it, unless one of the caps ended it; and a body that its bytes have
\* cut says so. (Items of the kind "other" are excepted: the loop counts braces
\* in literals too, and ends where those of a header balance.)
BodyExact ==
  answer.tool = "definition" =>
    \A s \in DOMAIN answer.bodies :
      LET text == files[s[1]]
          body == answer.bodies[s]
      IN  text[s[2]].kind # "other" =>
            /\ body.last <= EndOf(text, s[2])
            /\ body.last < EndOf(text, s[2]) =>
                 \/ body.marked
                 \/ body.last = s[2] + BODY_LINES - 1
            /\ body.marked => body.last < EndOf(text, s[2]) /\ body.size >= BODY_BYTES

\* What one call of a tool adds to the conversation at most (ReviewSession's
\* MaxOutput, for a turn of one call): found or not, it has a bound of its own,
\* but for an error, which grows with what the model has sent. The last line
\* of a body counts in full, and may be as long as a file.
MaxAnswer(tool, asked) ==
  CASE tool = "grep"       -> GREP_MAX * (PATH_BYTES + SnippetBytes)
    [] tool = "definition" -> TOOL_DEFS * (PATH_BYTES + BODY_BYTES + MAX_FILE_BYTES + NOTE_BYTES)
    [] tool = "read_file"  -> PATH_BYTES + READ_RETURN_CAP + NOTE_BYTES
    [] tool = "list_files" -> LIST_CAP * PATH_BYTES
    [] OTHER               -> NOTE_BYTES + ECHO * asked

AnswersBounded == answer.size <= MaxAnswer(answer.tool, answer.asked)

=============================================================================
