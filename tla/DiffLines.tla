------------------------------ MODULE DiffLines -----------------------------
(***************************************************************************)
(* The line numbers of a pull request's diff (diff_digest.rs).             *)
(*                                                                         *)
(* Four functions read the same patches: build_digest cuts each patch to a *)
(* budget shared by all files, annotate_patch labels the lines that are    *)
(* left, line_content_by_file and commentable_lines read the whole patch.  *)
(* Each counts for itself the lines of the new side; here they read in     *)
(* step, a line at a time, next to the count git itself would make.        *)
(*                                                                         *)
(* A line is its kind and its length in bytes: that is enough to say where *)
(* the cut falls and what annotate_patch finds there.                      *)
(***************************************************************************)
EXTENDS Integers, FiniteSets

CONSTANTS
  max_files, max_patch_bytes,  \* the repository's limits
  MIN_PER_FILE_BYTES,          \* 2_000
  MaxFiles,                    \* bound: files of the pull request
  MaxBytes,                    \* bound: bytes of a patch
  LineBytes, HeaderBytes,      \* bound: bytes of a line, of a hunk header
  Starts                       \* bound: numbers hunk headers name

ASSUME DiffAssumption ==
  /\ max_files \in Nat /\ max_patch_bytes \in Nat /\ MIN_PER_FILE_BYTES \in Nat
  /\ MaxFiles \in Nat /\ MaxBytes \in Nat /\ Starts \subseteq Nat
  /\ LineBytes \subseteq Nat \ {0} /\ HeaderBytes \subseteq Nat \ {0, 1}

VARIABLES
  total,         \* files of the pull request
  file,          \* the file being read, or the last one read
  reading,       \* a patch is being read
  budget,        \* build_digest: what this file's patch may take
  remaining,     \* build_digest: what all files may still take
  length,        \* bytes of this patch so far
  labels,        \* annotate_patch: <<number, line of the patch it is put on>>
  cut_labels,    \* annotate_patch: numbers put on what the cut has left
  labels_line,   \* its new_line
  content,       \* line_content_by_file: number -> line whose text it has
  content_line,  \* its new_line
  commentable,   \* commentable_lines
  comment_line,  \* its new_line
  real,          \* the numbers of the new side's lines in the patch
  next,          \* the number of the new side's next line
  last,          \* what the last line was
  ended,         \* the sides whose end without a newline has been marked
  retained       \* history: bytes of all patches in the digest

counts == <<labels, cut_labels, labels_line, content, content_line, commentable, comment_line>>
git == <<real, next, last, ended>>
files == <<total, file, reading, budget, remaining, retained>>
vars == <<files, length, counts, git>>

OnNewSide == {"add", "context", "blank"}
Kinds == OnNewSide \cup {"del", "eof"}  \* eof: "\ No newline at end of file"

\* For what is not a line of the file.
NoLine == 0

SmallerOf(a, b) == IF a <= b THEN a ELSE b
LargerOf(a, b) == IF a >= b THEN a ELSE b

selected == SmallerOf(total, max_files)
per_file_budget ==
  LargerOf(max_patch_bytes \div LargerOf(selected, 1), MIN_PER_FILE_BYTES)

Init ==
  /\ total \in 0..MaxFiles /\ file = 0 /\ reading = FALSE
  /\ budget = 0 /\ remaining = max_patch_bytes /\ retained = 0
  /\ length = 0
  /\ labels = {} /\ cut_labels = {} /\ content = <<>> /\ commentable = {}
  /\ labels_line = 0 /\ content_line = 0 /\ comment_line = 0
  /\ real = {} /\ next = 0 /\ last = "start" /\ ended = "none"

\* MUTANT of Budget: the floor is granted whatever is left.
BudgetFloor(f) == IF f <= selected THEN per_file_budget ELSE 0

\* A selected file's share or the floor, but never more than is left; the
\* files beyond max_files are not in the digest.
Budget(f) == IF f <= selected THEN SmallerOf(per_file_budget, remaining) ELSE 0

\* Each function starts a file anew.
Open ==
  /\ ~reading /\ file < total
  /\ file' = file + 1 /\ reading' = TRUE
  /\ budget' = Budget(file + 1)
  /\ length' = 0
  /\ labels' = {} /\ cut_labels' = {} /\ content' = <<>> /\ commentable' = {}
  /\ labels_line' = 0 /\ content_line' = 0 /\ comment_line' = 0
  /\ real' = {} /\ next' = 0 /\ last' = "start" /\ ended' = "none"
  /\ UNCHANGED <<total, remaining, retained>>

\* A line follows the newline after the one before it.
Newline == IF length = 0 THEN 0 ELSE 1

\* What truncate_on_char_boundary keeps of the line that comes next; without
\* the newline before it, fewer than no bytes.
kept == budget - (length + Newline)

\* What the cut has left of a line, if annotate_patch does not see which: no
\* byte at all after a newline, or the first "@" of a header.
annotate_leftover ==
  /\ IF labels_line > 0
     THEN cut_labels' = cut_labels \cup {labels_line} /\ labels_line' = labels_line + 1
     ELSE UNCHANGED <<cut_labels, labels_line>>
  /\ UNCHANGED labels

\* A number that has lost its last digits: none left is parsed as 0.
Shortened(n) == {m \in 0..n : \E i \in 0..9 : m = n \div 10^i}

\* Cut after "@@", a header may have lost its number, or the end of it.
annotate_header(n, bytes) ==
  CASE kept < 0     -> UNCHANGED <<labels, cut_labels, labels_line>>
    [] kept \in 0..1 -> annotate_leftover
    [] OTHER        -> /\ labels_line' \in IF kept >= bytes THEN {n}
                                          ELSE Shortened(n) \cup {labels_line}
                       /\ UNCHANGED <<labels, cut_labels>>

\* "@@ -a,b +n,d @@": every count restarts at n. git names a line beyond the
\* ones before, or 0 in the sole hunk of a file that was emptied.
Header(n, bytes) ==
  /\ reading /\ length + Newline + bytes <= MaxBytes
  /\ \/ last = "start"
     \/ last # "header" /\ ended = "none" /\ n > next /\ next > 0
  /\ length' = length + Newline + bytes
  /\ next' = n /\ last' = "header"
  /\ annotate_header(n, bytes)
  /\ content_line' = n /\ comment_line' = n
  /\ UNCHANGED <<files, content, commentable, real, ended>>

\* What git may put next: in a change the removed lines come first, the
\* marker after the last line of a side.
MayFollow(k) ==
  /\ last # "start"
  /\ k \in OnNewSide => next > 0
  /\ CASE k = "add" -> ended # "both"
       [] k = "del" -> ended = "none" /\ last # "add"
       [] k = "eof" -> ended # "both" /\ last \in {"add", "context", "del"}
       [] OTHER     -> ended = "none"

\* The number of the line itself, by git's count.
Own(k) == IF k \in OnNewSide THEN next ELSE NoLine

\* MUTANT of Counts: removed lines advance the count.
CountsRemoved(k) == TRUE

\* All but the removed lines advance the functions' counts.
Counts(k) == k # "del"

\* MUTANT of annotate_line: counts before it labels.
annotate_next(k) ==
  /\ IF Counts(k) /\ labels_line > 0
     THEN labels' = labels \cup {<<labels_line + 1, Own(k)>>} /\ labels_line' = labels_line + 1
     ELSE UNCHANGED <<labels, labels_line>>
  /\ UNCHANGED cut_labels

\* Labels, and counts, only once a header has named a line. The first byte of
\* a line is enough.
annotate_line(k) ==
  /\ IF Counts(k) /\ labels_line > 0
     THEN labels' = labels \cup {<<labels_line, Own(k)>>} /\ labels_line' = labels_line + 1
     ELSE UNCHANGED <<labels, labels_line>>
  /\ UNCHANGED cut_labels

annotate_patch(k, bytes) ==
  CASE kept < 0               -> UNCHANGED <<labels, cut_labels, labels_line>>
    [] kept = 0 /\ bytes > 0  -> annotate_leftover
    [] OTHER                  -> annotate_line(k)

\* content.insert(new_line, text): replaces what was there.
Inserted(k) ==
  [n \in DOMAIN content \cup {content_line} |->
     IF n = content_line THEN Own(k) ELSE content[n]]

\* MUTANT of line_content_by_file: an empty line is passed over.
line_content_nonblank(k) ==
  IF Counts(k)
  THEN /\ content' = IF content_line > 0 /\ k # "blank" THEN Inserted(k) ELSE content
       /\ content_line' = content_line + 1
  ELSE UNCHANGED <<content, content_line>>

\* MUTANT of line_content_by_file: lines before any number are inserted too.
line_content_unguarded(k) ==
  IF Counts(k) THEN content' = Inserted(k) /\ content_line' = content_line + 1
  ELSE UNCHANGED <<content, content_line>>

line_content_by_file(k) ==
  IF Counts(k)
  THEN /\ content' = IF content_line > 0 THEN Inserted(k) ELSE content
       /\ content_line' = content_line + 1
  ELSE UNCHANGED <<content, content_line>>

commentable_lines(k) ==
  IF Counts(k)
  THEN /\ commentable' = commentable \cup ({comment_line} \ {0})
       /\ comment_line' = comment_line + 1
  ELSE UNCHANGED <<commentable, comment_line>>

Line(k, bytes) ==
  /\ reading /\ length + Newline + bytes <= MaxBytes
  /\ MayFollow(k)
  /\ bytes = 0 <=> k = "blank"
  /\ length' = length + Newline + bytes
  /\ annotate_patch(k, bytes) /\ line_content_by_file(k) /\ commentable_lines(k)
  /\ real' = real \cup ({Own(k)} \ {NoLine})
  /\ next' = IF k \in OnNewSide THEN next + 1 ELSE next
  /\ last' = k
  /\ ended' = CASE k = "eof" /\ last = "del" -> "old"
                [] k = "eof"                 -> "both"
                [] OTHER                     -> ended
  /\ UNCHANGED files

\* The patch is over. What was cut is replaced by a line "[patch truncated]",
\* which annotate_patch labels like any other.
Close ==
  LET spent == SmallerOf(length, budget) IN
  /\ reading /\ reading' = FALSE
  /\ remaining' = LargerOf(remaining - spent, 0)  \* saturating_sub
  /\ retained' = retained + spent
  /\ cut_labels' = IF length > budget /\ labels_line > 0
                   THEN cut_labels \cup {labels_line} ELSE cut_labels
  /\ UNCHANGED <<total, file, budget, length, git, labels>>
  /\ UNCHANGED <<labels_line, content, content_line, commentable, comment_line>>

Next ==
  \/ Open \/ Close
  \/ \E n \in Starts, bytes \in HeaderBytes : Header(n, bytes)
  \/ \E k \in Kinds, bytes \in LineBytes \cup {0} : Line(k, bytes)

Spec == Init /\ [][Next]_vars

-----------------------------------------------------------------------------
\* The shape of the state.
TypeOK ==
  /\ total \in 0..MaxFiles /\ file \in 0..total /\ reading \in BOOLEAN
  /\ budget \in Nat /\ remaining \in Nat /\ retained \in Nat
  /\ length \in 0..MaxBytes
  /\ labels \subseteq Nat \X Nat /\ cut_labels \subseteq Nat /\ commentable \subseteq Nat /\ real \subseteq Nat
  /\ DOMAIN content \subseteq Nat \ {0}
  /\ labels_line \in Nat /\ content_line \in Nat /\ comment_line \in Nat /\ next \in Nat
  /\ last \in Kinds \cup {"start", "header"}
  /\ ended \in {"none", "old", "both"}

\* However many files share the budget, and whatever floor each is granted,
\* the patches in the prompt stay within max_patch_bytes together.
DigestBounded == retained <= max_patch_bytes

\* A number the model can read off a line of the patch, or off the part of it
\* that the cut has left, is one that finalize accepts as an anchor. The cut
\* itself adds at most two numbers, of an empty line and of the truncation
\* marker, which may be accepted nowhere; they are at most one past the count
\* of the whole patch.
LabelsCommentable ==
  /\ \A x \in labels : x[1] \in commentable
  /\ Cardinality(cut_labels) <= 2
  /\ cut_labels \subseteq 1..(comment_line + 1)
  /\ length <= budget => cut_labels = {}

\* The lines that snapping can move a comment to are the ones it can be on.
SameLines == DOMAIN content = commentable

\* Markers of a missing newline so far, at most.
MarkersIn(e) == CASE e = "none" -> 0 [] e = "old" -> 1 [] OTHER -> 2

\* The numbers are git's: a label is on the line it names, a number's content
\* is that line's text, every line of a hunk is commentable and no other is.
\* Each marker of a missing newline may put this off by one line.
NumbersTrue ==
  LET off == MarkersIn(ended)
  IN  /\ \A x \in labels : x[2] # NoLine => x[1] - x[2] \in 0..off
      /\ \A n \in DOMAIN content : content[n] # NoLine => n - content[n] \in 0..off
      /\ real \subseteq commentable
      /\ commentable \ real \subseteq next..(next + off - 1)

\* "the only lines GitHub will accept an inline review comment on" (comment
\* of commentable_lines).
OnlyAccepted == commentable \subseteq real

=============================================================================
