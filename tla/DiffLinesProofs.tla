--------------------------- MODULE DiffLinesProofs --------------------------
(***************************************************************************)
(* The digest's budget and the three counts, for patches of any length,    *)
(* any number of files and any limits.                                     *)
(*                                                                         *)
(* The sets the properties speak of are made by counters, so the invariant *)
(* relates the counters: content_line and comment_line are equal; so is    *)
(* labels_line while the digest lasts; and comment_line is next, but for   *)
(* the markers of a missing newline, which git does not count.             *)
(***************************************************************************)
EXTENDS DiffLines, FiniteSetTheorems, TLAPS

\* The digest has taken what its budget has lost.
BudgetInv ==
  /\ total \in Nat /\ remaining \in Nat /\ retained \in Nat /\ budget \in Nat /\ length \in Nat
  /\ retained + remaining = max_patch_bytes
  /\ reading => budget <= remaining

\* The three counters.
CountersInv ==
  /\ comment_line \in Nat /\ content_line \in Nat /\ labels_line \in Nat
  /\ content_line = comment_line
  /\ length <= budget /\ labels_line > 0 => labels_line = comment_line
  /\ labels_line <= comment_line + 1

\* Before the truncation marker the cut has added one number at most.
CutInv ==
  /\ IsFiniteSet(cut_labels)
  /\ reading => Cardinality(cut_labels) <= 1
  /\ LabelsCommentable

\* What git's grammar says of markers: the old side's follows a removed line
\* and only added lines come after it; no hunk of an emptied file has a line.
GrammarInv ==
  /\ next \in Nat /\ real \subseteq Nat
  /\ last \in Kinds \cup {"start", "header"}
  /\ ended \in {"none", "old", "both"}
  /\ ended = "old" => last \in {"eof", "add"}
  /\ next = 0 /\ ended # "none" => last = "eof"
  /\ last = "start" => next = 0 /\ ended = "none"

\* The count of the commentable lines is git's, but for the markers.
OffsetInv ==
  next > 0 => /\ comment_line >= next
              /\ ended = "none" => comment_line = next
              /\ ended = "old" => comment_line = next + 1 /\ next \in commentable
              /\ comment_line <= next + 2

\* An emptied file has no line of its own.
EmptiedInv ==
  /\ commentable \subseteq Nat \ {0}
  /\ next = 0 => real = {} /\ commentable = {}
  /\ next = 0 /\ ended = "none" => comment_line = 0

IInv ==
  /\ BudgetInv /\ CountersInv /\ GrammarInv /\ OffsetInv /\ EmptiedInv
  /\ CutInv /\ SameLines /\ NumbersTrue

-----------------------------------------------------------------------------
LEMMA InitEstablishes == Init => IInv
<1> SUFFICES ASSUME Init PROVE IInv
  OBVIOUS
<1> USE DiffAssumption DEF Init
<1>1. BudgetInv
  BY DEF BudgetInv
<1>2. CountersInv /\ GrammarInv /\ OffsetInv /\ EmptiedInv
  BY DEF CountersInv, GrammarInv, OffsetInv, EmptiedInv
<1>3. CutInv
  BY FS_EmptySet DEF CutInv, LabelsCommentable
<1>4. SameLines /\ NumbersTrue
  BY DEF SameLines, NumbersTrue, MarkersIn
<1> QED BY <1>1, <1>2, <1>3, <1>4 DEF IInv

\* No file is granted more than what is left.
LEMMA BudgetWithin ==
  ASSUME total \in Nat, remaining \in Nat, NEW f
  PROVE  Budget(f) \in Nat /\ Budget(f) <= remaining
<1> USE DiffAssumption
<1>1. LargerOf(selected, 1) \in Nat \ {0}
  BY DEF LargerOf, SmallerOf, selected
<1>2. \A m \in Nat, d \in Nat \ {0} : m \div d \in Nat
  OBVIOUS
<1>3. per_file_budget \in Nat
  BY <1>1, <1>2 DEF per_file_budget, LargerOf
<1> QED BY <1>3 DEF Budget, SmallerOf

LEMMA OpenKeeps == IInv /\ Open => IInv'
<1> SUFFICES ASSUME IInv, Open PROVE IInv'
  OBVIOUS
<1> USE DEF IInv, Open
<1>1. BudgetInv'
  BY BudgetWithin DEF BudgetInv
<1>2. CountersInv' /\ GrammarInv' /\ OffsetInv' /\ EmptiedInv'
  BY DEF CountersInv, GrammarInv, OffsetInv, EmptiedInv
<1>3. CutInv'
  BY FS_EmptySet DEF CutInv, LabelsCommentable
<1>4. SameLines' /\ NumbersTrue'
  BY DEF SameLines, NumbersTrue, MarkersIn
<1> QED BY <1>1, <1>2, <1>3, <1>4

\* The marker takes the number after the last label, of which there is none
\* further than one past the count.
LEMMA CloseKeeps == IInv /\ Close => IInv'
<1> SUFFICES ASSUME IInv, Close PROVE IInv'
  OBVIOUS
<1> DEFINE spent == SmallerOf(length, budget)
<1>1. /\ UNCHANGED <<total, file, budget, length, git, labels>>
      /\ UNCHANGED <<labels_line, content, content_line, commentable, comment_line>>
      /\ reading /\ ~reading'
      /\ remaining' = LargerOf(remaining - spent, 0) /\ retained' = retained + spent
      /\ \/ cut_labels' = cut_labels
         \/ length > budget /\ labels_line > 0 /\ cut_labels' = cut_labels \cup {labels_line}
  BY DEF Close
<1>2. BudgetInv'
  BY <1>1, DiffAssumption DEF IInv, BudgetInv, SmallerOf, LargerOf
<1>3. CountersInv' /\ GrammarInv' /\ OffsetInv' /\ EmptiedInv' /\ SameLines'
  BY <1>1 DEF IInv, CountersInv, GrammarInv, OffsetInv, EmptiedInv, SameLines, git
<1>4. NumbersTrue'
  BY <1>1 DEF IInv, NumbersTrue, git
<1>5. IsFiniteSet(cut_labels') /\ Cardinality(cut_labels') <= 2
  <2>1. IsFiniteSet(cut_labels) /\ Cardinality(cut_labels) <= 1
    BY <1>1 DEF IInv, CutInv
  <2>2. Cardinality(cut_labels) \in Nat
    BY <2>1, FS_CardinalityType
  <2>3. LET T == cut_labels \cup {labels_line} IN
        IsFiniteSet(T) /\ Cardinality(T) \in {Cardinality(cut_labels), Cardinality(cut_labels) + 1}
    BY <2>1, FS_AddElement
  <2> QED BY <1>1, <2>1, <2>2, <2>3
<1>6. CutInv'
  <2>1. labels_line \in Nat /\ comment_line \in Nat /\ length \in Nat /\ budget \in Nat
        /\ labels_line <= comment_line + 1
    BY DEF IInv, CountersInv, BudgetInv
  <2>a. cut_labels \subseteq 1..(comment_line + 1) /\ (length <= budget => cut_labels = {})
    BY DEF IInv, CutInv, LabelsCommentable
  <2>b. cut_labels' = cut_labels \/ (length > budget /\ labels_line > 0)
    BY <1>1
  <2>c. cut_labels' \subseteq cut_labels \cup {labels_line}
    BY <1>1
  <2>d. labels_line > 0 => labels_line \in 1..(comment_line + 1)
    BY <2>1
  <2>2. cut_labels' \subseteq 1..(comment_line + 1)
    BY <2>a, <2>b, <2>c, <2>d
  <2>e. length <= budget => ~(length > budget)
    BY <2>1
  <2>3. length <= budget => cut_labels' = {}
    BY <2>a, <2>b, <2>e, Zenon
  <2> QED BY <1>1, <1>5, <2>2, <2>3 DEF IInv, CutInv, LabelsCommentable
<1> QED BY <1>2, <1>3, <1>4, <1>6 DEF IInv

\* In step with the count while the patch lasts, and what the cut leaves of a
\* line adds one number.
AddsLeftover ==
  /\ length' > budget /\ labels_line > 0 /\ labels_line = comment_line
  /\ labels' = labels /\ labels_line' = labels_line + 1
  /\ cut_labels' = {labels_line}

LEMMA Leftover ==
  ASSUME IInv, length <= budget, length' > budget, annotate_leftover
  PROVE  AddsLeftover \/ UNCHANGED <<labels, cut_labels, labels_line>>
<1>1. cut_labels = {} /\ labels_line \in Nat
      /\ (labels_line > 0 => labels_line = comment_line)
  BY DEF IInv, CutInv, LabelsCommentable, CountersInv
<1> QED BY <1>1 DEF annotate_leftover, AddsLeftover

LEMMA Spans ==
  ASSUME IInv, NEW bytes \in Nat, length' = length + Newline + bytes
  PROVE  /\ length' \in Nat /\ length \in Nat /\ budget \in Nat /\ kept \in Int
         /\ kept < 0 => length' > budget
         /\ kept >= 0 => length <= budget
         /\ kept >= bytes <=> length' <= budget
BY DEF IInv, BudgetInv, Newline, kept

LEMMA Upwards ==
  \A m \in Nat, n \in Nat :
    m <= n => 1..(m + 1) \subseteq 1..(n + 1) /\ (m > 0 => m \in 1..(n + 1))
OBVIOUS

\* A line or a header keeps what is known of the labels, if each it adds is
\* commentable or the leftover's.
LEMMA CutKeeps ==  ASSUME IInv, CountersInv', reading' = reading, budget' = budget,
         comment_line <= comment_line', commentable \subseteq commentable',
         length \in Nat, length' \in Nat, length <= length',
         \/ UNCHANGED <<labels, cut_labels, labels_line>>
         \/ cut_labels' = cut_labels /\ \A x \in labels' : x \in labels \/ x[1] \in commentable'
         \/ AddsLeftover
  PROVE  CutInv'
<1>1. comment_line \in Nat /\ comment_line' \in Nat /\ budget \in Nat
  BY DEF IInv, CountersInv, BudgetInv
<1>2. /\ IsFiniteSet(cut_labels) /\ (reading => Cardinality(cut_labels) <= 1)
      /\ Cardinality(cut_labels) <= 2 /\ cut_labels \subseteq 1..(comment_line + 1)
      /\ (length <= budget => cut_labels = {}) /\ \A x \in labels : x[1] \in commentable
  BY DEF IInv, CutInv, LabelsCommentable
<1>3. CASE cut_labels' = cut_labels /\ \A x \in labels' : x[1] \in commentable'
  <2>a. 1..(comment_line + 1) \subseteq 1..(comment_line' + 1)
    BY <1>1, Upwards
  <2>b. length' <= budget' => length <= budget
    BY <1>1
  <2>1. cut_labels' \subseteq 1..(comment_line' + 1) /\ (length' <= budget' => cut_labels' = {})
    BY <1>2, <1>3, <2>a, <2>b
  <2> QED BY <1>2, <1>3, <2>1 DEF CutInv, LabelsCommentable
<1>4. CASE AddsLeftover
  <2>1. IsFiniteSet(cut_labels') /\ Cardinality(cut_labels') = 1
    BY <1>4, FS_Singleton DEF AddsLeftover
  <2>a. labels_line \in 1..(comment_line' + 1) /\ cut_labels' = {labels_line}
    BY <1>1, <1>4, Upwards DEF AddsLeftover
  <2>2. cut_labels' \subseteq 1..(comment_line' + 1)
    BY <2>a
  <2>3. ~(length' <= budget') /\ labels' = labels
    BY <1>1, <1>4 DEF AddsLeftover
  <2> QED BY <1>2, <2>1, <2>2, <2>3 DEF CutInv, LabelsCommentable
<1> QED BY <1>2, <1>3, <1>4

\* A header finds the counts right, or no line before it.
LEMMA HeaderKeeps ==
  \A n \in Starts, bytes \in HeaderBytes : IInv /\ Header(n, bytes) => IInv'
<1> SUFFICES ASSUME NEW n \in Starts, NEW bytes \in HeaderBytes, IInv, Header(n, bytes)
             PROVE  IInv'
  OBVIOUS
<1> USE DEF IInv, Header, files
<1>1. n \in Nat /\ bytes \in Nat /\ bytes >= 2
  BY DiffAssumption
<1>2. ended = "none" /\ (next = 0 \/ n > next)
  BY DEF GrammarInv
<1>a. /\ length' \in Nat /\ length \in Nat /\ budget \in Nat /\ kept \in Int
      /\ kept < 0 => length' > budget
      /\ kept >= 0 => length <= budget
      /\ kept >= bytes <=> length' <= budget
  <2> HIDE DEF IInv
  <2> QED BY <1>1, Spans
<1>b. comment_line \in Nat /\ comment_line <= n /\ comment_line' = n
      /\ labels_line \in Nat /\ labels_line <= comment_line + 1
  BY <1>1, <1>2 DEF CountersInv, GrammarInv, OffsetInv, EmptiedInv
<1>c. \/ length' > budget /\ UNCHANGED <<labels, cut_labels, labels_line>>
      \/ AddsLeftover
      \/ length' <= budget /\ labels_line' = n /\ UNCHANGED <<labels, cut_labels>>
      \/ /\ length' > budget /\ UNCHANGED <<labels, cut_labels>>
         /\ labels_line' \in (0..n) \cup {labels_line}
  <2>1. CASE kept < 0
    BY <1>a, <2>1 DEF annotate_header
  <2>2. CASE kept \in 0..1
    <3>1. annotate_leftover /\ length <= budget /\ length' > budget
      BY <1>1, <1>a, <2>2 DEF annotate_header
    <3> HIDE DEF IInv, Header
    <3> QED BY <3>1, Leftover
  <2>3. CASE kept >= 2
    <3>1. /\ labels_line' \in IF kept >= bytes THEN {n} ELSE Shortened(n) \cup {labels_line}
          /\ UNCHANGED <<labels, cut_labels>>
      BY <1>a, <2>3 DEF annotate_header
    <3>2. Shortened(n) \subseteq 0..n
      BY DEF Shortened
    <3> QED BY <1>a, <3>1, <3>2
  <2> QED BY <1>a, <2>1, <2>2, <2>3
<1>3. BudgetInv'
  BY <1>a DEF BudgetInv
<1>4. CountersInv'
  <2>1. labels_line' \in Nat /\ labels_line' <= n + 1
    BY <1>1, <1>b, <1>c DEF AddsLeftover
  <2>2. length' <= budget /\ labels_line' > 0 => labels_line' = n
    BY <1>a, <1>c DEF AddsLeftover
  <2> QED BY <1>1, <2>1, <2>2 DEF CountersInv
<1>5. GrammarInv' /\ OffsetInv'
  BY <1>1, <1>2 DEF GrammarInv, OffsetInv
<1>6. EmptiedInv'
  BY <1>1, <1>2 DEF EmptiedInv, GrammarInv
<1>7. CutInv' /\ SameLines'
  <2>1. SameLines'
    BY DEF SameLines
  <2>2. /\ reading' = reading /\ budget' = budget /\ commentable' = commentable
        /\ length <= length' /\ \A x \in labels : x[1] \in commentable
    BY <1>1, <1>a DEF Newline, CutInv, LabelsCommentable
  <2> HIDE DEF IInv, Header
  <2>3. CutInv'
    BY <1>4, <1>a, <1>b, <1>c, <2>2, CutKeeps
  <2> QED BY <2>1, <2>3
<1>8. NumbersTrue'
  <2>1. MarkersIn(ended) = 0 /\ MarkersIn(ended') = 0
    BY <1>2 DEF MarkersIn
  <2>2. real \subseteq commentable /\ commentable \ real \subseteq next..(next + 0 - 1)
    BY <2>1 DEF NumbersTrue
  <2>3. commentable \ real = {}
    BY <2>2 DEF GrammarInv
  <2>4. labels' = labels
    BY <1>c DEF AddsLeftover
  <2> QED BY <2>1, <2>2, <2>3, <2>4 DEF NumbersTrue
<1> QED BY <1>3, <1>4, <1>5, <1>6, <1>7, <1>8

-----------------------------------------------------------------------------
\* What may follow what, with the markers before it.
LEMMA Grammar ==
  ASSUME NEW k \in Kinds, IInv, MayFollow(k)
  PROVE  /\ last # "start"
         /\ k \in OnNewSide => next > 0 /\ ended \in {"none", "old"}
         /\ k \in {"context", "blank", "del"} => ended = "none"
         /\ k = "eof" => \/ ended = "none" /\ last \in {"add", "context", "del"}
                         \/ ended = "old" /\ last = "add" /\ next > 0
BY DEF MayFollow, Kinds, OnNewSide, IInv, GrammarInv

\* What annotate_patch does with a line: all of it or part of it is labelled,
\* it is past the cut, or nothing of it is left.
LEMMA LineLabels ==
  ASSUME NEW k \in Kinds, NEW bytes \in Nat, IInv, Line(k, bytes)
  PROVE  \/ /\ Counts(k) /\ labels_line > 0 /\ labels_line = comment_line
            /\ labels' = labels \cup {<<labels_line, Own(k)>>}
            /\ labels_line' = labels_line + 1 /\ cut_labels' = cut_labels
         \/ /\ length' > budget \/ ~Counts(k) \/ ~(labels_line > 0)
            /\ UNCHANGED <<labels, cut_labels, labels_line>>
         \/ AddsLeftover
<1>1. annotate_patch(k, bytes) /\ length' = length + Newline + bytes
  BY DEF Line
<1>2. /\ length' \in Nat /\ length \in Nat /\ budget \in Nat /\ kept \in Int
      /\ kept < 0 => length' > budget
      /\ kept >= 0 => length <= budget
      /\ kept >= bytes <=> length' <= budget
  BY <1>1, Spans
<1>3. CASE kept < 0
  BY <1>1, <1>2, <1>3 DEF annotate_patch
<1>4. CASE kept = 0 /\ bytes > 0
  <2>1. annotate_leftover /\ length <= budget /\ length' > budget
    BY <1>1, <1>2, <1>4 DEF annotate_patch
  <2> QED BY <2>1, Leftover
<1>5. CASE kept >= 0 /\ ~(kept = 0 /\ bytes > 0)
  <2>1. annotate_line(k)
    BY <1>1, <1>2, <1>5 DEF annotate_patch
  <2>2. labels_line > 0 => labels_line = comment_line
    BY <1>2, <1>5 DEF IInv, CountersInv
  <2> QED BY <2>1, <2>2 DEF annotate_line
<1> QED BY <1>2, <1>3, <1>4, <1>5

\* What a line does to the commentable lines, and content does the same.
LEMMA LineKeepsCounts ==
  ASSUME NEW k \in Kinds, NEW bytes \in Nat, IInv, Line(k, bytes)
  PROVE  CountersInv' /\ SameLines' /\ CutInv' /\ BudgetInv'
<1>1. /\ length' = length + Newline + bytes /\ UNCHANGED files
      /\ line_content_by_file(k) /\ commentable_lines(k)
  BY DEF Line
<1>2. /\ length' \in Nat /\ length \in Nat /\ length <= length'
      /\ comment_line \in Nat /\ content_line = comment_line /\ labels_line \in Nat
      /\ budget \in Nat /\ labels_line <= comment_line + 1
  BY <1>1 DEF IInv, BudgetInv, CountersInv, Newline
<1>3. BudgetInv'
  BY <1>1, <1>2 DEF IInv, BudgetInv, files
<1>4. \/ /\ Counts(k)
         /\ comment_line' = comment_line + 1 /\ content_line' = content_line + 1
         /\ commentable' = commentable \cup ({comment_line} \ {0})
         /\ content' = IF content_line > 0 THEN Inserted(k) ELSE content
      \/ ~Counts(k) /\ UNCHANGED <<comment_line, content_line, commentable, content>>
  BY <1>1 DEF line_content_by_file, commentable_lines
<1>5. CountersInv'
  <2>1. comment_line' \in Nat /\ content_line' = comment_line' /\ comment_line <= comment_line'
    BY <1>2, <1>4
  <2>2. labels_line' \in Nat /\ labels_line' <= comment_line' + 1
    BY <1>2, <1>4, LineLabels DEF AddsLeftover
  <2>3. length' <= budget' /\ labels_line' > 0 => labels_line' = comment_line'
    <3> SUFFICES ASSUME length' <= budget, labels_line' > 0 PROVE labels_line' = comment_line'
      BY <1>1 DEF files
    <3>1. length <= budget
      BY <1>2
    <3>2. labels_line > 0 => labels_line = comment_line
      BY <3>1 DEF IInv, CountersInv
    <3>3. \/ Counts(k) /\ labels_line > 0 /\ labels_line' = labels_line + 1
          \/ (~Counts(k) \/ ~(labels_line > 0)) /\ labels_line' = labels_line
      BY <1>2, LineLabels DEF AddsLeftover
    <3> QED BY <1>2, <1>4, <3>2, <3>3
  <2> QED BY <2>1, <2>2, <2>3 DEF CountersInv
<1>6. SameLines'
  <2>1. DOMAIN Inserted(k) = DOMAIN content \cup {content_line}
    BY DEF Inserted
  <2> QED BY <1>2, <1>4, <2>1 DEF IInv, SameLines
<1>7. CutInv'
  <2>1. reading' = reading /\ budget' = budget
    BY <1>1 DEF files
  <2>2. comment_line <= comment_line' /\ commentable \subseteq commentable'
    BY <1>2, <1>4
  <2>3. \/ UNCHANGED <<labels, cut_labels, labels_line>>
        \/ cut_labels' = cut_labels /\ \A x \in labels' : x \in labels \/ x[1] \in commentable'
        \/ AddsLeftover
    BY <1>2, <1>4, LineLabels
  <2> QED BY <1>2, <1>5, <2>1, <2>2, <2>3, CutKeeps
<1> QED BY <1>3, <1>5, <1>6, <1>7

LEMMA LineKeepsGrammar ==
  ASSUME NEW k \in Kinds, NEW bytes \in Nat, IInv, Line(k, bytes)
  PROVE  GrammarInv' /\ EmptiedInv'
<1>1. next \in Nat /\ comment_line \in Nat
  BY DEF IInv, GrammarInv, CountersInv
<1>2. /\ next' = (IF k \in OnNewSide THEN next + 1 ELSE next) /\ last' = k
      /\ real' = real \cup ({Own(k)} \ {NoLine})
      /\ ended' = CASE k = "eof" /\ last = "del" -> "old"
                    [] k = "eof"                 -> "both"
                    [] OTHER                     -> ended
      /\ MayFollow(k)
  BY DEF Line
<1>3. GrammarInv'
  BY <1>1, <1>2, Grammar DEF IInv, GrammarInv, Own, NoLine, Kinds, OnNewSide
<1>4. EmptiedInv'
  <2>1. \/ commentable' = commentable \cup ({comment_line} \ {0})
           /\ comment_line' = comment_line + 1
        \/ commentable' = commentable /\ comment_line' = comment_line
    BY DEF Line, commentable_lines
  <2>2. CASE next' > 0
    <3>1. commentable' \subseteq Nat \ {0}
      BY <1>1, <2>1 DEF IInv, EmptiedInv
    <3>2. next' # 0
      BY <2>2
    <3> QED BY <3>1, <3>2 DEF EmptiedInv
  <2>3. CASE ~(next' > 0)
    <3>1. next = 0 /\ next' = 0 /\ k \in {"del", "eof"}
      BY <1>1, <1>2, <2>3, Grammar DEF Kinds, OnNewSide
    <3>2. ended = "none" /\ comment_line = 0 /\ real' = {} /\ commentable' = {}
      BY <1>2, <2>1, <3>1, Grammar DEF IInv, EmptiedInv, Own, NoLine, OnNewSide
    <3>3. k = "del" => comment_line' = 0
      BY <3>2 DEF Line, commentable_lines, Counts
    <3>4. k = "eof" => ended' # "none"
      BY <1>2
    <3> QED BY <3>1, <3>2, <3>3, <3>4 DEF EmptiedInv
  <2> QED BY <2>2, <2>3
<1> QED BY <1>3, <1>4

\* A line git numbers gets its own number, one more for each marker before;
\* a marker gets the number after the last.
LEMMA LineKeepsNumbers ==
  ASSUME NEW k \in Kinds, NEW bytes \in Nat, IInv, Line(k, bytes)
  PROVE  OffsetInv' /\ NumbersTrue'
<1> DEFINE off == MarkersIn(ended)
<1>1. /\ next' = (IF k \in OnNewSide THEN next + 1 ELSE next)
      /\ real' = real \cup ({Own(k)} \ {NoLine})
      /\ ended' = CASE k = "eof" /\ last = "del" -> "old"
                    [] k = "eof"                 -> "both"
                    [] OTHER                     -> ended
      /\ MayFollow(k)
  BY DEF Line
<1>2. /\ next \in Nat /\ comment_line \in Nat /\ labels_line \in Nat
      /\ content_line = comment_line /\ real \subseteq Nat
      /\ ended \in {"none", "old", "both"}
  BY DEF IInv, GrammarInv, CountersInv
<1>a. \A x \in labels' : x \in labels \/ x = <<comment_line, Own(k)>>
  BY LineLabels DEF AddsLeftover
<1>3. /\ \A x \in labels : x[2] # NoLine => x[1] - x[2] \in 0..off
      /\ \A n \in DOMAIN content : content[n] # NoLine => n - content[n] \in 0..off
      /\ real \subseteq commentable /\ commentable \ real \subseteq next..(next + off - 1)
  BY DEF IInv, NumbersTrue
<1>4. off \in 0..2 /\ off <= MarkersIn(ended')
  BY <1>1, <1>2, Grammar DEF MarkersIn
<1>5. CASE k = "del"
  <2>1. UNCHANGED <<content, commentable, comment_line, next, real, ended>>
    BY <1>1, <1>5 DEF Line, line_content_by_file, commentable_lines, Counts, Own, NoLine,
                      OnNewSide
  <2>2. \A x \in labels' : x[2] # NoLine => x \in labels
    BY <1>5, <1>a DEF Own, OnNewSide
  <2> QED BY <2>1, <2>2 DEF IInv, OffsetInv, NumbersTrue
<1>6. CASE k \in OnNewSide
  <2>1. /\ next > 0 /\ next' = next + 1 /\ Own(k) = next /\ real' = real \cup {next}
        /\ ended' = ended /\ ended \in {"none", "old"} /\ comment_line = next + off
    BY <1>1, <1>2, <1>6, Grammar
       DEF Own, NoLine, OnNewSide, IInv, OffsetInv, MarkersIn
  <2>2. /\ commentable' = commentable \cup {next + off} /\ comment_line' = next + off + 1
        /\ content' = Inserted(k)
    BY <1>2, <1>4, <1>6, <2>1
       DEF Line, commentable_lines, line_content_by_file, Counts, OnNewSide
  <2>3. \A x \in labels' : x \in labels \/ x = <<next + off, next>>
    BY <1>2, <1>a, <2>1
  <2>4. \A n \in DOMAIN content' :
          \/ n \in DOMAIN content /\ content'[n] = content[n]
          \/ n = next + off /\ content'[n] = next
    BY <1>2, <2>1, <2>2 DEF Inserted
  <2>5. off \in 0..1 /\ MarkersIn(ended') = off
    BY <2>1 DEF MarkersIn
  <2>6. off = 1 => next \in commentable
    BY <2>1 DEF IInv, OffsetInv, MarkersIn
  <2>7. OffsetInv'
    BY <1>2, <2>1, <2>2, <2>5 DEF OffsetInv, MarkersIn
  <2>8. \A x \in labels' : x[2] # NoLine => x[1] - x[2] \in 0..off
    BY <1>2, <1>3, <2>3, <2>5
  <2>9. \A n \in DOMAIN content' : content'[n] # NoLine => n - content'[n] \in 0..off
    BY <1>2, <1>3, <2>4, <2>5
  <2>10. real' \subseteq commentable'
    BY <1>2, <1>3, <2>1, <2>2, <2>5, <2>6
  <2>11. commentable' \ real' \subseteq next'..(next' + off - 1)
    <3>1. CASE off = 0
      BY <1>2, <1>3, <2>1, <2>2, <3>1
    <3>2. CASE off = 1
      <4>1. \A n \in commentable \ real : n = next
        BY <1>2, <1>3, <3>2
      <4> QED BY <1>2, <2>1, <2>2, <3>2, <4>1
    <3> QED BY <2>5, <3>1, <3>2
  <2> QED BY <2>5, <2>7, <2>8, <2>9, <2>10, <2>11 DEF NumbersTrue
<1>7. CASE k = "eof"
  <2>1. /\ next' = next /\ Own(k) = NoLine /\ real' = real /\ Counts(k)
        /\ \/ ended = "none" /\ ended' \in {"old", "both"}
           \/ ended = "old" /\ ended' = "both" /\ next > 0
    BY <1>1, <1>7, Grammar DEF Own, NoLine, OnNewSide, Counts
  <2>2. /\ commentable' = commentable \cup ({comment_line} \ {0})
        /\ comment_line' = comment_line + 1
        /\ content' = IF content_line > 0 THEN Inserted(k) ELSE content
    BY <2>1 DEF Line, commentable_lines, line_content_by_file
  <2>3. \A x \in labels' : x[2] # NoLine => x \in labels
    BY <1>a, <2>1
  <2>4. \A n \in DOMAIN content' :
          content'[n] # NoLine => n \in DOMAIN content /\ content'[n] = content[n]
    BY <2>1, <2>2 DEF Inserted
  <2>5. MarkersIn(ended') \in (off + 1)..2 /\ off \in 0..1
    BY <2>1 DEF MarkersIn
  <2>6. next > 0 => comment_line = next + off
    BY <1>2, <2>1 DEF IInv, OffsetInv, MarkersIn
  <2>7. OffsetInv'
    BY <1>2, <2>1, <2>2, <2>5, <2>6 DEF OffsetInv, MarkersIn
  <2>8. \A x \in labels' : x[2] # NoLine => x[1] - x[2] \in 0..MarkersIn(ended')
    <3>1. \A d \in 0..off : d \in 0..MarkersIn(ended')
      BY <2>5
    <3> QED BY <1>3, <2>3, <3>1
  <2>9. \A n \in DOMAIN content' :
          content'[n] # NoLine => n - content'[n] \in 0..MarkersIn(ended')
    <3>1. \A d \in 0..off : d \in 0..MarkersIn(ended')
      BY <2>5
    <3> QED BY <1>3, <2>4, <3>1
  <2>10. commentable' \ real' \subseteq next'..(next' + MarkersIn(ended') - 1)
    <3>1. CASE next > 0
      BY <1>2, <1>3, <2>1, <2>2, <2>5, <2>6, <3>1
    <3>2. CASE next = 0
      <4>1. comment_line = 0 /\ commentable = {}
        BY <2>1, <3>2 DEF IInv, EmptiedInv
      <4> QED BY <2>2, <4>1
    <3> QED BY <1>2, <3>1, <3>2
  <2>11. real' \subseteq commentable'
    BY <1>3, <2>1, <2>2
  <2> QED BY <2>7, <2>8, <2>9, <2>10, <2>11 DEF NumbersTrue
<1> QED BY <1>5, <1>6, <1>7 DEF Kinds

LEMMA LineKeeps ==
  \A k \in Kinds, bytes \in LineBytes \cup {0} : IInv /\ Line(k, bytes) => IInv'
<1> SUFFICES ASSUME NEW k \in Kinds, NEW bytes \in LineBytes \cup {0}, IInv, Line(k, bytes)
             PROVE  IInv'
  OBVIOUS
<1>1. bytes \in Nat
  BY DiffAssumption
<1> QED BY <1>1, LineKeepsCounts, LineKeepsGrammar, LineKeepsNumbers DEF IInv

LEMMA NextKeeps == IInv /\ [Next]_vars => IInv'
<1> SUFFICES ASSUME IInv, [Next]_vars PROVE IInv'
  OBVIOUS
<1>1. CASE Next
  BY <1>1, OpenKeeps, CloseKeeps, HeaderKeeps, LineKeeps DEF Next
<1>2. CASE UNCHANGED vars
  BY <1>2 DEF IInv, BudgetInv, CountersInv, GrammarInv, OffsetInv, EmptiedInv,
              CutInv, LabelsCommentable, SameLines, NumbersTrue, vars, files, counts, git
<1> QED BY <1>1, <1>2

-----------------------------------------------------------------------------
\* The inductive invariant.
THEOREM Invariance == Spec => []IInv
<1> QED BY InitEstablishes, NextKeeps, PTL DEF Spec

\* build_digest keeps to max_patch_bytes, whatever the floor for one file.
THEOREM DigestIsBounded == Spec => []DigestBounded
<1>1. IInv => DigestBounded
  BY DEF IInv, BudgetInv, DigestBounded
<1> QED BY <1>1, Invariance, PTL

\* Labels of lines, and of parts of them, are commentable numbers at whatever
\* byte the patch was cut; the cut adds at most two numbers of its own, at most
\* one past the count.
THEOREM LabelsAreCommentable == Spec => []LabelsCommentable
<1>1. IInv => LabelsCommentable
  BY DEF IInv, CutInv
<1> QED BY <1>1, Invariance, PTL

\* line_content_by_file and commentable_lines speak of the same lines.
THEOREM LinesAreTheSame == Spec => []SameLines
<1>1. IInv => SameLines
  BY DEF IInv
<1> QED BY <1>1, Invariance, PTL

\* The three counts are git's, but for the markers of a missing newline.
THEOREM NumbersAreTrue == Spec => []NumbersTrue
<1>1. IInv => NumbersTrue
  BY DEF IInv
<1> QED BY <1>1, Invariance, PTL

-----------------------------------------------------------------------------
\* What TypeOK says beyond the invariant.
ShapeInv ==
  /\ total \in 0..MaxFiles /\ file \in 0..total /\ reading \in BOOLEAN
  /\ length \in 0..MaxBytes /\ labels \subseteq Nat \X Nat

LEMMA ShapeStep == IInv /\ ShapeInv /\ [Next]_vars => ShapeInv'
<1> SUFFICES ASSUME IInv, ShapeInv, [Next]_vars PROVE ShapeInv'
  OBVIOUS
<1>1. /\ comment_line \in Nat /\ next \in Nat /\ length \in Nat /\ total \in Nat
      /\ MaxFiles \in Nat /\ MaxBytes \in Nat
  BY DiffAssumption DEF IInv, CountersInv, GrammarInv, BudgetInv
<1>2. /\ total' = total
      /\ file' = file \/ (file' = file + 1 /\ file < total)
      /\ length' \in {0, length} \/ length' <= MaxBytes
      /\ reading' = TRUE \/ reading' = FALSE \/ reading' = reading
  BY DEF Next, Open, Close, Header, Line, vars, files
<1>3. \E n \in Nat : labels' \subseteq labels \cup {<<comment_line, n>>}
  <2>1. CASE Open
    BY <2>1 DEF Open
  <2>2. CASE Close
    BY <2>2 DEF Close
  <2>3. CASE \E n \in Starts, bytes \in HeaderBytes : Header(n, bytes)
    <3>1. PICK n \in Starts, bytes \in HeaderBytes : annotate_header(n, bytes)
      BY <2>3 DEF Header
    <3>2. labels' = labels
      BY <3>1 DEF annotate_header, annotate_leftover
    <3> QED BY <3>2
  <2>4. CASE \E k \in Kinds, bytes \in LineBytes \cup {0} : Line(k, bytes)
    <3>1. PICK k \in Kinds, bytes \in LineBytes \cup {0} : Line(k, bytes)
      BY <2>4
    <3>2. bytes \in Nat
      BY DiffAssumption
    <3>3. Own(k) \in Nat
      BY <1>1 DEF Own, NoLine
    <3> QED BY <3>1, <3>2, <3>3, LineLabels DEF AddsLeftover
  <2>5. CASE UNCHANGED vars
    BY <2>5 DEF vars, counts
  <2> QED BY <2>1, <2>2, <2>3, <2>4, <2>5 DEF Next
<1>4. labels' \subseteq Nat \X Nat
  BY <1>1, <1>3 DEF ShapeInv
<1>5. total' \in 0..MaxFiles /\ file' \in 0..total' /\ length' \in 0..MaxBytes
  <2>1. length' \in Nat
    BY NextKeeps DEF IInv, BudgetInv
  <2> QED BY <1>1, <1>2, <2>1 DEF ShapeInv
<1>6. reading' \in BOOLEAN
  BY <1>2, Zenon DEF ShapeInv
<1> QED BY <1>4, <1>5, <1>6 DEF ShapeInv

\* The counts are numbers and the digest's label only what annotate_patch
\* numbers; no number of a line is 0.
THEOREM TypeCorrect == Spec => []TypeOK
<1>1. Init => ShapeInv
  <2> SUFFICES ASSUME Init PROVE ShapeInv
    OBVIOUS
  <2>1. reading \in BOOLEAN
    BY Zenon DEF Init
  <2> QED BY <2>1, DiffAssumption DEF Init, ShapeInv
<1>2. IInv /\ ShapeInv => TypeOK
  <2> SUFFICES ASSUME IInv, ShapeInv PROVE TypeOK
    OBVIOUS
  <2>1. comment_line \in Nat /\ cut_labels \subseteq 1..(comment_line + 1)
    BY DEF IInv, CountersInv, CutInv, LabelsCommentable
  <2>2. cut_labels \subseteq Nat
    BY <2>1
  <2> QED BY <2>2 DEF IInv, ShapeInv, TypeOK, BudgetInv, CountersInv, GrammarInv, EmptiedInv,
                      SameLines
<1> QED BY <1>1, <1>2, ShapeStep, Invariance, PTL DEF Spec

=============================================================================
