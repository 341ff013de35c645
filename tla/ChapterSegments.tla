---------------------------- MODULE ChapterSegments ----------------------------
(***************************************************************************)
(* How the text of a chapter is cut into segments (markdown_v1), what the   *)
(* contracts of the reviewers and of the writer ask of the segments, and    *)
(* how a revision replaces some of them (merge_segment_replacements).  All  *)
(* of it is pure.                                                           *)
(*                                                                          *)
(* A text is a sequence of units of one width, and an offset counts the     *)
(* units before it; a unit is what the segmenter tells apart: the end of a  *)
(* line, white space, a heading mark, a fence, an underline, any other word.*)
(* A segment is its kind and its range: its ordinal is its place, its id a  *)
(* hash of both with its text, and its path a label.  All fences are of one *)
(* length and character, and the indentation that turns a mark into a word  *)
(* does not occur.                                                          *)
(***************************************************************************)
EXTENDS Integers, Sequences, SequencesExt, FiniteSetsExt

CONSTANTS
    MaxPart,     \* MAX_CHAPTER_SEGMENT_BYTES
    MaxBrief,    \* length of AllowedChapterSegment.brief
    MaxSegments, \* MAX_CHAPTER_SEGMENTS
    Batch        \* MAX_REVIEW_SEGMENTS_PER_BATCH
ASSUME SegmentBounds == {MaxPart, MaxBrief, MaxSegments, Batch} \subseteq Nat \ {0}

Unit == {"newline", "space", "word", "hash", "fence", "underline"}
White == {"newline", "space"}

(* str.strip: what is left without white space at both ends.                *)
Strip(s) ==
    LET I == {i \in DOMAIN s : s[i] \notin White}
    IN IF I = {} THEN <<>> ELSE SubSeq(s, Min(I), Max(I))

-----------------------------------------------------------------------------
(* _stream_lines, and what the scan asks of a line.                          *)
Lines(t) ==
    LET From[i \in 1 .. Len(t) + 1] ==
            LET e == Min({j \in i .. Len(t) : t[j] = "newline"} \cup {Len(t) + 1})
            IN <<[start |-> i - 1, end |-> e - 1]>> \o (IF e > Len(t) THEN <<>> ELSE From[e + 1])
    IN From[1]
Content(t, s) == SubSeq(t, s.start + 1, s.end)

Blank(u) == Strip(u) = <<>>
Opens(u) == ~Blank(u) /\ Head(Strip(u)) = "fence"
Closes(u) == Strip(u) = <<"fence">>
Heading(u) == ~Blank(u) /\ Head(Strip(u)) = "hash"
Underlines(u) == Strip(u) = <<"underline">>

(* The last line of the block that starts on line k, which is not blank.     *)
LastLine(u, k) ==
    LET After(Is(_)) == {j \in k + 1 .. Len(u) : Is(u[j])}
        Stops(l) == Blank(l) \/ Underlines(l) \/ Opens(l) \/ Heading(l)
    IN IF Opens(u[k]) THEN Min(After(Closes) \cup {Len(u)})
       ELSE IF Heading(u[k]) THEN k
       ELSE LET j == Min(After(Stops) \cup {Len(u) + 1})
            IN IF j \in DOMAIN u /\ Underlines(u[j]) THEN j ELSE j - 1
KindOf(u, k, last) ==
    IF Opens(u[k]) THEN "fenced_block"
    ELSE IF Heading(u[k]) \/ (last > k /\ Underlines(u[last])) THEN "heading"
    ELSE "paragraph"

(* _markdown_v1                                                             *)
Blocks(t) ==
    LET L == Lines(t)
        u == [k \in DOMAIN L |-> Content(t, L[k])]
        From[k \in 1 .. Len(L) + 1] ==
            IF k > Len(L) THEN <<>>
            ELSE IF Blank(u[k]) THEN From[k + 1]
            ELSE LET last == LastLine(u, k)
                 IN <<[kind |-> KindOf(u, k, last), start |-> L[k].start, end |-> L[last].end]>>
                    \o From[last + 1]
    IN From[1]

(* _bounded_parts                                                           *)
PartEnd(b, p) == Min({b.start + p * MaxPart, b.end})
Parts(b) ==
    [p \in 1 .. (b.end - b.start + MaxPart - 1) \div MaxPart |->
        [kind |-> b.kind, start |-> b.start + (p - 1) * MaxPart, end |-> PartEnd(b, p)]]

(* derive_chapter_segment_map, and whether it derives anything.              *)
Segments(t) == LET B == Blocks(t) IN FlattenSeq([i \in DOMAIN B |-> Parts(B[i])])
Derivable(t) == Len(Segments(t)) \in 1 .. MaxSegments

(* _validate_map_integrity, for a map of a text of the given size.           *)
WellFormed(map, size) ==
    /\ Len(map) \in 1 .. MaxSegments
    /\ \A i \in DOMAIN map :
        /\ map[i].start < map[i].end /\ map[i].end <= size
        /\ map[i].start >= IF i = 1 THEN 0 ELSE map[i - 1].end
        /\ map[i].end - map[i].start <= MaxPart

(* build_chapter_review_segment_batches                                     *)
Batches(map) ==
    [n \in 1 .. (Len(map) + Batch - 1) \div Batch |->
        SubSeq(map, (n - 1) * Batch + 1, Min({n * Batch, Len(map)}))]

-----------------------------------------------------------------------------
(* Which texts become the candidate of a run: the composition of a first    *)
(* draft (compose_initial_markdown) and a manual edit (_prepare_and_persist *)
(* of ManualEditSaga), each with a map that is derived before the write.    *)
Answer(c) == c # <<>> /\ c = Strip(c)
Compose(answers) ==
    FlattenSeq([i \in DOMAIN answers |->
        answers[i] \o (IF i = Len(answers) THEN <<"newline">> ELSE <<"newline", "newline">>)])
Writable(t) == ~Blank(t) /\ Derivable(t)

(* ReviewSegmentSnapshot: the segments a reviewer may be given.              *)
Reviewable(t) == Derivable(t) /\ \A s \in Range(Segments(t)) : Answer(Content(t, s))

(* SourceDraftSegment and AllowedChapterSegment: those a writer may be given.*)
Revisable(t) == Reviewable(t) /\ \A s \in Range(Segments(t)) : s.end - s.start <= MaxBrief

(* ChapterReviewReport and validate_chapter_review_report: what a reviewer   *)
(* says of a map, each finding on some of its segments.  The outcome is     *)
(* that of the worst finding (_review_outcome).                             *)
ValidReport(map, findings, passed) ==
    /\ \A f \in findings : f.evidence # {} /\ f.evidence \subseteq DOMAIN map
    /\ passed <=> \A f \in findings : f.severity # "blocking"
ReportOutcome(findings) ==
    IF \E f \in findings : f.severity = "blocking" THEN "blocking"
    ELSE IF \E f \in findings : f.severity = "warning" THEN "warning"
    ELSE "passed"

(* selected_findings and request_review_revision: the author chooses among   *)
(* the findings, the blocking ones with them, and the segments they name    *)
(* are rewritten; there must be some (_review_revision_request).            *)
MaySelect(findings, chosen) ==
    chosen \subseteq findings /\ {f \in findings : f.severity = "blocking"} \subseteq chosen
RevisionTargets(chosen) == UNION {f.evidence : f \in chosen}

(* _submission_input: a comment on a passage asks for the segments it meets. *)
Touched(map, from, to) == {i \in DOMAIN map : map[i].start < to /\ map[i].end > from}

(* validate_candidate_chapter_output: an answer for each target, and to an   *)
(* author's feedback one that changes something.                            *)
ValidAnswer(t, answers, feedback) ==
    /\ DOMAIN answers # {} /\ DOMAIN answers \subseteq DOMAIN Segments(t)
    /\ \A i \in DOMAIN answers : Answer(answers[i])
    /\ feedback => \E i \in DOMAIN answers : answers[i] # Content(t, Segments(t)[i])

(* merge_segment_replacements: one pass over the text.                       *)
Merge(t, answers) ==
    LET map == Segments(t)
        From[i \in 1 .. Len(map) + 1, cursor \in 0 .. Len(t)] ==
            IF i > Len(map) THEN SubSeq(t, cursor + 1, Len(t))
            ELSE IF i \in DOMAIN answers
              THEN SubSeq(t, cursor + 1, map[i].start) \o answers[i] \o From[i + 1, map[i].end]
            ELSE From[i + 1, cursor]
    IN From[1, 0]
=============================================================================
