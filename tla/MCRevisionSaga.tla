----------------------------- MODULE MCRevisionSaga -----------------------------
(***************************************************************************)
(* The sagas of RevisionSaga on a small instance, and beside them what they *)
(* rewrite: ChapterSegments on every text of at most TextBound units.       *)
(***************************************************************************)
EXTENDS RevisionSaga, ChapterSegments

CONSTANT TextBound

Texts == SeqOf(Unit, TextBound)
Mapped == {t \in Texts : Derivable(t)}
Has(s, i) == s.start < i /\ i <= s.end

(* No word of a text is lost and none is in two segments, and a derived map *)
(* passes the check that is made of every map.                              *)
ASSUME SegmentsCoverText ==
    \A t \in Texts :
        LET map == Segments(t) IN
        /\ \A i \in DOMAIN t : t[i] \notin White =>
              Cardinality({n \in DOMAIN map : Has(map[n], i)}) = 1
        /\ Derivable(t) => WellFormed(map, Len(t))

(* Every segment is in one batch, in its order.                             *)
ASSUME BatchesCoverMap ==
    \A n \in 0 .. 3 * Batch :
        LET map == [i \in 1 .. n |-> i]
        IN FlattenSeq(Batches(map)) = map /\ \A b \in DOMAIN Batches(map) : Len(Batches(map)[b]) \in 1 .. Batch

(* A comment on words asks for the segments of all of them.                  *)
ASSUME CommentsReachWords ==
    \A t \in Mapped : LET map == Segments(t) IN
        \A from \in 0 .. Len(t), to \in 0 .. Len(t) : \A i \in from + 1 .. to :
            t[i] \notin White => \E n \in Touched(map, from, to) : Has(map[n], i)

(* Whatever a reviewer has found, a revision can be asked for unless there   *)
(* is nothing but praise; one that follows a blocking report touches every  *)
(* segment the report blocks.                                               *)
Findings == [severity : {"blocking", "warning", "note"}, evidence : SUBSET (1 .. 2)]
ASSUME BlockersAreRewritten ==
    \A findings \in SUBSET Findings, passed \in BOOLEAN :
        ValidReport(<<1, 2>>, findings, passed) =>
            /\ passed <=> ReportOutcome(findings) # "blocking"
            /\ findings # {} =>
                  \E chosen \in SUBSET findings : MaySelect(findings, chosen) /\ RevisionTargets(chosen) # {}
            /\ \A chosen \in SUBSET findings : MaySelect(findings, chosen) =>
                  \A f \in findings : f.severity = "blocking" => f.evidence \subseteq RevisionTargets(chosen)

(* A merge replaces what it was asked to and nothing else: piece by piece,   *)
(* the text is its gaps and its segments.                                   *)
Answers == {<<"word">>, <<"word", "newline", "newline", "space", "word">>, <<"fence">>}
Pieces(t, answers) ==
    LET map == Segments(t)
        Gap(i) == SubSeq(t, IF i = 1 THEN 1 ELSE map[i - 1].end + 1,
                            IF i > Len(map) THEN Len(t) ELSE map[i].start)
    IN FlattenSeq([i \in 1 .. Len(map) + 1 |-> Gap(i) \o
          (IF i > Len(map) THEN <<>> ELSE IF i \in DOMAIN answers THEN answers[i] ELSE Content(t, map[i]))])
ASSUME MergeIsLocal ==
    \A t \in Mapped : \A targets \in SUBSET DOMAIN Segments(t) :
        /\ Merge(t, [i \in targets |-> Content(t, Segments(t)[i])]) = t
        /\ \A answers \in [targets -> Answers] : Merge(t, answers) = Pieces(t, answers)

(* A plain answer to a paragraph that was not cut leaves every other segment *)
(* the text and the kind it had.                                            *)
Shape(t) == LET map == Segments(t) IN [i \in DOMAIN map |-> <<map[i].kind, Content(t, map[i])>>]
Whole(t, i) == Segments(t)[i] \in Range(Blocks(t))
ASSUME PlainAnswersStay ==
    \A t \in Mapped : \A i \in DOMAIN Segments(t) :
        Segments(t)[i].kind = "paragraph" /\ Whole(t, i) =>
            Shape(Merge(t, i :> <<"word">>)) = [Shape(t) EXCEPT ![i] = <<"paragraph", <<"word">>>>]

(* A first draft of plain sections can be reviewed, section by section.      *)
ASSUME PlainDraftsReviewable ==
    \A n \in 1 .. MaxSegments :
        LET t == Compose([i \in 1 .. n |-> <<"word">>])
        IN Reviewable(t) /\ Len(Segments(t)) = n

(* What is not guaranteed, each shown by a text.  A text is written though   *)
(* no reviewer may be given it: an indented paragraph is enough, and so is  *)
(* an answer with one or with a fence it does not close.  A text that has   *)
(* been reviewed cannot be revised when a paragraph is long.  An answer     *)
(* with an open fence takes the segments after it along.                    *)
ASSUME SomeEditsUnreviewable == \E t \in Texts : Writable(t) /\ ~Reviewable(t)
ASSUME SomeDraftsUnreviewable ==
    \A c \in Answers \ {<<"word">>} : Answer(c) /\ Writable(Compose(<<c>>)) /\ ~Reviewable(Compose(<<c>>))
ASSUME SomeTextsUnrevisable == \E t \in Texts : Reviewable(t) /\ ~Revisable(t)
ASSUME SomeAnswersSwallow ==
    \E t \in Mapped : /\ ValidAnswer(t, 1 :> <<"fence">>, TRUE)
                      /\ Len(Segments(Merge(t, 1 :> <<"fence">>))) < Len(Segments(t))
=============================================================================
