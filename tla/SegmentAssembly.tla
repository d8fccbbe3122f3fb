---------------------------- MODULE SegmentAssembly ----------------------------
(***************************************************************************)
(* SVSPubSub::decodeInnerSegments: the packets of a segmented publication, *)
(* in the order the network returned them, are put together again or       *)
(* refused.                                                                *)
(***************************************************************************)
EXTENDS Naturals, Sequences, SequencesExt

CONSTANT NoAssembly   \* std::nullopt

\* A Data packet of a segmented publication.  sound: it decodes, its name ends
\* in a version and a segment number, it has a final block and content.
Segment(base, number, final) ==
  [base |-> base, number |-> number, final |-> final, sound |-> TRUE]

Malformed(base) == [Segment(base, 0, 0) EXCEPT !.sound = FALSE]

\* The packets of a publication of count segments, as prepared by its producer.
Segments(base, count) == [i \in 1 .. count |-> Segment(base, i - 1, count - 1)]

\* One turn of the loop: the packets taken so far, or NoAssembly.
TakeSegment(taken, block) ==
  IF /\ taken # NoAssembly
     /\ block.sound /\ block.number <= block.final
     /\ \A other \in taken : /\ other.base = block.base
                             /\ other.final = block.final
                             /\ other.number # block.number
  THEN taken \cup {block} ELSE NoAssembly

\* Faulty variant: packets may be missing.
DecodeWhatIsThere(blocks) ==
  LET taken == FoldLeft(TakeSegment, {}, blocks)
  IN  IF taken \in {{}, NoAssembly} THEN NoAssembly
      ELSE SetToSortSeq(taken, LAMBDA x, y : x.number < y.number)

\* The payload, as the sequence of the packets whose contents it joins.
DecodeInnerSegments(blocks) ==
  LET taken == FoldLeft(TakeSegment, {}, blocks)
      final == (CHOOSE block \in taken : TRUE).final
  IN  IF taken \in {{}, NoAssembly} THEN NoAssembly
      ELSE IF { block.number : block \in taken } # 0 .. final THEN NoAssembly
      ELSE [i \in 1 .. final + 1 |-> CHOOSE block \in taken : block.number = i - 1]
================================================================================
