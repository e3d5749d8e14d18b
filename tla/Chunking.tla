-------------------------------- MODULE Chunking --------------------------------
(***************************************************************************)
(* How a parsed document becomes the chunks that are searched              *)
(* (knowledge/chunker.py), and which of the candidates found an answer     *)
(* uses (_select_diverse_candidates of retriever.py).                      *)
(*                                                                         *)
(* A section is a sequence of paragraphs, a paragraph one of lines, and a  *)
(* line one of words, each given by its tokens: one, or one and its        *)
(* Chinese characters (count_tokens_simple).  A word is named by its       *)
(* paragraph, its line and its place, so no two texts are equal.           *)
(***************************************************************************)
EXTENDS Integers, SequencesExt, FiniteSetsExt

CONSTANTS
    Target,   \* target_tokens
    Overlap   \* overlap_tokens

ASSUME ChunkAssumption == Target \in Nat \ {0} /\ Overlap \in 0..(Target - 1)

LineWords(section, p, l) == [i \in DOMAIN section[p][l] |-> <<p, l, i>>]

ParagraphWords(section, p) ==
    FlattenSeq([l \in DOMAIN section[p] |-> LineWords(section, p, l)])

SectionWords(section) ==
    FlattenSeq([p \in DOMAIN section |-> ParagraphWords(section, p)])

\* token_counter
TokensOf(section, words) ==
    FoldLeft(LAMBDA sum, w : sum + section[w[1]][w[2]][w[3]], 0, words)

\* A long line as windows of Target words that overlap.
LineSegments(section, p, l) ==
    LET words == LineWords(section, p, l)
        step  == Target - Overlap
    IN  IF TokensOf(section, words) <= Target THEN <<words>>
        ELSE [k \in 1..((Len(words) + step - 1) \div step) |->
                 SubSeq(words, (k - 1) * step + 1,
                        Min({(k - 1) * step + Target, Len(words)}))]

\* The paragraphs that are short enough, the lines of the others.
Segments(section) ==
    FlattenSeq([p \in DOMAIN section |->
        IF TokensOf(section, ParagraphWords(section, p)) <= Target
        THEN <<ParagraphWords(section, p)>>
        ELSE FlattenSeq([l \in DOMAIN section[p] |-> LineSegments(section, p, l)])])

\* The last segments of a chunk that begin the next one: at least one.
Carried(section, current) ==
    LET tokens(k) == TokensOf(section,
                         FlattenSeq(SubSeq(current, Len(current) - k + 1, Len(current))))
        kept == Max({1} \cup {k \in 1..Len(current) : tokens(k) <= Overlap})
    IN  SubSeq(current, Len(current) - kept + 1, Len(current))

\* Mutant of AddSegment: the segment that no longer fitted is lost.
LoseSegment(section, state, segment) ==
    LET fits == TokensOf(section, FlattenSeq(state.current) \o segment) <= Target
    IN  IF fits \/ state.current = <<>>
        THEN [state EXCEPT !.current = Append(@, segment)]
        ELSE [chunks  |-> Append(state.chunks, FlattenSeq(state.current)),
              current |-> Carried(section, state.current)]

\* One segment of the loop of split_section_into_chunks.
AddSegment(section, state, segment) ==
    LET fits == TokensOf(section, FlattenSeq(state.current) \o segment) <= Target
    IN  IF fits \/ state.current = <<>>
        THEN [state EXCEPT !.current = Append(@, segment)]
        ELSE [chunks  |-> Append(state.chunks, FlattenSeq(state.current)),
              current |-> Append(Carried(section, state.current), segment)]

\* split_section_into_chunks, a chunk as the sequence of its words
SplitSection(section) ==
    LET words == SectionWords(section)
        end   == FoldLeft(LAMBDA state, segment : AddSegment(section, state, segment),
                          [chunks |-> <<>>, current |-> <<>>], Segments(section))
    IN  IF words = <<>> THEN <<>>
        ELSE IF TokensOf(section, words) <= Target THEN <<words>>
        ELSE Append(end.chunks, FlattenSeq(end.current))

\* chunk_document: the chunks of all sections, in one numbering
ChunkDocument(sections) ==
    FlattenSeq([s \in DOMAIN sections |->
        LET chunks == SplitSection(sections[s])
        IN  [c \in DOMAIN chunks |-> [section |-> s, words |-> chunks[c]]]])

-------------------------------------------------------------------------------

\* The first loop: the best candidate of each of the first two documents.
OfNewDocuments(candidates, limit) ==
    LET first == {i \in DOMAIN candidates :
                     \A j \in 1..(i - 1) : candidates[j].document # candidates[i].document}
    IN  {i \in first : Cardinality({j \in first : j < i}) < Min({limit, 2})}

\* _select_diverse_candidates, as the positions of the selected, in their order
SelectDiverse(candidates, limit) ==
    LET reserved == OfNewDocuments(candidates, limit)
        others   == {i \in DOMAIN candidates \ reserved :
                        \A j \in reserved \cup 1..(i - 1) :
                            candidates[j].chunk # candidates[i].chunk}
        selected == SetToSortSeq(reserved, <) \o SetToSortSeq(others, <)
    IN  IF limit <= 0 THEN <<>> ELSE SubSeq(selected, 1, Min({limit, Len(selected)}))

===============================================================================
