------------------------------ MODULE MCFunctions -------------------------------
(***************************************************************************)
(* Instances of NextRun, ContextBuilding, PagedReading and Chunking for    *)
(* TLC.  They share nothing: a behaviour is one of one part, and the       *)
(* variables of the other parts keep the values of an idle one.  input is  *)
(* what a function of Chunking, or a search, is applied to.                *)
(***************************************************************************)
EXTENDS NextRun, ContextBuilding, PagedReading, Chunking

CONSTANTS
    MaxLine,     \* bound: words in a line
    WordTokens,  \* tokens of a word
    MaxFiles     \* _MAX_FILES_SCANNED

VARIABLES part, input

mcVars == <<vars, contextVars, readingVars, part, input>>

\* Days of six units; a clock set back by two units, one set forward, one that stays.
MCZones == {[change |-> c, before |-> b, after |-> a] :
                c \in {45, 50}, b \in {2, 4}, a \in {2, 4}}

MCCallLists == {<<1>>, <<2, 1>>, <<1, 1>>}

\* Pages of up to five characters, some of which JSON escapes.
MCDocuments == TupleOf(BoundedSeq({1, 2}, 3), 2) \cup TupleOf(BoundedSeq({1}, 3), 3)
                 \cup TupleOf(BoundedSeq({2}, 5), 2)

Lines == BoundedSeq(WordTokens, 2) \cup {[i \in 1..n |-> 1] : n \in 0..MaxLine}
Paragraphs == TupleOf(Lines \ {<<>>}, 1) \cup TupleOf({l \in Lines \ {<<>>} : l[1] = 1}, 2)

\* One section, or two short ones.
MCSections == {<<s>> : s \in TupleOf(Paragraphs, 2) \cup TupleOf(TupleOf(Lines \ {<<>>}, 1), 3)}
                \cup TupleOf(TupleOf(TupleOf(Lines \ {<<>>}, 1), 1), 2)

\* Four chunks of three documents, each found once or twice.
MCCandidates == {[i \in DOMAIN s |-> [chunk |-> s[i], document |-> s[i] \div 2]] :
                     s \in BoundedSeq(1..4, 4)}

MCTargets == {<<a, b>> : a \in BoundedSeq(FileKinds, 2), b \in BoundedSeq(FileKinds, 3)}

ClockIdle ==
    /\ zone = CHOOSE z \in Zones : TRUE
    /\ kind = "daily" /\ localTime = 0 /\ weekday = 0 /\ now = 0 /\ chained = FALSE

MCInit ==
    \/ part = "clock" /\ Init /\ ContextInit /\ ReadingIdle /\ input = <<>>
    \/ part = "context" /\ ClockIdle /\ ContextInit /\ ReadingIdle /\ input = <<>>
    \/ part = "reading" /\ ClockIdle /\ ContextInit /\ ReadingInit /\ input = <<>>
    \/ part = "chunking" /\ ClockIdle /\ ContextInit /\ ReadingIdle /\ input \in MCSections
    \/ part = "diversity" /\ ClockIdle /\ ContextInit /\ ReadingIdle /\ input \in MCCandidates
    \/ part = "search" /\ ClockIdle /\ ContextInit /\ ReadingIdle /\ input \in MCTargets

MCNext ==
    /\ UNCHANGED <<part, input>>
    /\ \/ part = "clock" /\ Next /\ UNCHANGED <<contextVars, readingVars>>
       \/ part = "context" /\ ContextNext /\ UNCHANGED <<vars, readingVars>>
       \/ part = "reading" /\ ReadingNext /\ UNCHANGED <<vars, contextVars>>

MCSpec == MCInit /\ [][MCNext]_mcVars

-------------------------------------------------------------------------------

\* Whether word v stands before word w in its section.
Before(v, w) == \E k \in 1..3 : v[k] < w[k] /\ \A j \in 1..(k - 1) : v[j] = w[j]

(* Indexing loses no word: every word of every section is in a chunk, and  *)
(* the chunks of a section come in its order (split_section_into_chunks,   *)
(* chunk_document).                                                        *)
EveryWordIsIndexed ==
    part = "chunking" =>
        LET chunks == ChunkDocument(input)
            indexed(s) == UNION {ToSet(chunks[c].words) :
                                    c \in {d \in DOMAIN chunks : chunks[d].section = s}}
        IN  /\ \A s \in DOMAIN input : ToSet(SectionWords(input[s])) \subseteq indexed(s)
            /\ \A c \in 1..(Len(chunks) - 1) :
                   \/ chunks[c].section < chunks[c + 1].section
                   \/ /\ chunks[c].section = chunks[c + 1].section
                      /\ ~Before(Head(chunks[c + 1].words), Head(chunks[c].words))
                      /\ ~Before(Last(chunks[c + 1].words), Last(chunks[c].words))

(* A chunk of words of one token has at most twice the target: a segment   *)
(* that is carried over and the next one.                                  *)
ChunksAreBounded ==
    part = "chunking" =>
        \A chunk \in ToSet(ChunkDocument(input)) :
            LET section == input[chunk.section]
                words   == chunk.words
            IN  (\A w \in ToSet(words) : section[w[1]][w[2]][w[3]] = 1)
                    => TokensOf(section, words) <= 2 * Target

(* The best candidate is always selected, none twice, as many as there are *)
(* up to the limit, and from two documents when there are two.             *)
SelectionIsDiverse ==
    part = "diversity" =>
        \A limit \in 0..4 :
            LET selected == SelectDiverse(input, limit)
                names    == {input[i].chunk : i \in ToSet(selected)}
                from(positions) == {input[i].document : i \in positions}
            IN  /\ Len(selected) = Min({limit, Cardinality({input[i].chunk : i \in DOMAIN input})})
                /\ Cardinality(names) = Len(selected)
                /\ selected # <<>> => selected[1] = 1
                /\ limit >= 2 /\ Cardinality(from(DOMAIN input)) >= 2
                       => Cardinality(from(ToSet(selected))) >= 2

(* What a search does not say it left out it has looked at: without one of *)
(* its two notes, every file; and it stops for a limit only when it is     *)
(* reached (execute of filesystem.search_files).                           *)
SearchIsHonest ==
    part = "search" =>
        LET files == FilesInTarget(input[1]) \o FilesInTarget(input[2])
            matches(n) == {i \in 1..n : files[i] \in {"name", "line"}}
        IN  \A limit \in 1..3 :
                LET search == SearchFiles(input, limit, MaxFiles)
                IN  /\ ToSet(search.results) = matches(search.scanned)
                    /\ search.scanned <= MaxFiles
                    /\ search.skipped = Cardinality({i \in 1..search.scanned : files[i] = "skipped"})
                    /\ search.resultLimit => Len(search.results) = limit
                    /\ search.scanLimit => search.scanned = MaxFiles /\ Len(files) > MaxFiles
                    /\ ~search.resultLimit /\ ~search.scanLimit => search.scanned = Len(files)

(* What is there can be found: a document by each of its words, besides a  *)
(* document that fits better, and a file, or a note that it was left out.  *)
RetrievalIsRight ==
    EveryWordIsIndexed /\ ChunksAreBounded /\ SelectionIsDiverse /\ SearchIsHonest

===============================================================================
