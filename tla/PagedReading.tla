------------------------------ MODULE PagedReading ------------------------------
(***************************************************************************)
(* Reading what is too long for one tool result: the pages of a PDF        *)
(* (extract_pdf_text_from_stream of tools/pdf_text.py, for files and for   *)
(* the browser's PDF alike), the entries of a directory, page by page      *)
(* (filesystem_list.py), and a search that stops at its limits             *)
(* (filesystem_search_files.py).                                           *)
(*                                                                         *)
(* The model that reads passes the next position of one result as the      *)
(* start of the next call.  A page is the sequence of its characters, each *)
(* given by its length in JSON; a directory is one page of entries.        *)
(***************************************************************************)
EXTENDS Integers, SequencesExt, FiniteSetsExt

CONSTANTS
    Documents,    \* PDFs, sequences of pages
    MaxText,      \* MAX_ACCUMULATED_TEXT_CHARS
    MaxPayload,   \* MAX_RESULT_CHARS
    BaseLength,   \* length of a payload with no pages
    PageLength,   \* length a page adds to the payload
    Batch,        \* DEFAULT_PAGE_BATCH
    MaxPages,     \* MAX_PAGES_PER_CALL
    Entries,      \* numbers of entries of a directory
    PageSizes     \* max_entries

\* A page with one character always fits.
ASSUME ReadingAssumption ==
    /\ {MaxText, Batch, MaxPages} \cup PageSizes \subseteq Nat \ {0}
    /\ {MaxPayload, BaseLength, PageLength} \cup Entries \subseteq Nat
    /\ \A d \in Documents : \A p \in DOMAIN d : \A i \in DOMAIN d[p] :
           BaseLength + PageLength + d[p][i] <= MaxPayload

VARIABLES
    document,  \* what is read; <<>> when nothing is
    page,      \* next_position, or where to begin
    offset,
    taken,     \* the characters or entries read so far, each named by <<page, place>>
    finished   \* no next position was given

readingVars == <<document, page, offset, taken, finished>>

\* available_text[:cut] of page p from offset o on
Part(p, o, cut) == [i \in 1..cut |-> <<p, o + i>>]

Length(text) == FoldLeft(LAMBDA sum, c : sum + document[c[1]][c[2]], 0, text)

\* _fits_payload; read: the text of count pages already taken.
FitsPayload(candidate, read, count) ==
    /\ Len(read) + Len(candidate) <= MaxText
    /\ BaseLength + (count + 1) * PageLength + Length(read) + Length(candidate) <= MaxPayload

\* The binary search: the longest beginning of the page that fits.
BestCut(p, o, read, count) ==
    Max({0} \cup {cut \in 1..(Len(document[p]) - o) :
                      FitsPayload(Part(p, o, cut), read, count)})

\* Mutant of ResumeAt: counted from the start of the part.
RestartAt(p, o, cut) == [page |-> p, offset |-> cut]

ResumeAt(p, o, cut) == [page |-> p, offset |-> o + cut]

\* One page of the loop of extract_pdf_text_from_stream.
AddPage(result, p) ==
    LET o    == IF p = page THEN offset ELSE 0
        rest == Part(p, o, Len(document[p]) - o)
        cut  == BestCut(p, o, result.read, result.count)
    IN  IF result.truncated THEN result
        ELSE IF FitsPayload(rest, result.read, result.count)
        THEN [result EXCEPT !.read = @ \o rest, !.count = @ + 1]
        ELSE [read |-> result.read \o Part(p, o, cut),
              count |-> result.count + (IF cut > 0 THEN 1 ELSE 0),
              truncated |-> TRUE, next |-> ResumeAt(p, o, cut)]

\* The result for pages page..end; a next position past the last page: null.
Extract(end) ==
    FoldLeft(AddPage,
             [read |-> <<>>, count |-> 0, truncated |-> FALSE,
              next |-> [page |-> end + 1, offset |-> 0]],
             [i \in 1..(end - page + 1) |-> page + i - 1])

\* parse_page_range: end_page is left out, or at most MaxPages away.
EndPages ==
    LET last == Len(document)
    IN  {Min({last, page + Batch - 1})} \cup (page..Min({last, page + MaxPages - 1}))

ReadPdf ==
    /\ document \in Documents /\ ~finished
    /\ \E end \in EndPages :
          LET result == Extract(end)
          IN  /\ taken' = taken \o result.read
              /\ page' = result.next.page /\ offset' = result.next.offset
              /\ finished' = (result.next.page > Len(document))
    /\ UNCHANGED document

\* Directories are told from PDFs by the length of an entry.
Directories == {<<[i \in 1..n |-> 0]>> : n \in Entries}

\* execute of filesystem.list; an empty directory or page ends the reading.
ListDirectory ==
    /\ document \in Directories /\ ~finished
    /\ \E size \in PageSizes :
          LET shown == Min({size, Len(document[1]) - offset})
          IN  /\ taken' = taken \o Part(1, offset, shown)
              /\ offset' = offset + shown
              /\ finished' = (offset' = Len(document[1]))
    /\ UNCHANGED <<document, page>>

ReadingInit ==
    /\ document \in Documents \cup Directories
    /\ page = 1 /\ offset = 0 /\ taken = <<>> /\ finished = FALSE

ReadingIdle ==
    /\ document = <<>>
    /\ page = 1 /\ offset = 0 /\ taken = <<>> /\ finished = TRUE

ReadingNext == ReadPdf \/ ListDirectory

-------------------------------------------------------------------------------

(* A search walks the files of its targets in order.  A file is a match of *)
(* its name or of a line, is skipped (too large, unreadable, no text), has *)
(* no match, or is a link and not looked at.                               *)
FileKinds == {"name", "line", "skipped", "other", "link"}

FilesInTarget(target) == SelectSeq(target, LAMBDA f : f # "link")

LookAt(search, f, maxResults, maxFiles) ==
    IF search.resultLimit \/ search.scanLimit THEN search
    ELSE IF search.scanned >= maxFiles THEN [search EXCEPT !.scanLimit = TRUE]
    ELSE LET results == IF f \in {"name", "line"} THEN Append(search.results, search.scanned + 1)
                        ELSE search.results
         IN  [scanned |-> search.scanned + 1, results |-> results, scanLimit |-> FALSE,
              skipped |-> search.skipped + (IF f = "skipped" THEN 1 ELSE 0),
              resultLimit |-> Len(results) >= maxResults]

\* execute of filesystem.search_files
SearchFiles(targets, maxResults, maxFiles) ==
    FoldLeft(LAMBDA search, f : LookAt(search, f, maxResults, maxFiles),
             [scanned |-> 0, results |-> <<>>, skipped |-> 0,
              resultLimit |-> FALSE, scanLimit |-> FALSE],
             FlattenSeq([t \in DOMAIN targets |-> FilesInTarget(targets[t])]))

-------------------------------------------------------------------------------

ReadingTypeOK ==
    /\ document \in Documents \cup Directories \cup {<<>>}
    /\ page \in 1..(Len(document) + 1) /\ offset \in Nat
    /\ page \in DOMAIN document => offset <= Len(document[page])
    /\ \A i \in DOMAIN taken : taken[i][1] \in DOMAIN document
    /\ finished \in BOOLEAN

Whole == FlattenSeq([p \in DOMAIN document |-> Part(p, 0, Len(document[p]))])

(* A reader that follows the positions gets the text from the beginning,   *)
(* with nothing left out and nothing twice, wherever the results are cut   *)
(* and whatever ranges it asks for; what comes next is what the position   *)
(* says.                                                                   *)
ReadInOrder ==
    /\ IsPrefix(taken, Whole)
    /\ ~finished /\ Len(taken) < Len(Whole) =>
           LET next == Whole[Len(taken) + 1]
           IN  next[1] >= page /\ (next[1] = page => next[2] = offset + 1)

(* Once no next position is given everything has been read. *)
ReadToTheEnd == finished => taken = Whole

(* Every call moves the reader on: no document is read forever. *)
ReadingAdvances ==
    [][ ~finished => finished' \/ page' > page \/ (page' = page /\ offset' > offset) ]_readingVars

(* A document that is read part after part is read once, whole and to its  *)
(* end.                                                                    *)
ReadingIsRight == ReadingTypeOK /\ ReadInOrder /\ ReadToTheEnd

===============================================================================
