----------------------------- MODULE FilePages -----------------------------
(***************************************************************************)
(* Paged reading of one text file: FilePageEngine (file-page-engine.ts)    *)
(* over FileService.readFile and its two readers.  A line is a number: 0   *)
(* for an empty one, otherwise one byte.  The file stays what it is.       *)
(***************************************************************************)
EXTENDS Integers, Sequences, SequencesExt, Functions, Selections

CONSTANTS LineKinds,      \* the lines a file may have: subset of {0, 1, 2, 3}
          MaxLines,       \* bound: lines of the file
          PageSizes, Targets   \* what a request may ask for; target 0 is none

VARIABLES
    file,         \* the lines, whether the last one is ended by a newline,
                  \* whether the file exceeds MAX_FILE_READ_BYTES, and whether
                  \* the workspace is trusted
    token,        \* the continuation: next line, page size, target; or None
    pages         \* history: the pages of one chain, in order

pageVars == <<file, token, pages>>

None == <<>>

PagesInit ==
    /\ file \in [lines : SeqOf(LineKinds, MaxLines), ended : BOOLEAN, large : BOOLEAN, trusted : BOOLEAN]
    /\ token = None /\ pages = <<>>

-----------------------------------------------------------------------------
(* What split(/\r?\n/) makes of a text, as sequence of lines: the text ''  *)
(* is one empty line, and a newline at the end adds one.                   *)
Text(first, last) ==
    LET lines == SubSeq(file.lines, first, last)
        ends == last < Len(file.lines) \/ file.ended
    IN  IF lines = <<>> \/ ends THEN Append(lines, 0) ELSE lines

CountLines(text) == IF text = <<0>> THEN 0 ELSE Len(text)
Bytes(text) == Len(Selected(text, Range(text) \ {0})) + Len(text) - 1

(* takeLinesToBytes: a line is joined to what has been selected unless that*)
(* is still the empty text.                                                *)
TakeLinesToBytes(text, target) ==
    LET Take(taken, line) ==
            LET next == IF taken.text = <<0>> THEN <<line>> ELSE Append(taken.text, line)
            IN  IF taken.done \/ (taken.count > 0 /\ Bytes(next) > target)
                THEN [taken EXCEPT !.done = TRUE]
                ELSE [text |-> next, count |-> taken.count + 1, done |-> Bytes(next) >= target]
        upto[i \in 0..Len(text)] ==
            IF i = 0 THEN [text |-> <<0>>, count |-> 0, done |-> FALSE] ELSE Take(upto[i - 1], text[i])
    IN  upto[Len(text)]

-----------------------------------------------------------------------------
(* TextFileReader, for a range.                                            *)
InRange(start) == ~file.large /\ (start = 1 \/ start <= Len(file.lines))
LastLine(end) == IF end < Len(file.lines) THEN end ELSE Len(file.lines)

(* readFile: in a trusted workspace the reader without limits and ranges   *)
(* takes over wherever the first one gives up.                             *)
Readable(start) == InRange(start) \/ file.trusted
Content(start, end) ==
    IF InRange(start) THEN [text |-> Text(start, LastLine(end)), endLine |-> LastLine(end)]
    ELSE LET all == Text(1, Len(file.lines))
         IN  [text |-> all, endLine |-> IF CountLines(all) > 1 THEN CountLines(all) ELSE 1]

(* readAt: one line more than the page is read to see whether there is one.*)
ReadAt(start, size, target) ==
    LET read == Content(start, start + size)
        cut == IF CountLines(read.text) > size THEN SubSeq(read.text, 1, size) ELSE read.text
        fits == target = 0 \/ Bytes(cut) <= target
        page == IF fits THEN cut ELSE TakeLinesToBytes(cut, target).text
        count == IF fits THEN CountLines(cut) ELSE TakeLinesToBytes(cut, target).count
        endLine == IF count = 0 THEN start ELSE start + count - 1
    IN  /\ pages' = Append(pages, [startLine |-> start, endLine |-> endLine, text |-> page, target |-> target])
        /\ token' = IF read.endLine > endLine THEN <<endLine + 1, size, target>> ELSE None

ReadPage ==
    /\ pages = <<>>
    /\ \E start \in 1..(Len(file.lines) + 1), size \in PageSizes, target \in Targets :
          Readable(start) /\ ReadAt(start, size, target)
    /\ UNCHANGED file

(* continue: the token is used up; the page size may be another one.       *)
ContinuePage ==
    /\ token # None
    /\ \E size \in PageSizes : Readable(token[1]) /\ ReadAt(token[1], size, token[3])
    /\ UNCHANGED file

PagesNext == ReadPage \/ ContinuePage
PagesSpec == PagesInit /\ [][PagesNext]_pageVars

-----------------------------------------------------------------------------
(* The text of a page without the newline that ends the file.              *)
Body(page) ==
    LET n == Len(page.text)
    IN  IF page.startLine + n - 1 > Len(file.lines) THEN SubSeq(page.text, 1, n - 1) ELSE page.text
Delivered == Flattened([i \in 1..Len(pages) |-> Body(pages[i])])
Wanted == SubSeq(file.lines, pages[1].startLine, Len(file.lines))

LosslessChain ==
    pages # <<>> /\ pages[1].startLine <= Len(file.lines)
    => IsPrefix(Delivered, Wanted) /\ (token = None => Delivered = Wanted)

(* Whatever the page sizes, byte targets and ends of the file, the pages of*)
(* a chain are the lines of the file from the first one asked for, each    *)
(* once and in order (file-page-engine.ts 67-130): for files that the text *)
(* reader takes, and unless empty lines meet a byte target.                *)
PagesLossless ==
    ~file.large /\ (pages # <<>> => pages[1].target = 0 \/ 0 \notin Range(file.lines))
    => LosslessChain
=============================================================================
