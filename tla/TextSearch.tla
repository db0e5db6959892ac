----------------------------- MODULE TextSearch -----------------------------
(***************************************************************************)
(* search_text (src/litecoder/tools/builtin/search.py): the files of the   *)
(* workspace are read in chunks, and their lines and the matches in them   *)
(* are found in one pass, character by character, until there is one match *)
(* more than was asked for.  A character is a letter, in either case, or   *)
(* one of the two that end lines; a regular expression stands for the text *)
(* it matches, and is tried on the beginning of a long line only.          *)
(***************************************************************************)
EXTENDS Naturals, Sequences, FiniteSetsExt, SequencesExt

CONSTANTS
    Queries,        \* sequences of letters
    MaxLine,        \* MAX_SEARCH_LINE_BYTES
    MaxLimit,       \* bound: matches asked for
    MaxFiles,       \* bound: files searched
    MaxText         \* bound: characters in all of them

VARIABLES
    query, regex, caseSensitive, limit,
    at,             \* between two files, in one, at the end of the search
    scan,           \* what _search_chunks has of the file
    afterReturn,    \* the chunk goes on after a carriage return
    matches,        \* of the files before
    resultTruncated,
    searchIncomplete,
    text,           \* ghost: the file as far as it was read
    expected,       \* ghost: every match of the files before
    files, length

vars ==
    <<query, regex, caseSensitive, limit, at, scan, afterReturn, matches,
      resultTruncated, searchIncomplete, text, expected, files, length>>
given == <<query, regex, caseSensitive, limit>>

Letters == {"a", "A"}
Breaks == {"CR", "LF"}
Columns == Seq(1 .. MaxText)

TypeOK ==
    /\ query \in Queries /\ regex \in BOOLEAN /\ caseSensitive \in BOOLEAN
    /\ limit \in 1 .. MaxLimit
    /\ at \in {"between", "file", "end"}
    /\ scan.prefix \in Seq(Letters) /\ Len(scan.prefix) <= MaxLine
    /\ scan.cut \in BOOLEAN /\ scan.chars \in 0 .. MaxText
    /\ scan.columns \in Columns /\ scan.state \in 0 .. Len(query) - 1
    /\ scan.pendingCr \in BOOLEAN /\ scan.line \in 0 .. MaxText
    /\ Len(scan.matches) <= MaxLimit
    /\ scan.more \in BOOLEAN /\ scan.incomplete \in BOOLEAN
    /\ afterReturn \in BOOLEAN
    /\ resultTruncated \in BOOLEAN /\ searchIncomplete \in BOOLEAN
    /\ text \in Seq(Letters \cup Breaks)
    /\ files \in 0 .. MaxFiles /\ length \in 0 .. MaxText

\* A line that begins.
EmptyLine == [prefix |-> <<>>, cut |-> FALSE, chars |-> 0, columns |-> <<>>,
              state |-> 0]
NewScan == EmptyLine @@ [pendingCr |-> FALSE, line |-> 0, matches |-> <<>>,
                         more |-> FALSE, incomplete |-> FALSE]

Init ==
    /\ query \in Queries
    /\ regex \in BOOLEAN
    /\ caseSensitive \in BOOLEAN
    /\ limit \in 1 .. MaxLimit
    /\ at = "between"
    /\ scan = NewScan
    /\ afterReturn = FALSE
    /\ matches = <<>>
    /\ resultTruncated = FALSE /\ searchIncomplete = FALSE
    /\ text = <<>> /\ expected = <<>>
    /\ files = 0 /\ length = 0

-----------------------------------------------------------------------------
(* Lines and the matches in them.                                          *)

\* _literal_unit
Unit(c) == IF caseSensitive \/ c \notin Letters THEN c ELSE "a"
Units == [i \in 1 .. Len(query) |-> Unit(query[i])]

\* _kmp_failure: by length of what has matched, the longest of its ends that is
\* a beginning too.
Failure ==
    LET failure[n \in 1 .. Len(query)] ==
            IF n = 1 THEN 0
            ELSE LET fall[m \in 0 .. n - 1] ==
                         IF m = 0 \/ Units[n] = Units[m + 1] THEN m
                         ELSE fall[failure[m]]
                     matched == fall[failure[n - 1]]
                 IN IF Units[n] = Units[matched + 1] THEN matched + 1 ELSE 0
    IN failure

\* The literal's length that matches after one more character.
Advance(state, c) ==
    LET fall[m \in 0 .. Len(query) - 1] ==
            IF m = 0 \/ Unit(c) = Units[m + 1] THEN m ELSE fall[Failure[m]]
    IN IF Unit(c) = Units[fall[state] + 1] THEN fall[state] + 1 ELSE fall[state]

\* Where a text has the query, from the left and without overlaps.
Occurrences(line) ==
    LET Fits(i) == \A k \in 1 .. Len(query) : Unit(line[i + k - 1]) = Units[k]
        from[i \in 1 .. Len(line) + Len(query)] ==
            IF i + Len(query) > Len(line) + 1 THEN <<>>
            ELSE IF Fits(i) THEN <<i>> \o from[i + Len(query)] ELSE from[i + 1]
    IN from[1]

Remaining == limit - Len(matches)

AppendCharacter(s, c) ==
    LET state == Advance(s.state, c)
        whole == ~regex /\ state = Len(query)
        capacity == Remaining - Len(s.matches) + 1
        fits == Len(s.prefix) < MaxLine
    IN [s EXCEPT
          !.state = IF regex \/ whole THEN 0 ELSE state,
          !.columns = IF whole /\ Len(@) < capacity
                      THEN Append(@, s.chars - Len(query) + 2) ELSE @,
          !.chars = @ + 1,
          !.prefix = IF fits THEN Append(@, c) ELSE @,
          !.cut = @ \/ ~fits]

FinishLine(s) ==
    LET columns == IF regex THEN Occurrences(s.prefix) ELSE s.columns
        room == Remaining - Len(s.matches)
        here == [i \in 1 .. Min({room, Len(columns)}) |->
                    <<files, s.line + 1, columns[i]>>]
    IN EmptyLine @@
       [s EXCEPT
          !.line = @ + 1,
          !.matches = @ \o here,
          !.more = @ \/ Len(columns) > room,
          !.incomplete = @ \/ (regex /\ s.cut)]

-----------------------------------------------------------------------------
(* _search_chunks: one character after the other; a carriage return that   *)
(* ends a chunk waits for the next one.                                    *)

OpenFile ==
    /\ at = "between" /\ ~resultTruncated /\ files < MaxFiles
    /\ at' = "file"
    /\ scan' = NewScan
    /\ text' = <<>>
    /\ files' = files + 1
    /\ afterReturn' = FALSE
    /\ UNCHANGED <<given, matches, resultTruncated, searchIncomplete, expected,
                   length>>

Scanning(c) ==
    /\ at = "file" /\ ~scan.more
    /\ length < MaxText
    /\ length' = length + 1
    /\ text' = Append(text, c)
    /\ UNCHANGED <<given, at, matches, resultTruncated, searchIncomplete, expected,
                   files>>

\* What a return at the end of the chunk before has left to do.
Resumed == IF scan.pendingCr THEN [FinishLine(scan) EXCEPT !.pendingCr = FALSE]
           ELSE scan

Letter(c) ==
    /\ Scanning(c)
    /\ scan' = IF Resumed.more THEN Resumed ELSE AppendCharacter(Resumed, c)
    /\ afterReturn' = FALSE

\* The second half of a line's end; the first was in the chunk before.
LineFeedCountedAgain ==
    /\ Scanning("LF")
    /\ scan' = IF Resumed.more THEN Resumed ELSE FinishLine(Resumed)
    /\ afterReturn' = FALSE

LineFeed ==
    /\ Scanning("LF")
    /\ scan' = IF scan.pendingCr \/ afterReturn THEN Resumed ELSE FinishLine(scan)
    /\ afterReturn' = FALSE

\* A return in the middle of a chunk ends the line, alone or with a line feed.
Return ==
    /\ Scanning("CR")
    /\ scan' = IF Resumed.more THEN Resumed ELSE FinishLine(Resumed)
    /\ afterReturn' = TRUE

ReturnAtChunkEnd ==
    /\ Scanning("CR")
    /\ scan' = IF Resumed.more THEN Resumed ELSE [Resumed EXCEPT !.pendingCr = TRUE]
    /\ afterReturn' = FALSE

\* The lines of a text, by where they begin.
EveryMatch(whole) ==
    LET Ends(i) == whole[i] = "LF" \/
                   (whole[i] = "CR" /\ (i = Len(whole) \/ whole[i + 1] # "LF"))
        starts == {1} \cup {i + 1 : i \in {j \in 1 .. Len(whole) : Ends(j)}}
        Line(i) ==
            LET stop == Min({j \in i .. Len(whole) : whole[j] \in Breaks}
                            \cup {Len(whole) + 1})
            IN SubSeq(whole, i, stop - 1)
        numbered == SetToSortSeq(starts, <)
        Of(n) == LET columns == Occurrences(Line(numbered[n]))
                 IN [k \in 1 .. Len(columns) |-> <<files, n, columns[k]>>]
    IN FlattenSeq([n \in 1 .. Len(numbered) |-> Of(n)])

\* The file ends, or there is a match more than the limit.
FinishFile ==
    /\ at = "file"
    /\ afterReturn => scan.more
    /\ LET last == IF scan.more THEN scan
                   ELSE IF scan.pendingCr \/ scan.chars > 0 \/ scan.cut
                   THEN FinishLine(scan) ELSE scan
       IN /\ matches' = matches \o last.matches
          /\ resultTruncated' = last.more
          /\ searchIncomplete' = (searchIncomplete \/ last.incomplete)
    /\ at' = "between"
    /\ expected' = expected \o EveryMatch(text)
    /\ scan' = NewScan
    /\ afterReturn' = FALSE
    /\ text' = <<>>
    /\ UNCHANGED <<given, files, length>>

\* It is too long, is no text, or cannot be read: what it had is left out.
SkipFile ==
    /\ at = "file" /\ ~scan.more /\ ~afterReturn
    /\ at' = "between"
    /\ scan' = NewScan
    /\ afterReturn' = FALSE
    /\ text' = <<>>
    /\ UNCHANGED <<given, matches, resultTruncated, searchIncomplete, expected,
                   files, length>>

Finish ==
    /\ at = "between"
    /\ at' = "end"
    /\ UNCHANGED <<given, scan, afterReturn, matches, resultTruncated,
                   searchIncomplete, text, expected, files, length>>

Next ==
    \/ OpenFile
    \/ \E c \in Letters : Letter(c)
    \/ LineFeed
    \/ Return
    \/ ReturnAtChunkEnd
    \/ FinishFile
    \/ SkipFile
    \/ Finish

Spec == Init /\ [][Next]_vars

-----------------------------------------------------------------------------
\* However the files are cut into chunks, whatever ends their lines, and wherever
\* the limit is met, the search reports the matches a reader of the whole text
\* finds, in order, up to the limit, each at its line and column, and says that
\* there are more exactly if there are; unless it says that a line was too long
\* for the expression (_search_chunks, SearchTextTool.execute).
SearchIsExact ==
    (at = "end" /\ ~searchIncomplete) =>
        /\ matches = SubSeq(expected, 1, Min({limit, Len(expected)}))
        /\ resultTruncated <=> Len(expected) > limit
=============================================================================
