---------------------------- MODULE TraceReader ----------------------------
(***************************************************************************)
(* The streaming reader of trace files and the two functions that drive it *)
(* (src/trace_loader.cpp).  A line is what trim leaves of it: words        *)
(* separated by blanks, or fields separated by commas, each one word or    *)
(* nothing.  Words are told apart as far as the code does, after its       *)
(* change of case: "GET" stands for GET and READ, "PUT" for PUT and WRITE, *)
(* "SET" for SET, UPDATE and INSERT, "op" for op, operation and type, "#"  *)
(* for any word that begins a comment; all others are plain.  A key is a   *)
(* sequence of words, because a line of fields may be one key.             *)
(***************************************************************************)
EXTENDS Integers, SequencesExt

CONSTANTS
    Lines,       \* the lines a file may have
    Plain,       \* the plain words
    NoWord,      \* an empty field
    MaxLines,    \* bound of the model: lines of a file
    Limits       \* the values of max_ops, 0 for no limit

Keywords == {"GET", "PUT", "SET", "op", "#"}

ASSUME WordsAssumption == Plain \cap Keywords = {} /\ NoWord \notin Plain \cup Keywords

ASSUME LinesAssumption ==
    /\ MaxLines \in Nat /\ Limits \subseteq Nat
    /\ \A line \in Lines :
          /\ line.comma \in BOOLEAN
          /\ line.words \in Seq(Plain \cup Keywords \cup (IF line.comma THEN {NoWord} ELSE {}))
          /\ line.comma => Len(line.words) >= 2

VARIABLES
    file, max_ops,
    lines_read, lines_skipped, ops_parsed,
    format,      \* format_; format_known_ is format # "UNKNOWN"
    csv_header_consumed,
    ops,         \* what load_trace_file returns, and stream_trace_file passes on
    loading      \* whether the loop around next() is still running

traceVars ==
    <<file, max_ops, lines_read, lines_skipped, ops_parsed, format, csv_header_consumed, ops, loading>>

Op(type, key) == [type |-> type, key |-> key]

-----------------------------------------------------------------------------
(* One line *)

Blank(line) == line.words # <<>> => line.words[1] = "#"

\* Whether the n-th getline on commas succeeds: it finds a comma or a character.
HasField(line, n) ==
    \/ n < Len(line.words)
    \/ n = Len(line.words) /\ line.words[n] # NoWord

\* detect_format's test for CSV.
LooksLikeCsv(line) ==
    /\ line.comma
    /\ \A n \in 1 .. 3 : HasField(line, n)
    /\ line.words[2] \in {"op", "GET", "PUT"}

\* Faulty: no line is taken for a header.
NeverHeader(line) == FALSE

IsHeader(line) == line.words[2] = "op"

ParseOpType(word) == IF word \in {"PUT", "SET"} THEN "PUT" ELSE "GET"

\* parse_simple, which succeeds on every line that is not blank.  A single
\* token, a line of fields included, is a key to get.
ParseSimple(line) ==
    IF line.comma \/ Len(line.words) = 1 THEN Op("GET", line.words)
    ELSE IF line.words[1] \in {"GET", "PUT", "SET"}
         THEN Op(ParseOpType(line.words[1]), <<line.words[2]>>)
         ELSE Op("GET", <<line.words[1]>>)

\* Whether parse_csv finds a key; a line without commas is a single field.
CsvOk(line) == line.comma /\ HasField(line, 3) /\ line.words[3] # NoWord

ParseCsv(line) == Op(ParseOpType(line.words[2]), <<line.words[3]>>)

-----------------------------------------------------------------------------
(* The loop of next(), one step per line, and of the loaders around it *)

TraceInit ==
    /\ file \in UNION {[1 .. n -> Lines] : n \in 0 .. MaxLines}
    /\ max_ops \in Limits
    /\ lines_read = 0 /\ lines_skipped = 0 /\ ops_parsed = 0
    /\ format = "UNKNOWN" /\ csv_header_consumed = FALSE
    /\ ops = <<>>
    /\ loading = TRUE

Line == file[lines_read + 1]

HasLine == loading /\ lines_read < Len(file)

Skip ==
    /\ lines_read' = lines_read + 1
    /\ lines_skipped' = lines_skipped + 1
    /\ UNCHANGED <<file, max_ops, ops_parsed, ops, loading>>

\* Faulty: one operation more than the limit is taken.
DeliverPastLimit(op) ==
    /\ lines_read' = lines_read + 1
    /\ ops_parsed' = ops_parsed + 1
    /\ ops' = Append(ops, op)
    /\ loading' = ~ (max_ops > 0 /\ Len(ops) >= max_ops)
    /\ UNCHANGED <<file, max_ops, lines_skipped>>

\* next() returns an operation; its caller takes it and goes on unless the
\* limit is reached.
Deliver(op) ==
    /\ lines_read' = lines_read + 1
    /\ ops_parsed' = ops_parsed + 1
    /\ ops' = Append(ops, op)
    /\ loading' = ~ (max_ops > 0 /\ Len(ops) + 1 >= max_ops)
    /\ UNCHANGED <<file, max_ops, lines_skipped>>

SkipBlank ==
    /\ HasLine
    /\ Blank(Line)
    /\ Skip
    /\ UNCHANGED <<format, csv_header_consumed>>

\* The format that holds for the line: detect_format on the first data line.
LineFormat ==
    IF format # "UNKNOWN" THEN format
    ELSE IF LooksLikeCsv(Line) THEN "CSV" ELSE "SIMPLE"

\* csv_header_consumed_ after detect_format.
HeaderConsumed ==
    IF format = "UNKNOWN" /\ LineFormat = "CSV" THEN ~ IsHeader(Line) ELSE csv_header_consumed

ReadSimple ==
    /\ HasLine
    /\ ~ Blank(Line)
    /\ LineFormat = "SIMPLE"
    /\ format' = "SIMPLE"
    /\ Deliver(ParseSimple(Line))
    /\ UNCHANGED csv_header_consumed

SkipHeader ==
    /\ HasLine
    /\ ~ Blank(Line)
    /\ LineFormat = "CSV" /\ ~ HeaderConsumed
    /\ format' = "CSV" /\ csv_header_consumed' = TRUE
    /\ Skip

ReadCsv ==
    /\ HasLine
    /\ ~ Blank(Line)
    /\ LineFormat = "CSV" /\ HeaderConsumed
    /\ format' = "CSV" /\ csv_header_consumed' = TRUE
    /\ IF CsvOk(Line) THEN Deliver(ParseCsv(Line)) ELSE Skip

EndOfFile ==
    /\ loading /\ lines_read = Len(file)
    /\ loading' = FALSE
    /\ UNCHANGED <<file, max_ops, lines_read, lines_skipped, ops_parsed, format,
                   csv_header_consumed, ops>>

TraceNext == SkipBlank \/ ReadSimple \/ SkipHeader \/ ReadCsv \/ EndOfFile

-----------------------------------------------------------------------------
(* Properties *)

\* The element of rank k in a set of line numbers.
Nth(numbers, k) == CHOOSE n \in numbers : Cardinality(numbers \cap 1 .. n) = k

\* The numbers of the lines that are not blank, and these lines in their order.
DataAt == {n \in DOMAIN file : ~ Blank(file[n])}

DataLines == [k \in 1 .. Cardinality(DataAt) |-> file[Nth(DataAt, k)]]

\* The first data line decides what the file is.
IsCsv == DataAt # {} /\ LooksLikeCsv(file[Min(DataAt)])

\* The lines that stand for operations: all data lines, but in a CSV file
\* neither the header nor a line without a key.
OpAt ==
    {n \in DataAt : IsCsv => CsvOk(file[n]) /\ (n = Min(DataAt) => ~ IsHeader(file[n]))}

MeaningOf(line) == IF IsCsv THEN ParseCsv(line) ELSE ParseSimple(line)

Meaning == [k \in 1 .. Cardinality(OpAt) |-> MeaningOf(file[Nth(OpAt, k)])]

\* The loop with its flags reads what the file means as a whole: the operations
\* of its data lines in order, without one too many, cut off at max_ops and not
\* before; and every line that was read is counted as skipped or as parsed.
ReadsWholeFile ==
    /\ IsPrefix(ops, Meaning)
    /\ max_ops > 0 => Len(ops) <= max_ops
    /\ ~ loading => ops = Meaning \/ (max_ops > 0 /\ Len(ops) = max_ops)
    /\ lines_read = lines_skipped + ops_parsed
    /\ ops_parsed = Len(ops)

Verbs == {"GET", "PUT", "SET"}

\* A line of format A, "GET user:123" or just "user:123", and of format B,
\* "timestamp,op,key" (trace_loader.h).
FormatA(line) ==
    /\ ~ line.comma
    /\ \/ Len(line.words) = 1 /\ line.words[1] \in Plain
       \/ Len(line.words) = 2 /\ line.words[1] \in Verbs /\ line.words[2] \in Plain

FormatB(line) ==
    line.comma /\ Len(line.words) = 3 /\ line.words[2] \in Verbs /\ line.words[3] \in Plain

Header(line) == line.comma /\ Len(line.words) = 3 /\ line.words[2] = "op" /\ line.words[3] \in Plain

Writes(line, word) == line.words[word] \in {"PUT", "SET"}

\* A file in one of the two documented formats, with blank lines and comments
\* anywhere, is read as written: each of its lines is an operation on its last
\* word, a write if and only if it says so, and only the header is left out.
DocumentedFormatsRead ==
    ~ loading /\ max_ops = 0 =>
        /\ (\A n \in DOMAIN DataLines : FormatA(DataLines[n])) =>
              ops = [n \in DOMAIN DataLines |->
                        Op(IF Writes(DataLines[n], 1) THEN "PUT" ELSE "GET",
                           <<Last(DataLines[n].words)>>)]
        /\ DataLines # <<>> /\ Header(DataLines[1])
              /\ (\A n \in 2 .. Len(DataLines) : FormatB(DataLines[n])) =>
              ops = [n \in 1 .. Len(DataLines) - 1 |->
                        Op(IF Writes(DataLines[n + 1], 2) THEN "PUT" ELSE "GET",
                           <<DataLines[n + 1].words[3]>>)]
=============================================================================
