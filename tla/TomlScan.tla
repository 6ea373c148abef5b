------------------------------ MODULE TomlScan ------------------------------
(***************************************************************************)
(* scripts/version_plan.py, _toml_assignments: the version cell of a TOML  *)
(* file is found in its text, line by line, so that everything else keeps  *)
(* its bytes.  The scan has to tell a line that assigns from a line of the *)
(* same characters inside a string or an array.                            *)
(*                                                                         *)
(* A line is a sequence of characters: q and s are the two quotes, b a     *)
(* backslash, o and c the opening and closing bracket, h a hash, e the     *)
(* equals sign; v is the wanted key, k another key, x any other text and   *)
(* t the name of a table.  A document is written one line at a time as the *)
(* TOML grammar allows, and the scan follows; "context" is what the        *)
(* grammar says.  A string is never closed by more quotes than its         *)
(* delimiter has.                                                          *)
(***************************************************************************)
EXTENDS Integers, Sequences

CONSTANT MaxLines

VARIABLES
    context,         \* of the grammar: "top", "basic3", "literal3" or the depth of an array
    table,           \* of the grammar: the open table, and how many elements of t there are
    wanted,          \* of the grammar: lines that really assign the key in the wanted table
    quote, depth,    \* of the scan: the open quote and the open brackets
    current, arrays, \* of the scan: the table and the last element of the array of tables
    found,           \* of the scan: the lines it takes for assignments
    lines

vars == <<context, table, wanted, quote, depth, current, arrays, found, lines>>

None == <<>>
Q3 == <<"q", "q", "q">>
S3 == <<"s", "s", "s">>
Target == <<"t", 1>>      \* the second element of the array of tables t

-----------------------------------------------------------------------------
(* The grammar: which lines may follow, and what they mean.                *)

Top == {
    [text |-> <<"v", "e", "q", "x", "q">>, to |-> "top", sets |-> TRUE],
    [text |-> <<"v", "e", "q", "h", "b", "q", "o", "q", "h">>, to |-> "top", sets |-> TRUE],
    [text |-> <<"k", "e", "s", "q", "b", "s">>, to |-> "top", sets |-> FALSE],
    [text |-> <<"q", "e", "h", "q", "e", "x">>, to |-> "top", sets |-> FALSE],
    [text |-> <<"h", "v", "e", "q", "o">>, to |-> "top", sets |-> FALSE],
    [text |-> <<"k", "e">> \o Q3 \o <<"q">> \o <<"x">>, to |-> "basic3", sets |-> FALSE],
    [text |-> <<"k", "e">> \o Q3 \o <<"s", "b", "q">> \o Q3, to |-> "top", sets |-> FALSE],
    [text |-> <<"k", "e">> \o S3 \o <<"s", "b">>, to |-> "literal3", sets |-> FALSE],
    [text |-> <<"k", "e", "o">>, to |-> "array", sets |-> FALSE]}
InBasic == {
    [text |-> <<"v", "e", "q", "x", "q">>, to |-> "basic3", sets |-> FALSE],
    [text |-> <<"b", "q", "q", "q", "x">>, to |-> "basic3", sets |-> FALSE],
    [text |-> <<"o", "o", "t", "c", "c">>, to |-> "basic3", sets |-> FALSE],
    [text |-> <<"b", "b">> \o Q3, to |-> "top", sets |-> FALSE]}
InLiteral == {
    [text |-> <<"v", "e", "s", "x", "s">>, to |-> "literal3", sets |-> FALSE],
    [text |-> <<"q", "h", "o">>, to |-> "literal3", sets |-> FALSE],
    [text |-> <<"b">> \o S3, to |-> "top", sets |-> FALSE]}
InArray == {
    [text |-> <<"q", "v", "e", "c", "q">>, to |-> "array", sets |-> FALSE],
    [text |-> <<"o", "c", "h", "c">>, to |-> "array", sets |-> FALSE],
    [text |-> Q3 \o <<"c">> \o Q3, to |-> "array", sets |-> FALSE],
    [text |-> <<"c">>, to |-> "top", sets |-> FALSE]}
Headers == {[text |-> <<"o", "k", "c">>, array |-> FALSE], [text |-> <<"o", "o", "t", "c", "c", "h", "q">>, array |-> TRUE]}

Allowed == CASE context = "top" -> Top [] context = "basic3" -> InBasic
             [] context = "literal3" -> InLiteral [] OTHER -> InArray

-----------------------------------------------------------------------------
(* The scan of one line.                                                   *)

At(line, i, token) == i + Len(token) - 1 <= Len(line) /\ SubSeq(line, i, i + Len(token) - 1) = token

\* A backslash means nothing to a string in single quotes, but this forgets it.
EscapesEverywhere(line, i, q) ==
    IF line[i] = "b" THEN [next |-> i + 2, quote |-> q]
    ELSE IF At(line, i, q) THEN [next |-> i + Len(q), quote |-> None]
    ELSE [next |-> i + 1, quote |-> q]

\* One step inside a quote: a backslash escapes in double quotes only.
QuoteStep(line, i, q) ==
    IF q[1] = "q" /\ line[i] = "b" THEN [next |-> i + 2, quote |-> q]
    ELSE IF At(line, i, q) THEN [next |-> i + Len(q), quote |-> None]
    ELSE [next |-> i + 1, quote |-> q]

Quotes == {None, Q3, S3, <<"q">>, <<"s">>}

\* The open quote and the open brackets after a line.
LexicalState(line, before, nested) ==
    LET after[i \in Nat, q \in Quotes, d \in Int] ==
            IF i > Len(line) THEN [quote |-> q, depth |-> d]
            ELSE IF q # None THEN LET step == QuoteStep(line, i, q) IN after[step.next, step.quote, d]
            ELSE IF line[i] = "h" THEN [quote |-> q, depth |-> d]
            ELSE IF At(line, i, Q3) THEN after[i + 3, Q3, d]
            ELSE IF At(line, i, S3) THEN after[i + 3, S3, d]
            ELSE IF line[i] \in {"q", "s"} THEN after[i + 1, <<line[i]>>, d]
            ELSE after[i + 1, q, CASE line[i] = "o" -> d + 1 [] line[i] = "c" -> d - 1 [] OTHER -> d]
    IN  after[1, before, nested]

\* Where the unquoted equals sign is, or 0.
Separator(line) ==
    LET from[i \in Nat, q \in Quotes] ==
            IF i > Len(line) THEN 0
            ELSE IF q # None THEN LET step == QuoteStep(line, i, q) IN from[step.next, step.quote]
            ELSE IF line[i] \in {"q", "s"} THEN from[i + 1, <<line[i]>>]
            ELSE IF line[i] = "h" THEN 0
            ELSE IF line[i] = "e" THEN i
            ELSE from[i + 1, q]
    IN  from[1, None]

\* A header's text up to its closing brackets, with nothing but a comment after them.
HeaderOf(line) ==
    IF line[1] # "o" THEN None
    ELSE LET n == IF At(line, 1, <<"o", "o">>) THEN 2 ELSE 1
             end == CHOOSE i \in 1..Len(line) : line[i] = "c" /\ \A j \in 1..i - 1 : line[j] # "c"
         IN  IF end + n <= Len(line) /\ line[end + n] # "h" THEN None ELSE SubSeq(line, n + 1, end - 1)

\* The key before the equals sign is the wanted one of the wanted table.
Assigns(line, tab) == LET i == Separator(line) IN i > 1 /\ SubSeq(line, 1, i - 1) = <<"v">> /\ tab = Target

-----------------------------------------------------------------------------

Init ==
    /\ context = "top" /\ table = <<"none", 0>> /\ wanted = {} /\ lines = 0
    /\ quote = None /\ depth = 0 /\ current = <<"none", 0>> /\ arrays = 0 /\ found = {}

\* What the scan makes of one more line.
Scan(line) ==
    LET lexed == LexicalState(line, quote, depth)
        header == HeaderOf(line)
        array == At(line, 1, <<"o", "o">>)
    IN  /\ quote' = lexed.quote /\ depth' = lexed.depth
        /\ IF quote # None \/ depth > 0 THEN UNCHANGED <<current, arrays, found>>
           ELSE IF header # None
           THEN /\ current' = IF array THEN <<header[1], arrays>> ELSE <<header[1], 0>>
                /\ arrays' = IF array THEN arrays + 1 ELSE arrays
                /\ UNCHANGED found
           ELSE /\ found' = IF Assigns(line, current) THEN found \cup {lines} ELSE found
                /\ UNCHANGED <<current, arrays>>

More == lines < MaxLines /\ lines' = lines + 1

Line ==
    /\ More
    /\ \E l \in Allowed :
        /\ Scan(l.text)
        /\ context' = l.to
        /\ wanted' = IF l.sets /\ table = <<"t", 2>> THEN wanted \cup {lines} ELSE wanted
    /\ UNCHANGED table

Header ==
    /\ More /\ context = "top"
    /\ \E h \in Headers :
        /\ Scan(h.text)
        /\ table' = IF h.array THEN <<"t", table[2] + 1>> ELSE <<"k", table[2]>>
    /\ UNCHANGED <<context, wanted>>

Next == Line \/ Header
Spec == Init /\ [][Next]_vars

(***************************************************************************)
(* Whatever a document's strings, arrays and comments contain, the scan    *)
(* takes exactly the lines for assignments that the grammar says assign    *)
(* the wanted key of the wanted table, and it is inside a value when the   *)
(* grammar is.                                                             *)
(***************************************************************************)
ScanInStep ==
    /\ found = wanted
    /\ (quote # None \/ depth > 0) <=> context # "top"
=============================================================================
