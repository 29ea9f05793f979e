------------------------------ MODULE TypeNames ------------------------------
(***************************************************************************)
(* Type names: how a Type prints itself (types.cpp), and how the lexer of  *)
(* the type parser cuts a name into tokens (type_parser.cpp).              *)
(*                                                                         *)
(* A name is a sequence of symbols.  A word ("Array") and a numeral are    *)
(* one symbol each; quoted text is spelled out character by character,     *)
(* since that is where the printer escapes and the parser unescapes.       *)
(***************************************************************************)
EXTENDS Integers, Sequences, FiniteSets, SequencesExt

CONSTANTS Numbers,   \* the integers that occur as parameters of a type
          Overlong   \* numerals that do not fit the parser's std::stol

Numerals == {ToString(n) : n \in Numbers}
BACKTICK == "backtick"
DOUBLEQUOTE == "doublequote"
BACKSLASH == "backslash"
NEWLINE == "newline"
Marks == {" ", "=", "(", ")", ",", "'", ".", BACKTICK, DOUBLEQUOTE, BACKSLASH,
          NEWLINE}

ASSUME NumbersAssumption == Numbers \subseteq Int /\ 0 \in Numbers
ASSUME OverlongAssumption == Overlong \cap (Numerals \cup Marks) = {}

IsDigit(c) == c \in Numerals \cup Overlong
IsAlpha(c) == c \notin Marks /\ ~IsDigit(c)

-----------------------------------------------------------------------------
(* A Type.  "of" holds its item types, "names" the field names of a Tuple, *)
(* "nums" its integer parameters (a negative one stands for the size_t it  *)
(* wraps to), "text" its timezone, and "items" the value_to_name_ map of   *)
(* an enum as pairs.                                                       *)

Plain(code) == [code |-> code, of |-> <<>>, names |-> <<>>, nums |-> <<>>,
                text |-> <<>>, items |-> {}]
Sized(code, nums) == [Plain(code) EXCEPT !.nums = nums]
Wrapped(code, of) == [Plain(code) EXCEPT !.of = of]
DateTime(tz) == [Plain("DateTime") EXCEPT !.text = tz]
DateTime64(n, tz) == [Plain("DateTime64") EXCEPT !.nums = <<n>>, !.text = tz]
Enum(code, items) == [Plain(code) EXCEPT !.items = items]
Tuple(of, names) == [Wrapped("Tuple", of) EXCEPT !.names = names]

SimpleCodes == {"Void", "Int8", "Int16", "Int32", "Int64", "Int128", "UInt8",
                "UInt16", "UInt32", "UInt64", "UInt128", "UUID", "Float32",
                "Float64", "String", "IPv4", "IPv6", "Date", "Date32", "Time",
                "Point", "Ring", "Polygon", "MultiPolygon", "JSON", "Bool"}

KnownNames == SimpleCodes \cup
              {"FixedString", "DateTime", "DateTime64", "Array", "Nullable",
               "Tuple", "Enum8", "Enum16", "Decimal", "Decimal32", "Decimal64",
               "Decimal128", "LowCardinality", "Map", "Time64"}

(* EscapeStringLiteral, with the part of kEscapeMap the alphabet needs.    *)
EscapeStringLiteral(s) ==
    FlattenSeq([i \in DOMAIN s |->
        CASE s[i] = "'"       -> <<BACKSLASH, "'">>
          [] s[i] = BACKSLASH -> <<BACKSLASH, BACKSLASH>>
          [] s[i] = NEWLINE   -> <<BACKSLASH, "n">>
          [] OTHER            -> <<s[i]>>])

Quoted(s) == <<"'">> \o EscapeStringLiteral(s) \o <<"'">>

IsPlainIdentifier(s) ==
    /\ s # <<>> /\ IsAlpha(s[1])
    /\ \A i \in DOMAIN s : IsAlpha(s[i]) \/ IsDigit(s[i])


(* AppendFieldname: a backtick is doubled, nothing else is escaped.        *)
FieldName(s) ==
    IF IsPlainIdentifier(s) THEN s
    ELSE LET doubled == [i \in DOMAIN s |-> IF s[i] = BACKTICK
                                            THEN <<BACKTICK, BACKTICK>>
                                            ELSE <<s[i]>>]
         IN  <<BACKTICK>> \o FlattenSeq(doubled) \o <<BACKTICK>>

Separated(seqs) ==
    FlattenSeq([i \in DOMAIN seqs |-> IF i = 1 THEN seqs[i]
                                               ELSE <<",", " ">> \o seqs[i]])

Params(code, seqs) == <<code, "(">> \o Separated(seqs) \o <<")">>

EnumItems(items) ==
    LET inOrder == SetToSortSeq(items, LAMBDA p, q : p[1] < q[1])
    IN  [i \in DOMAIN inOrder |->
            Quoted(inOrder[i][2])
                \o <<" ", "=", " ", ToString(inOrder[i][1])>>]

(* Type::GetName and the GetName of its subclasses.                        *)
RECURSIVE GetName(_)
GetName(t) ==
    LET nested == [i \in DOMAIN t.of |-> GetName(t.of[i])]
        tz     == IF t.text = <<>> THEN <<>> ELSE <<Quoted(t.text)>>
    IN  CASE t.code \in SimpleCodes -> <<t.code>>
          [] t.code \in {"FixedString", "Time64"} ->
                 Params(t.code, <<<<ToString(t.nums[1])>>>>)
          [] t.code = "Decimal" ->
                 <<"Decimal", "(", ToString(t.nums[1]), ",",
                   ToString(t.nums[2]), ")">>
          [] t.code = "DateTime" ->
                 IF tz = <<>> THEN <<"DateTime">> ELSE Params("DateTime", tz)
          [] t.code = "DateTime64" ->
                 Params("DateTime64", <<<<ToString(t.nums[1])>>>> \o tz)
          [] t.code \in {"Enum8", "Enum16"} ->
                 Params(t.code, EnumItems(t.items))
          [] t.code = "Tuple" /\ t.names # <<>> ->
                 Params("Tuple", [i \in DOMAIN nested |->
                            FieldName(t.names[i]) \o <<" ">> \o nested[i]])
          [] OTHER -> Params(t.code, nested)

-----------------------------------------------------------------------------
(* TypeParser::NextToken.  A token carries the position after it.          *)

Token(type, value, cur) == [type |-> type, value |-> value, cur |-> cur]

(* The loop over a single-quoted string: it stops one symbol before the    *)
(* end of the name, and acc holds the quotes too.                          *)
RECURSIVE ScanString(_, _, _)
ScanString(s, i, acc) ==
    LET unescaped == CASE s[i + 1] = "n"       -> <<NEWLINE>>
                       [] s[i + 1] = BACKSLASH -> <<BACKSLASH>>
                       [] s[i + 1] = "'"       -> <<"'">>
                       [] OTHER                -> <<>>
    IN  IF i >= Len(s) THEN Token("QuotedString", acc, i)
        ELSE IF s[i] = BACKSLASH /\ unescaped # <<>>
             THEN ScanString(s, i + 2, acc \o unescaped)
        ELSE IF s[i] = "'" THEN Token("QuotedString", Append(acc, "'"), i + 1)
        ELSE ScanString(s, i + 1, Append(acc, s[i]))

(* The loop over an identifier in backticks or in double quotes.           *)
RECURSIVE ScanIdentifier(_, _, _, _)
ScanIdentifier(s, i, acc, quote) ==
    LET quoteNext == i < Len(s) /\ s[i + 1] = quote
    IN  IF i > Len(s) THEN Token("Invalid", <<>>, i)
        ELSE IF s[i] \in {BACKSLASH, quote} /\ quoteNext
             THEN ScanIdentifier(s, i + 2, Append(acc, quote), quote)
        ELSE IF s[i] = quote THEN Token("QuotedIdentifier", acc, i + 1)
        ELSE ScanIdentifier(s, i + 1, Append(acc, s[i]), quote)

(* The end of the run, from i on, of symbols that are in a set.            *)
RunEnd(s, i, run) ==
    CHOOSE j \in i .. Len(s) + 1 :
        /\ \A k \in i .. j - 1 : s[k] \in run
        /\ j <= Len(s) => s[j] \notin run

NextToken(s, cur) ==
    LET i    == RunEnd(s, cur, {" ", NEWLINE})
        name == RunEnd(s, i, {c \in Range(s) : IsAlpha(c) \/ IsDigit(c)})
    IN  IF i > Len(s) THEN Token("EOS", <<>>, i)
        ELSE CASE s[i] = "="      -> Token("Assign", <<>>, i + 1)
               [] s[i] = "("      -> Token("LPar", <<>>, i + 1)
               [] s[i] = ")"      -> Token("RPar", <<>>, i + 1)
               [] s[i] = ","      -> Token("Comma", <<>>, i + 1)
               [] s[i] = "'"      -> ScanString(s, i + 1, <<"'">>)
               [] s[i] \in {BACKTICK, DOUBLEQUOTE} ->
                      ScanIdentifier(s, i + 1, <<>>, s[i])
               [] IsAlpha(s[i])   ->
                      Token("Name", SubSeq(s, i, name - 1), name)
               [] IsDigit(s[i])   -> Token("Number", <<s[i]>>, i + 1)
               [] OTHER           -> Token("Invalid", <<>>, i)

(* std::stol of a numeral that fits.                                       *)
Stol(numeral) == CHOOSE n \in Numbers : ToString(n) = numeral

-----------------------------------------------------------------------------
(* TypeAst.  EmptyAst is the value-initialised node: meta 0 is Array.      *)

EmptyAst == [meta |-> "Array", code |-> "Void", name |-> <<>>,
             element_name |-> <<>>, value |-> 0, value_string |-> <<>>,
             elements |-> <<>>]

GetTypeCode(name) ==
    IF Len(name) = 1 /\ name[1] \in KnownNames THEN name[1] ELSE "Void"

GetTypeMeta(name) ==
    CASE Len(name) # 1 -> "Terminal"
      [] name[1] \in {"Array", "Null", "Nullable", "Tuple", "LowCardinality",
                      "SimpleAggregateFunction", "Map"} -> name[1]
      [] name[1] \in {"Enum8", "Enum16"} -> "Enum"
      [] OTHER -> "Terminal"

(* The spellings of "void" that CompateStringsCaseInsensitive accepts.     *)
VoidNames == {<<"Void">>, <<"void">>, <<"VOID">>}

(* It looks at the root only: unknown names inside a type pass.            *)
ValidateAST(ast) ==
    ~ (ast.meta = "Terminal" /\ ast.code = "Void" /\ ast.name \notin VoidNames)

=============================================================================
