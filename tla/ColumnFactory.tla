---------------------------- MODULE ColumnFactory ----------------------------
(***************************************************************************)
(* CreateColumnByType's second half (factory.cpp): from a parsed type name *)
(* to a column.  A column is represented by its Type; the other outcomes   *)
(* are Null (the factory returns nullptr), Throws (it throws) and Crash (a *)
(* constructor dereferences a null nested column).                         *)
(*                                                                         *)
(* h is the memory the AST lives in: a function from node to TypeAst.      *)
(***************************************************************************)
EXTENDS TypeNames

Null == Plain("nullptr")
Throws == Plain("throws")
Crash == Plain("crash")
Outcomes == {Null, Throws, Crash}

(* GetASTChildElement throws when abs(position) reaches the size, so that  *)
(* the last of one element is out of bounds as position -1.                *)
HasChild(ast, position) ==
    (IF position < 0 THEN -position ELSE position) < Len(ast.elements)

Child(h, ast, position) ==
    h[ast.elements[IF position < 0 THEN Len(ast.elements) + position + 1
                                   ELSE position + 1]]

(* A precision passed as size_t: a negative number wraps to a huge one.    *)
Exceeds(n, bound) == n < 0 \/ n > bound

CreateTerminalColumn(h, ast) ==
    CASE ast.code \in SimpleCodes -> Plain(ast.code)
      [] ast.code = "Decimal" ->
             IF ~HasChild(ast, 0) \/ ~HasChild(ast, -1) THEN Throws
             ELSE Sized("Decimal", <<Child(h, ast, 0).value,
                                     Child(h, ast, -1).value>>)
      [] ast.code \in {"Decimal32", "Decimal64", "Decimal128"} ->
             IF ~HasChild(ast, 0) THEN Throws
             ELSE Sized("Decimal", <<CASE ast.code = "Decimal32"  -> 9
                                       [] ast.code = "Decimal64"  -> 18
                                       [] ast.code = "Decimal128" -> 38,
                                     Child(h, ast, 0).value>>)
      [] ast.code = "FixedString" ->
             IF ~HasChild(ast, 0) THEN Throws
             ELSE Sized("FixedString", <<Child(h, ast, 0).value>>)
      [] ast.code = "DateTime" ->
             DateTime(IF ast.elements = <<>> THEN <<>>
                      ELSE Child(h, ast, 0).value_string)
      [] ast.code = "DateTime64" /\ ast.elements # <<>> ->
             LET n == Child(h, ast, 0).value
             IN  IF Exceeds(n, 18) THEN Throws
                 ELSE DateTime64(n, IF Len(ast.elements) = 1 THEN <<>>
                                    ELSE Child(h, ast, 1).value_string)
      [] ast.code = "Time64" /\ ast.elements # <<>> ->
             IF Exceeds(Child(h, ast, 0).value, 9) THEN Throws
             ELSE Sized("Time64", <<Child(h, ast, 0).value>>)
      [] OTHER -> Null

(* static_cast<int16_t>                                                    *)
ToInt16(n) == ((n + 32768) % 65536) - 32768

(* EnumType's constructor: value_to_name_ keeps the last name of a value.  *)
CreateEnum(h, ast) ==
    LET item(i) == <<ToInt16(h[ast.elements[2 * i]].value),
                     h[ast.elements[2 * i - 1]].value_string>>
        n       == Len(ast.elements) \div 2
    IN  IF Len(ast.elements) % 2 # 0 THEN Throws
        ELSE Enum(ast.code,
                  {item(i) : i \in {j \in 1 .. n :
                      \A k \in j + 1 .. n : item(k)[1] # item(j)[1]}})

(* A column built from nested columns: the first nested column that threw, *)
(* crashed or, for the composites that check, is null decides.             *)
Composite(column, nested, onNull) ==
    LET bad == {i \in DOMAIN nested : nested[i] \in Outcomes}
    IN  IF bad = {} THEN column
        ELSE LET first == nested[CHOOSE i \in bad : \A j \in bad : i <= j]
             IN  IF first = Null THEN onNull ELSE first

(* TupleType's constructor refuses a tuple that names only some fields.    *)
CreateTuple(nested, names) ==
    IF \A i \in DOMAIN names : names[i] = <<>> THEN Tuple(nested, <<>>)
    ELSE IF \E i \in DOMAIN names : names[i] = <<>> THEN Throws
    ELSE Tuple(nested, names)

(* The types AppendToDictionary knows.  The constructor of                 *)
(* ColumnLowCardinality appends the default item, and throws for others.   *)
DictionaryCodes ==
    {"String", "FixedString", "Int8", "Int16", "Int32", "Int64", "Int128",
     "UInt8", "UInt16", "UInt32", "UInt64", "UInt128", "Float32", "Float64",
     "Date", "Date32", "DateTime", "IPv4", "IPv6", "UUID"}

DictionaryCode(t) == IF t.code = "Nullable" THEN t.of[1].code ELSE t.code

(* LowCardinality: as a column of its own, or, with the setting            *)
(* low_cardinality_as_wrapped_column, as an adaptor of the inner column.   *)
CreateLowCardinality(inner, innerColumn, wrapped) ==
    IF wrapped
    THEN IF inner.code = "String" THEN Plain("String")
         ELSE IF inner.code = "FixedString" THEN innerColumn ELSE Throws
    ELSE IF innerColumn \notin Outcomes
            /\ DictionaryCode(innerColumn) \notin DictionaryCodes THEN Throws
    ELSE Composite(Wrapped("LowCardinality", <<innerColumn>>), <<innerColumn>>,
                   Throws)

RECURSIVE CreateColumnFromAst(_, _, _)
CreateColumnFromAst(h, id, wrapped) ==
    LET ast    == h[id]
        nested == [i \in DOMAIN ast.elements |->
                       CreateColumnFromAst(h, ast.elements[i], wrapped)]
        names  == [i \in DOMAIN ast.elements |->
                       h[ast.elements[i]].element_name]
    IN  CASE ast.meta \in {"Array", "Nullable"} ->
                 IF ~HasChild(ast, 0) THEN Throws
                 ELSE Composite(Wrapped(ast.meta, <<nested[1]>>),
                                <<nested[1]>>, Crash)
          [] ast.meta = "Terminal" -> CreateTerminalColumn(h, ast)
          [] ast.meta = "Tuple" ->
                 Composite(CreateTuple(nested, names), nested, Null)
          [] ast.meta = "Enum" -> CreateEnum(h, ast)
          [] ast.meta = "LowCardinality" ->
                 IF ~HasChild(ast, 0) THEN Throws
                 ELSE CreateLowCardinality(Child(h, ast, 0), nested[1],
                                           wrapped)
          [] ast.meta = "SimpleAggregateFunction" ->
                 IF ~HasChild(ast, -1) THEN Throws ELSE nested[Len(nested)]
          [] ast.meta = "Map" ->
                 IF Len(ast.elements) # 2 THEN Throws
                 ELSE Composite(Wrapped("Map", nested), nested, Null)
          [] OTHER -> Null

=============================================================================
