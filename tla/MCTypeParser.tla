---------------------------- MODULE MCTypeParser -----------------------------
(* Instances of TypeParser: types with every kind of parameter, nested up  *)
(* to three deep, and names that are no type's.                            *)
EXTENDS TypeParser

MCNumbers == {-1, 0, 1, 2, 3, 9, 18, 38}
MCOverlong == {"99999999999999999999"}

Texts(alphabet, lengths) == UNION {[1 .. n -> alphabet] : n \in lengths}

Literals == Texts({"'", BACKSLASH, "n"}, {1, 2}) \cup {<<NEWLINE>>, <<")">>}
FieldNames == Texts({"x", "Array", BACKTICK}, {1, 2}) \cup {<<".">>, <<"1">>}

Str == Plain("String")
Fixed == Sized("FixedString", <<3>>)
Bits == Enum("Enum16", {<<-1, <<"'">>>>, <<2, <<>>>>})

Leaves == {Str, Plain("UInt8"), Fixed, Sized("Decimal", <<9, 2>>), Bits,
           DateTime(<<>>), DateTime(<<"n">>), DateTime64(3, <<>>),
           Sized("Time64", <<9>>)}

Parametrised ==
    UNION {{DateTime64(3, s), Enum("Enum8", {<<1, s>>})} : s \in Literals}

Composites ==
    UNION {{Wrapped("Array", <<t>>), Wrapped("Nullable", <<t>>),
            Wrapped("Map", <<Str, t>>), Tuple(<<t, Fixed>>, <<>>),
            Tuple(<<t, Bits>>, <<<<"y">>, <<"Tuple">>>>)} : t \in Leaves}
    \cup {Wrapped("LowCardinality", <<t>>) :
              t \in {Str, Fixed, Plain("UInt8"), Wrapped("Nullable", <<Str>>)}}
    \cup {Tuple(<<Str, Plain("UInt8")>>, <<f, <<"y">>>>) : f \in FieldNames}

Deep == {Wrapped("Array", <<Wrapped("Nullable",
                                <<Wrapped("LowCardinality", <<Fixed>>)>>)>>),
         Wrapped("Map", <<Str, Wrapped("Array",
                                <<Tuple(<<Bits, Str>>, <<>>)>>)>>),
         Tuple(<<Tuple(<<Bits, Str>>, <<<<"x">>, <<".">>>>), Str>>,
               <<<<"y">>, <<BACKTICK>>>>)}

NameOf(t) == [text |-> GetName(t), type |-> t]

(* Names a server sends that GetName does not print.                       *)
Aliases ==
    {[text |-> <<"SimpleAggregateFunction", "(", "sum", ",", " ">>
               \o GetName(t) \o <<")">>, type |-> t] :
         t \in {Plain("UInt8"), Wrapped("Array", <<Str>>),
                Wrapped("LowCardinality", <<Str>>)}}
    \cup {[text |-> <<"Decimal32", "(", "2", ")">>,
           type |-> Sized("Decimal", <<9, 2>>)],
          [text |-> <<"Decimal128", "(", "3", ")">>,
           type |-> Sized("Decimal", <<38, 3>>)]}

Invalid(text) == [text |-> text, type |-> Null]

Invalids ==
    {Invalid(text) : text \in
        {<<>>, <<" ">>, <<"Foo">>, <<"FixedString", "(", "3">>,
         <<"AggregateFunction", "(", "sum", ",", " ", "Int32", ")">>,
         <<"DateTime", "(", "'", "n", "'">>,
         <<"Tuple", "(", BACKTICK, "x", " ", "String", ")">>,
         <<"Array", "(", "Nullable", "(", "String", ")">>,
         <<"Array", "(", "String", ")", ")">>,
         <<"String", ")", ")">>, <<"String", ")", ")", ")">>,
         <<"String", ")", ",">>, <<"String", ")", ")", "UInt8">>}}

(* Names that throw every time.                                            *)
Refused ==
    {[text |-> text, type |-> Throws] : text \in
        {GetName(Enum("Enum8", {})),
         <<"Enum8", "(", "'", "n", "'", ")">>,
         <<"DateTime64", "(", "-1", ")">>, <<"Time64", "(", "-1", ")">>,
         GetName(Wrapped("LowCardinality", <<Wrapped("Nullable", <<Bits>>)>>)),
         GetName(Wrapped("LowCardinality", <<Sized("Decimal", <<9, 2>>)>>))}}

(* Names that no type prints and that are accepted all the same.           *)
Tolerated ==
    {[text |-> <<"Array", "(", "Foo", ")">>,
      type |-> Wrapped("Array", <<Plain("Void")>>)],
     [text |-> <<"String", ",", "Int8">>, type |-> Str],
     [text |-> <<"void">>, type |-> Plain("Void")],
     [text |-> <<"Tuple", "(", DOUBLEQUOTE, "x", DOUBLEQUOTE, DOUBLEQUOTE, ".",
                 BACKTICK, DOUBLEQUOTE, " ", "String", ")">>,
      type |-> Tuple(<<Str>>, <<<<"x", DOUBLEQUOTE, ".", BACKTICK>>>>)]}

DoesNotFit == [text |-> <<"FixedString", "(", "99999999999999999999", ")">>,
               type |-> Unsettled]

Few == {NameOf(Fixed), NameOf(Wrapped("Map", <<Str, Fixed>>))}

MCNameSets ==
    {{NameOf(t)} : t \in Leaves \cup Parametrised \cup Composites \cup Deep}
    \cup {{n} : n \in Aliases}
    \cup {{n} : n \in Tolerated \cup Refused}
    \cup {{n, bad} : n \in Few, bad \in Invalids \cup {DoesNotFit}}

=============================================================================
