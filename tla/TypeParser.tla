----------------------------- MODULE TypeParser ------------------------------
(***************************************************************************)
(* CreateColumnByType called from several threads: the process-wide cache  *)
(* of parsed names and its mutex (ParseTypeName), the parser that builds   *)
(* the AST token by token (TypeParser::Parse), and the factory that reads  *)
(* the cached AST after the mutex is released.                             *)
(*                                                                         *)
(* The nodes of an AST live in vectors inside their parents, and growing a *)
(* vector may move its nodes.  heap maps the address of a node to the      *)
(* node; an address that was moved away or erased leaves heap and is never *)
(* used again, so that a stale pointer is a pointer outside heap.          *)
(*                                                                         *)
(* top() and pop() of an empty open_elements_ are undefined: the process   *)
(* dies at once, or type_ becomes a Wild pointer and the process dies when *)
(* something is written through it.                                        *)
(***************************************************************************)
EXTENDS ColumnFactory

CONSTANTS Threads, NoThread,
          NameSets,   \* the sets of names a behaviour may ask for, each name
                      \* with what it must create: a column of a type, Null
                      \* or Throws; Unsettled if nothing is expected of it
          MaxCalls    \* calls per thread

ASSUME NoThreadAssumption == NoThread \notin Threads
ASSUME MaxCallsAssumption == MaxCalls \in Nat \ {0}

VARIABLES names,      \* the names of this behaviour
          wrapped,    \* settings.low_cardinality_as_wrapped_column
          ast_cache,  \* name -> address of its AST
          heap, fresh,
          lock,       \* the holder of ParseTypeName's mutex
          parser,     \* the TypeParser of the holder: cur_, type_,
                      \* open_elements_ (top last), processed_tokens
          pc, arg, ast, result, calls

cacheVars == <<ast_cache, heap, fresh, lock, parser>>
callVars == <<pc, arg, ast, result, calls>>
vars == <<names, wrapped, cacheVars, callVars>>

Wild == 0
NoParser == [cur |-> 0, type |-> Wild, open |-> <<>>, processed |-> 0]
NoName == [text |-> <<>>, type |-> Null]
Unsettled == Plain("unsettled")

Init ==
    /\ names \in NameSets
    /\ wrapped \in BOOLEAN
    /\ ast_cache = <<>> /\ heap = <<>> /\ fresh = 1
    /\ lock = NoThread /\ parser = NoParser
    /\ pc = [t \in Threads |-> "idle"]
    /\ arg = [t \in Threads |-> NoName]
    /\ ast = [t \in Threads |-> 0]
    /\ result = [t \in Threads |-> Null]
    /\ calls = [t \in Threads |-> 0]

-----------------------------------------------------------------------------
(* Memory.                                                                 *)

RECURSIVE Tree(_, _)
Tree(h, id) ==
    {id} \cup (IF id \in DOMAIN h
               THEN UNION {Tree(h, h[id].elements[i]) :
                               i \in DOMAIN h[id].elements}
               ELSE {})

(* h[p].elements.emplace_back(TypeAst()): when the vector moves, every     *)
(* element gets a new address; base is the first unused one.               *)
EmplaceBack(h, p, moves, base) ==
    LET old  == h[p].elements
        n    == Len(old)
        new  == [i \in 1 .. n + 1 |-> IF moves \/ i = n + 1 THEN base + i - 1
                                                            ELSE old[i]]
        kept == DOMAIN h \ (IF moves THEN Range(old) ELSE {})
    IN  [x \in kept \cup Range(new) |->
            IF x = p THEN [h[p] EXCEPT !.elements = new]
            ELSE IF x \in kept THEN h[x]
            ELSE IF x = new[n + 1] THEN EmptyAst
            ELSE h[old[x - base + 1]]]

-----------------------------------------------------------------------------
(* CreateColumnByType and ParseTypeName.                                   *)

CreateColumnByType(t) ==
    /\ pc[t] \in {"idle", "done"} /\ calls[t] < MaxCalls
    /\ \E n \in names : arg' = [arg EXCEPT ![t] = n]
    /\ pc' = [pc EXCEPT ![t] = "called"]
    /\ calls' = [calls EXCEPT ![t] = @ + 1]
    /\ UNCHANGED <<names, wrapped, cacheVars, ast, result>>

(* The name is in the cache: its AST is returned and the mutex released.   *)
FindCached(t) ==
    /\ pc[t] = "called" /\ lock = NoThread
    /\ arg[t].text \in DOMAIN ast_cache
    /\ ast' = [ast EXCEPT ![t] = ast_cache[arg[t].text]]
    /\ pc' = [pc EXCEPT ![t] = "parsed"]
    /\ UNCHANGED <<names, wrapped, cacheVars, arg, result, calls>>

(* It is not: an empty entry is inserted, and parsed with the mutex held.  *)
StartParse(t) ==
    /\ pc[t] = "called" /\ lock = NoThread
    /\ arg[t].text \notin DOMAIN ast_cache
    /\ ast_cache' = ast_cache @@ (arg[t].text :> fresh)
    /\ heap' = heap @@ (fresh :> EmptyAst)
    /\ fresh' = fresh + 1
    /\ lock' = t
    /\ parser' = [cur |-> 1, type |-> fresh, open |-> <<fresh>>,
                  processed |-> 0]
    /\ pc' = [pc EXCEPT ![t] = "parsing"]
    /\ UNCHANGED <<names, wrapped, arg, ast, result, calls>>

Root(t) == ast_cache[arg[t].text]

(* Mutant: a way out that keeps the mutex.                                 *)
KeepLocked == lock' = lock /\ parser' = NoParser

(* The guard object releases the mutex on every way out of ParseTypeName.  *)
Unlock == lock' = NoThread /\ parser' = NoParser

Finish(t, outcome) ==
    /\ pc' = [pc EXCEPT ![t] = "done"]
    /\ result' = [result EXCEPT ![t] = outcome]

-----------------------------------------------------------------------------
(* TypeParser::Parse, one action per kind of token.                        *)

Advance(tok, type, open) ==
    /\ parser' = [cur |-> tok.cur, type |-> type, open |-> open,
                  processed |-> parser.processed + 1]
    /\ UNCHANGED <<names, wrapped, ast_cache, lock, callVars>>

(* type_->field = ...                                                      *)
Assign(tok, node) ==
    /\ parser.type # Wild
    /\ heap' = [heap EXCEPT ![parser.type] = node]
    /\ Advance(tok, parser.type, parser.open)
    /\ UNCHANGED fresh

ParseQuotedString(tok) ==
    /\ tok.type = "QuotedString"
    /\ Assign(tok, [heap[parser.type] EXCEPT
                        !.meta = "Terminal", !.code = "String",
                        !.value_string = SubSeq(tok.value, 2,
                                                Len(tok.value) - 1)])

(* A second name on a node makes the first one the name of the element.    *)
ParseName(tok) ==
    /\ tok.type \in {"Name", "QuotedIdentifier"}
    /\ Assign(tok, [heap[parser.type] EXCEPT
                        !.element_name = IF heap[parser.type].name # <<>>
                                         THEN heap[parser.type].name ELSE @,
                        !.meta = GetTypeMeta(tok.value),
                        !.name = tok.value,
                        !.code = GetTypeCode(tok.value)])

ParseNumber(tok) ==
    /\ tok.type = "Number" /\ tok.value[1] \notin Overlong
    /\ Assign(tok, [heap[parser.type] EXCEPT !.meta = "Number",
                                             !.value = Stol(tok.value[1])])

(* std::stol throws: the exception leaves CreateColumnByType, the mutex is *)
(* released, and the entry stays in the cache as far as it was parsed.     *)
ParseNumberThrows(t, tok) ==
    /\ tok.type = "Number" /\ tok.value[1] \in Overlong
    /\ parser.type # Wild
    /\ heap' = [heap EXCEPT ![parser.type].meta = "Number"]
    /\ Unlock
    /\ Finish(t, Throws)
    /\ UNCHANGED <<names, wrapped, ast_cache, fresh, arg, ast, calls>>

(* Mutant: the address of the last element is taken before the growth.     *)
OpenBeforeGrowth(tok, node, below) ==
    \E moves \in (IF heap[node].elements = <<>> THEN {FALSE} ELSE BOOLEAN) :
        LET h == EmplaceBack(heap, node, moves, fresh)
        IN  /\ heap' = h
            /\ fresh' = fresh + Len(h[node].elements)
            /\ Advance(tok, IF moves THEN Last(heap[node].elements)
                                     ELSE Last(h[node].elements),
                       Append(below, node))

(* node's elements grow by one, node is opened, and type_ is the new one.  *)
Open(tok, node, below) ==
    \E moves \in (IF heap[node].elements = <<>> THEN {FALSE} ELSE BOOLEAN) :
        LET h == EmplaceBack(heap, node, moves, fresh)
        IN  /\ heap' = h
            /\ fresh' = fresh + Len(h[node].elements)
            /\ Advance(tok, Last(h[node].elements), Append(below, node))

ParseLPar(tok) ==
    /\ tok.type = "LPar" /\ parser.type # Wild
    /\ Open(tok, parser.type, parser.open)

(* open_elements_.top() and what pop() leaves.                             *)
Top == IF parser.open = <<>> THEN Wild ELSE Last(parser.open)
Below == IF parser.open = <<>> THEN <<>> ELSE Front(parser.open)

ParseRPar(tok) ==
    /\ tok.type = "RPar"
    /\ Advance(tok, Top, Below)
    /\ UNCHANGED <<heap, fresh>>

ParseComma(tok) ==
    /\ tok.type \in {"Comma", "Assign"} /\ Top # Wild
    /\ Open(tok, Top, Below)

(* The process dies, in top() of an empty stack or writing through type_.  *)
ParseCrashes(tok) ==
    /\ IF tok.type \in {"RPar", "Comma", "Assign"} THEN Top = Wild
       ELSE tok.type \notin {"EOS", "Invalid"} /\ parser.type = Wild
    /\ pc' = [t \in Threads |-> "crashed"]
    /\ lock' = NoThread /\ parser' = NoParser
    /\ UNCHANGED <<names, wrapped, ast_cache, heap, fresh, arg, ast, result, calls>>

Accepts(t) ==
    /\ Len(parser.open) = 1
    /\ parser.processed > 0
    /\ ValidateAST(heap[Root(t)])

ParseEOS(t, tok) ==
    /\ tok.type = "EOS" /\ Accepts(t)
    /\ Unlock
    /\ ast' = [ast EXCEPT ![t] = Root(t)]
    /\ pc' = [pc EXCEPT ![t] = "parsed"]
    /\ UNCHANGED <<names, wrapped, ast_cache, heap, fresh, arg, result, calls>>

Rejects(t, tok) == tok.type = "Invalid" \/ (tok.type = "EOS" /\ ~Accepts(t))

(* Mutant: the rejected name stays in the cache.                           *)
ParseFailsKeepsEntry(t, tok) ==
    /\ Rejects(t, tok)
    /\ Unlock
    /\ Finish(t, Null)
    /\ UNCHANGED <<names, wrapped, ast_cache, heap, fresh, arg, ast, calls>>

(* Parse returned false: the entry is erased and nullptr returned.         *)
ParseFails(t, tok) ==
    /\ Rejects(t, tok)
    /\ ast_cache' = [n \in DOMAIN ast_cache \ {arg[t].text} |-> ast_cache[n]]
    /\ heap' = [x \in DOMAIN heap \ Tree(heap, Root(t)) |-> heap[x]]
    /\ Unlock
    /\ Finish(t, Null)
    /\ UNCHANGED <<names, wrapped, fresh, arg, ast, calls>>

Parse(t) ==
    /\ pc[t] = "parsing"
    /\ \E tok \in {NextToken(arg[t].text, parser.cur)} :
           \/ ParseQuotedString(tok) \/ ParseName(tok)
           \/ ParseNumber(tok) \/ ParseNumberThrows(t, tok)
           \/ ParseLPar(tok) \/ ParseRPar(tok) \/ ParseComma(tok)
           \/ ParseCrashes(tok)
           \/ ParseEOS(t, tok) \/ ParseFails(t, tok)

(* CreateColumnFromAst reads the AST after the mutex was released.         *)
CreateColumn(t) ==
    /\ pc[t] = "parsed"
    /\ Finish(t, CreateColumnFromAst(heap, ast[t], wrapped))
    /\ UNCHANGED <<names, wrapped, cacheVars, arg, ast, calls>>

Runs(t) ==
    FindCached(t) \/ StartParse(t) \/ Parse(t) \/ CreateColumn(t)

Next == \E t \in Threads : CreateColumnByType(t) \/ Runs(t)

Spec == Init /\ [][Next]_vars /\ \A t \in Threads : WF_vars(Runs(t))

-----------------------------------------------------------------------------

TypeOK ==
    /\ \A x \in DOMAIN heap : DOMAIN heap[x] = DOMAIN EmptyAst
    /\ \A n \in DOMAIN ast_cache : ast_cache[n] \in 1 .. fresh
    /\ lock # NoThread => pc[lock] = "parsing"
    /\ pc \in [Threads -> {"idle", "called", "parsing", "parsed", "done", "crashed"}]
    /\ arg \in [Threads -> names \cup {NoName}]
    /\ calls \in [Threads -> 0 .. MaxCalls]

(* What a column of type t is when LowCardinality is to be unwrapped.      *)
RECURSIVE Delivered(_, _)
Delivered(t, unwrap) ==
    LET of == [i \in DOMAIN t.of |-> Delivered(t.of[i], unwrap)]
    IN  IF \E i \in DOMAIN of : of[i] = Throws THEN Throws
        ELSE IF unwrap /\ t.code = "LowCardinality"
             THEN IF of[1].code \in {"String", "FixedString"} THEN of[1]
                  ELSE Throws
        ELSE [t EXCEPT !.of = of]

(* A name closes a bracket, or separates two elements, behind the bracket  *)
(* that closed the root: open_elements_, which holds depth elements at     *)
(* cur, is then empty.                                                     *)
RECURSIVE ClosesTooMuch(_, _, _)
ClosesTooMuch(s, cur, depth) ==
    LET tok == NextToken(s, cur)
    IN  CASE tok.type \in {"EOS", "Invalid"} -> FALSE
          [] tok.type = "LPar" -> ClosesTooMuch(s, tok.cur, depth + 1)
          [] tok.type = "RPar" ->
                 depth = 0 \/ ClosesTooMuch(s, tok.cur, depth - 1)
          [] tok.type \in {"Comma", "Assign"} ->
                 depth = 0 \/ ClosesTooMuch(s, tok.cur, depth)
          [] OTHER -> ClosesTooMuch(s, tok.cur, depth)

Overclosed(name) == ClosesTooMuch(name.text, 1, 1)

(* The parser keeps raw pointers to nodes (type_, open_elements_) while    *)
(* the vectors that hold the nodes grow, and ParseTypeName hands out a     *)
(* pointer that is used after the mutex is released.  None of them is ever *)
(* stale, and the parser's all lie in the AST being built, but for one     *)
(* case: a name such as "String))" or "String)," pops an empty stack       *)
(* (type_parser.cpp:217, 222), and only such a name can kill the process.  *)
(* The state keeps its types.                                              *)
PointersStayLive ==
    /\ TypeOK
    /\ lock # NoThread =>
           \/ {parser.type} \cup Range(parser.open)
                  \subseteq DOMAIN heap \cap Tree(heap, Root(lock))
           \/ parser.type = Wild /\ Overclosed(arg[lock])
    /\ \A t \in Threads :
           pc[t] = "parsed" => Tree(heap, ast[t]) \subseteq DOMAIN heap
    /\ (\E t \in Threads : pc[t] = "crashed") => \E n \in names : Overclosed(n)


(* Between two parses the cache holds whole ASTs of accepted names only:   *)
(* what a call finds there is what parsing the name again would give.      *)
(* Names with a numeral that does not fit are left out: std::stol throws   *)
(* past ast_cache.erase (type_parser.cpp:205, 375).                        *)
CacheHoldsWholeAsts ==
    \A n \in names :
        /\ n.text \in DOMAIN ast_cache /\ n.type # Unsettled
        /\ lock = NoThread \/ arg[lock] # n
        /\ \A t \in Threads : pc[t] # "crashed"
        => /\ n.type # Null
           /\ CreateColumnFromAst(heap, ast_cache[n.text], wrapped)
                  = Delivered(n.type, wrapped)

(* Every call returns, by a value or an exception, unless the process dies *)
(* over a name that pops the empty stack: the parser gets to the end of    *)
(* any other name, and no way out of a parse keeps the mutex.              *)
CallsReturn == \A t \in Threads : pc[t] = "called" ~> pc[t] \in {"done", "crashed"}

=============================================================================
