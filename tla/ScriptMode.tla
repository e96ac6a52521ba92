----------------------------- MODULE ScriptMode -----------------------------
(* The JavaScript mode of the editor (plugins/codemirror/lang/javascript.js) *)
(* and the indenting of a new line by it (indentLine of codemirror.js): the  *)
(* stack of combinators that parses one token at a time, the stack of        *)
(* lexical blocks the indentation is read from, and the scopes of names.     *)
(*                                                                           *)
(* A text is a sequence of tokens and line breaks.  Tokens are one column    *)
(* wide; a name, a literal and an operator each stand for all of their kind. *)
(* Every new line gets the indentation the editor gives it.                  *)
EXTENDS Integers, Sequences, FiniteSets

CONSTANTS Programs, \* well-formed texts, as sequences of tokens
          Tokens,   \* what a user may type who does not care
          MaxTokens \* bound: of the tokens such a user types

VARIABLES rest,   \* the tokens of the program still to come
          free,   \* whether they are typed at random instead
          read,   \* tokens read
          line,   \* [indentation, length, comment, base, number] of the line being read
          state,  \* the parser's state
          open    \* history: the brackets open in the text, innermost first

vars == <<rest, free, read, line, state, open>>

Unit == 2 \* indentUnit
Names == {"x", "y"}

(* A slash is a regular expression where an operand is due, as far as the    *)
(* token before it tells.                                                    *)
Type(t, lastType) ==
  CASE t \in Names -> "variable"
    [] t \in {"if", "while"} -> "keyword a"
    [] t \in {"else", "do"} -> "keyword b"
    [] t \in {"return", "new"} -> "keyword c"
    [] t \in {"+", "++", "?", "=", "in"} -> "operator"
    [] t = "1" -> "number"
    [] t = "slash" -> IF lastType \in {"operator", "keyword c", "[", "{", "}", "(", ",", ";", ":"}
                      THEN "regexp" ELSE "operator"
    [] OTHER -> t

AtomicTypes == {"number", "variable", "regexp"}

-----------------------------------------------------------------------------
(* Combinators, and what one that meets a token leaves to be done.           *)
Do(name) == <<name>>
Poplex == Do("poplex")
Pushlex(type) == <<"pushlex", type, "">>
Expect(wanted) == <<"expect", wanted>>
Commasep(what, end) == <<"commasep", what, end>>
Proceed(what, end) == <<"proceed", what, end>>
IsLex(c) == c[1] \in {"poplex", "pushlex"}

Cont(combinators) == [takes |-> TRUE, todo |-> combinators]
Pass(combinators) == [takes |-> FALSE, todo |-> combinators]

Statement(type) ==
  CASE type = "var" -> Cont(<<Pushlex("vardef"), Do("vardef1"), Expect(";"), Poplex>>)
    [] type = "keyword a" -> Cont(<<Pushlex("form"), Do("expression"), Do("statement"), Poplex>>)
    [] type = "keyword b" -> Cont(<<Pushlex("form"), Do("statement"), Poplex>>)
    [] type = "{" -> Cont(<<Pushlex("}"), Do("block"), Poplex>>)
    [] type = ";" -> Cont(<<>>)
    [] type = "function" -> Cont(<<Do("functiondef")>>)
    [] type = "for" -> Cont(<<Pushlex("form"), Expect("("), Pushlex(")"), Do("forspec1"), Expect(")"),
                              Poplex, Do("statement"), Poplex>>)
    [] type = "variable" -> Cont(<<Pushlex("stat"), Do("maybelabel")>>)
    [] type = "switch" -> Cont(<<Pushlex("form"), Do("expression"), <<"pushlex", "}", "switch">>,
                                 Expect("{"), Do("block"), Poplex, Poplex>>)
    [] type = "case" -> Cont(<<Do("expression"), Expect(":")>>)
    [] type = "default" -> Cont(<<Expect(":")>>)
    [] type = "catch" -> Cont(<<Pushlex("form"), Do("pushcontext"), Expect("("), Do("funarg"), Expect(")"),
                                Do("statement"), Poplex, Do("popcontext")>>)
    [] OTHER -> Pass(<<Pushlex("stat"), Do("expression"), Expect(";"), Poplex>>)

Expression(type) ==
  CASE type \in AtomicTypes -> Cont(<<Do("maybeoperator")>>)
    [] type = "function" -> Cont(<<Do("functiondef")>>)
    [] type = "keyword c" -> Cont(<<Do("maybeexpression")>>)
    [] type = "(" -> Cont(<<Pushlex(")"), Do("maybeexpression"), Expect(")"), Poplex, Do("maybeoperator")>>)
    [] type = "operator" -> Cont(<<Do("expression")>>)
    [] type = "[" -> Cont(<<Pushlex("]"), Commasep("expression", "]"), Poplex, Do("maybeoperator")>>)
    [] type = "{" -> Cont(<<Pushlex("}"), Commasep("objprop", "}"), Poplex, Do("maybeoperator")>>)
    [] OTHER -> Cont(<<>>)

(* Only ++, -- and ? go on with an expression; any other operator does not.  *)
MaybeOperator(type, t) ==
  CASE type = "operator" /\ t = "++" -> Cont(<<Do("maybeoperator")>>)
    [] type = "operator" /\ t = "?" -> Cont(<<Do("expression"), Expect(":"), Do("expression")>>)
    [] type = "(" -> Cont(<<Pushlex(")"), Commasep("expression", ")"), Poplex, Do("maybeoperator")>>)
    [] type = "." -> Cont(<<Do("property"), Do("maybeoperator")>>)
    [] type = "[" -> Cont(<<Pushlex("]"), Do("expression"), Expect("]"), Poplex, Do("maybeoperator")>>)
    [] OTHER -> Pass(<<>>)

ForSpec(c, type, t) ==
  CASE c = "forspec1" /\ type = "var" -> Cont(<<Do("vardef1"), Expect(";"), Do("forspec2")>>)
    [] c = "forspec1" /\ type = "variable" -> Cont(<<Do("formaybein")>>)
    [] c = "forspec1" /\ type \notin {"var", "variable"} -> Cont(<<Do("forspec2")>>)
    [] c = "formaybein" /\ t # "in" -> Cont(<<Do("maybeoperator"), Do("forspec2")>>)
    [] c = "forspec2" /\ type = ";" -> Cont(<<Do("forspec3")>>)
    [] c \in {"formaybein", "forspec2"} /\ t = "in" -> Cont(<<Do("expression")>>)
    [] c = "forspec2" /\ type # ";" /\ t # "in" -> Cont(<<Do("expression"), Expect(";"), Do("forspec3")>>)
    [] c = "forspec3" -> Pass(IF type = ")" THEN <<>> ELSE <<Do("expression")>>)

FunctionDef(type) ==
  CASE type = "variable" -> Cont(<<Do("functiondef")>>)
    [] type = "(" -> Cont(<<Pushlex(")"), Do("pushcontext"), Commasep("funarg", ")"), Poplex,
                            Do("statement"), Do("popcontext")>>)
    [] OTHER -> Pass(<<>>)

Expecting(wanted, type) ==
  CASE type = wanted -> Cont(<<>>)
    [] type # wanted /\ wanted = ";" -> Pass(<<>>)
    [] OTHER -> Cont(<<Expect(wanted)>>)

CommaSeparated(c, what, end, type) ==
  CASE c = "proceed" /\ type = "," -> Cont(<<Do(what), Proceed(what, end)>>)
    [] type = end -> Cont(<<>>)
    [] c = "proceed" /\ type \notin {",", end} -> Cont(<<Expect(end)>>)
    [] OTHER -> Pass(<<Do(what), Proceed(what, end)>>)

Combinator(c, type, t) ==
  CASE c[1] = "statement" -> Statement(type)
    [] c[1] = "expression" -> Expression(type)
    [] c[1] = "maybeexpression" -> Pass(IF type \in {";", "}", ")", "]", ","} THEN <<>> ELSE <<Do("expression")>>)
    [] c[1] = "maybeoperator" -> MaybeOperator(type, t)
    [] c[1] = "maybelabel" -> IF type = ":" THEN Cont(<<Poplex, Do("statement")>>)
                              ELSE Pass(<<Do("maybeoperator"), Expect(";"), Poplex>>)
    [] c[1] \in {"property", "funarg"} -> IF type = "variable" THEN Cont(<<>>) ELSE Pass(<<>>)
    [] c[1] = "objprop" -> IF type \in AtomicTypes THEN Cont(<<Expect(":"), Do("expression")>>) ELSE Pass(<<>>)
    [] c[1] = "block" -> IF type = "}" THEN Cont(<<>>) ELSE Pass(<<Do("statement"), Do("block")>>)
    [] c[1] = "vardef1" -> IF type = "variable" THEN Cont(<<Do("vardef2")>>) ELSE Pass(<<>>)
    [] c[1] = "vardef2" -> CASE t = "=" -> Cont(<<Do("expression"), Do("vardef2")>>)
                             [] type = "," -> Cont(<<Do("vardef1")>>)
                             [] OTHER -> Pass(<<>>)
    [] c[1] \in {"forspec1", "formaybein", "forspec2", "forspec3"} -> ForSpec(c[1], type, t)
    [] c[1] = "functiondef" -> FunctionDef(type)
    [] c[1] = "expect" -> Expecting(c[2], type)
    [] c[1] \in {"commasep", "proceed"} -> CommaSeparated(c[1], c[2], c[3], type)

-----------------------------------------------------------------------------
(* pushlex and poplex.  The base block is never popped. *)
ApplyLex(s, c, column) ==
  CASE c = Poplex /\ Len(s.lexical) = 1 -> s
    [] c = Poplex /\ Len(s.lexical) > 1 ->
         [s EXCEPT !.lexical = Tail(@),
                   !.indented = IF Head(s.lexical).type = ")" THEN Head(s.lexical).indented ELSE @]
    [] OTHER ->
         [s EXCEPT !.lexical = <<[type |-> c[2], info |-> c[3], indented |-> s.indented,
                                  column |-> column, align |-> "unset"]>> \o @]

RECURSIVE RunLex(_, _)
RunLex(s, column) ==
  IF s.cc = <<>> \/ ~IsLex(Head(s.cc)) THEN s
  ELSE RunLex(ApplyLex([s EXCEPT !.cc = Tail(@)], Head(s.cc), column), column)

(* Mutant: the function's scope stays when its body ends. *)
PopContext_Not(s) == s
PopContext(s) == [s EXCEPT !.scopes = Tail(@)]

Register(s, c, type, t) ==
  IF c[1] \in {"vardef1", "functiondef", "funarg"} /\ type = "variable" /\ s.scopes # <<>>
  THEN [s EXCEPT !.scopes = <<Head(@) \cup {t}>> \o Tail(@)] ELSE s

(* parseJS: combinators run until one takes the token. *)
RECURSIVE Parse(_, _, _)
Parse(s, t, column) ==
  LET c    == IF s.cc = <<>> THEN Do("statement") ELSE Head(s.cc)
      left == IF s.cc = <<>> THEN s ELSE [s EXCEPT !.cc = Tail(@)]
      type == s.lastType
      r    == Combinator(c, type, t)
      done == [Register(left, c, type, t) EXCEPT !.cc = r.todo \o @]
  IN  CASE IsLex(c) -> Parse(ApplyLex(left, c, column), t, column)
        [] c = Do("pushcontext") -> Parse([left EXCEPT !.scopes = <<{}>> \o @], t, column)
        [] c = Do("popcontext") -> Parse(PopContext(left), t, column)
        [] OTHER -> IF r.takes THEN RunLex(done, column) ELSE Parse(done, t, column)

Aligned(s, align) == IF Head(s.lexical).align = "unset" THEN [s EXCEPT !.lexical[1].align = align] ELSE s

(* token: the first one of a line fixes the line's indentation; a comment    *)
(* is not parsed.                                                            *)
Token(s, t, l) ==
  LET atStart == IF l.length > 0 THEN s ELSE [Aligned(s, "no") EXCEPT !.indented = l.indentation]
      typed   == [Aligned(atStart, "yes") EXCEPT !.lastType = Type(t, s.lastType)]
  IN  IF t \in {"/*", "*/"} \/ l.comment THEN atStart ELSE Parse(typed, t, l.indentation + l.length)

(* indent: where a line goes that begins with t. *)
Indent(s, t) ==
  LET top     == Head(s.lexical)
      lexical == IF top.type = "stat" /\ t = "}" THEN s.lexical[2] ELSE top
      closing == t = lexical.type
      goesOn  == s.lastType \in {"operator", ","}
  IN  CASE lexical.type = "vardef" -> lexical.indented + (IF goesOn THEN 4 ELSE 0)
        [] lexical.type = "form" -> lexical.indented + (IF t = "{" THEN 0 ELSE Unit)
        [] lexical.type = "stat" -> lexical.indented + (IF goesOn THEN Unit ELSE 0)
        [] lexical.info = "switch" /\ ~closing -> lexical.indented + (IF t \in {"case", "default"} THEN Unit ELSE 2 * Unit)
        [] OTHER -> IF lexical.align = "yes" THEN lexical.column + (IF closing THEN 0 ELSE 1)
                    ELSE lexical.indented + (IF closing THEN 0 ELSE Unit)

(* indentLine: within a comment the new line begins as the one before it. *)
IndentLine(s, l, t) == IF l.comment THEN l.indentation ELSE IF Indent(s, t) < 0 THEN 0 ELSE Indent(s, t)

-----------------------------------------------------------------------------
Init ==
  /\ \/ rest \in Programs /\ free = FALSE
     \/ rest = <<>> /\ free = TRUE
  /\ read = 0 /\ open = <<>>
  /\ line = [indentation |-> 0, length |-> 0, comment |-> FALSE, base |-> 0, number |-> 1]
  /\ state = [lastType |-> "", cc |-> <<>>, scopes |-> <<>>, indented |-> 0,
              lexical |-> <<[type |-> "block", info |-> "", indented |-> -Unit, column |-> 0, align |-> "no"]>>]

Coming == IF free THEN Tokens ELSE IF rest = <<>> THEN {} ELSE {Head(rest)}

Opener(t) == CASE t = ")" -> "(" [] t = "]" -> "[" [] t = "}" -> "{" [] OTHER -> ""

(* A token is read, on the same line or as the first one of the next.  The   *)
(* history notes where a bracket stands, the indentation of its line or, on  *)
(* a line that ends a pair of parentheses, of the one where those began, and *)
(* whether the next token stands on its line.                                *)
Read(t, l) ==
  LET silent == l.comment \/ t \in {"/*", "*/"}
      here   == [token |-> t, indentation |-> l.base, column |-> l.indentation + l.length,
                 line |-> l.number, followed |-> "unset"]
      seen   == IF open # <<>> /\ open[1].followed = "unset"
                THEN [open EXCEPT ![1].followed = IF open[1].line = l.number THEN "yes" ELSE "no"] ELSE open
      closes == open # <<>> /\ open[1].token = Opener(t)
  IN  /\ state' = Token(state, t, l)
      /\ open' = CASE silent -> open
                   [] ~silent /\ t \in {"(", "[", "{"} -> <<here>> \o seen
                   [] ~silent /\ closes -> Tail(open)
                   [] OTHER -> seen
      /\ line' = [l EXCEPT !.length = @ + 1, !.comment = (@ \/ t = "/*") /\ t # "*/",
                           !.base = IF ~silent /\ closes /\ t = ")" THEN open[1].indentation ELSE @]
      /\ read' = read + 1
      /\ rest' = IF free THEN rest ELSE Tail(rest)
      /\ UNCHANGED free

SameLine == \E t \in Coming : Read(t, line)

NextLine ==
  \E t \in Coming :
    LET i == IndentLine(state, line, t)
    IN  /\ line.length > 0
        /\ Read(t, [line EXCEPT !.indentation = i, !.base = i, !.length = 0, !.number = @ + 1])

Next == (free => read < MaxTokens) /\ (SameLine \/ NextLine)

Spec == Init /\ [][Next]_vars

-----------------------------------------------------------------------------
ScriptTypeOK ==
  /\ free \in BOOLEAN /\ read \in Nat
  /\ state.lexical # <<>> /\ state.indented \in Nat /\ state.scopes \in Seq(SUBSET Names)

Count(s, c) == Cardinality({i \in DOMAIN s : s[i] = c})

(* Whatever is typed: each lexical block and each scope that is open has its *)
(* end among the combinators to come, so that none is closed twice.          *)
EndsAreOwed ==
  LET pushlexes == Cardinality({i \in DOMAIN state.cc : state.cc[i][1] = "pushlex"})
      cc == state.cc
  IN  /\ Len(state.lexical) - 1 + pushlexes = Count(cc, Poplex) + Count(cc, Do("maybelabel"))
      /\ Len(state.scopes) + Count(cc, Do("pushcontext")) = Count(cc, Do("popcontext"))

(* In a well-formed program the blocks are the brackets that are open, and   *)
(* at its end nothing is left but scopes that close at the next token.       *)
BlocksAreBrackets ==
  LET blocks == SelectSeq(state.lexical, LAMBDA b : b.type \in {")", "]", "}"})
  IN  ~free => /\ Len(blocks) = Len(open)
               /\ \A i \in DOMAIN open :
                    /\ Opener(blocks[i].type) = open[i].token
                    /\ blocks[i].column = open[i].column /\ blocks[i].indented = open[i].indentation
               /\ rest = <<>> => Len(state.lexical) = 1 /\ \A i \in DOMAIN state.cc : state.cc[i] = Do("popcontext")

InSwitch == \E i \in DOMAIN state.lexical :
              state.lexical[i].info = "switch" /\ state.lexical[i].column = open[1].column

(* A line that closes a bracket is put under the line, or if something       *)
(* followed the bracket under the bracket, where it was opened; one that     *)
(* begins a statement of a block that is not a switch's, one step inside.    *)
IndentsByBlock ==
  LET t == Head(rest)
      at == open[1]
      due == state.lastType \in {";", "{", "}"} /\ at.token = "{" /\ t # "}" /\ ~InSwitch
  IN  (~free /\ rest # <<>> /\ open # <<>> /\ ~line.comment /\ t \notin {"/*", "*/"})
      => /\ (at.token = Opener(t)) =>
              IndentLine(state, line, t) = IF at.followed = "yes" THEN at.column ELSE at.indentation
         /\ due => IndentLine(state, line, t) =
                     IF at.followed = "yes" THEN at.column + 1 ELSE at.indentation + Unit

(* The parser keeps its books and the indentation follows the brackets. *)
ScriptRight == EndsAreOwed /\ BlocksAreBrackets /\ IndentsByBlock
=============================================================================
