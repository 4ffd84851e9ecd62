---------------------------- MODULE WorkflowParser ----------------------------
(***************************************************************************)
(* orc/workflow/parser/parser.c, the LALR(1) parser bison generated from   *)
(* workflow.y: the tables, the automaton yyparse, its two stacks, and the  *)
(* semantic actions that build the syntax tree.                            *)
(*                                                                         *)
(* yylex is any sequence of tokens of at most MaxTokens, the n-th NAME     *)
(* carrying the n-th of the names.  Of the error handling only the way to YYABORT is  *)
(* there: no state shifts the error token (yycheck has no 1), so the       *)
(* search for one pops everything.  malloc does not fail.                  *)
(***************************************************************************)
EXTENDS WorkflowSyntax, Integers

CONSTANTS
  TokenCodes,    \* what yylex may return before the end
  YYINITDEPTH,   \* 200 in the code
  YYMAXDEPTH,    \* 10000 in the code
  MaxTokens      \* bound on the tokens of a file

VARIABLES
  yyss,          \* state stack
  yyvs,          \* value stack
  yystacksize,
  yychar,        \* the lookahead token, or YYEMPTY
  yylval,        \* the node of the last NAME
  yyresult,      \* "run", then "accept" (0), "abort" (1) or "exhausted" (2)
  root_node,     \* the tree
  yytokens       \* what has been read, the names themselves for NAME

parseVars == <<yyss, yyvs, yystacksize, yychar, yylval, yyresult, root_node, yytokens>>

YYEMPTY == "empty"
YYEOF == "end"
Names == <<"a", "b", "c", "d", "e", "f", "g", "h", "i", "j", "k", "l", "m", "n">>
NameSet == {"a", "b", "c", "d", "e", "f", "g", "h", "i", "j", "k", "l", "m", "n"}
YYFINAL == 2
YYLAST == 32
YYNTOKENS == 15

-----------------------------------------------------------------------------
\* The tables; entry 0 comes first.
YYTRANSLATE(c) ==
  CASE c = YYEOF -> 0 [] c = "NAME" -> 3 [] c = "IF" -> 4 [] c = "ELSE" -> 5 [] c = "DO" -> 6
    [] c = "WHILE" -> 7 [] c = "WORKFLOW" -> 8 [] c = "RETURN" -> 9 [] c = "{" -> 10
    [] c = "}" -> 11 [] c = "!" -> 12 [] c = "(" -> 13 [] c = ")" -> 14 [] OTHER -> 2

yypact == <<
  -14, 2, -14, 6, -14, -6, -14, -14, 19, -14,
  5, -6, 5, -14, -14, 5, 5, -14, -14, -14,
  -14, -14, -14, -6, 8, -6, -14, -1, 11, 5,
  -14, -14, 1, -14, -14, -14, -14>>
yydefact == <<
  2, 0, 1, 0, 3, 0, 6, 4, 0, 22,
  0, 0, 0, 19, 5, 0, 0, 7, 8, 9,
  10, 11, 12, 0, 0, 0, 20, 0, 14, 0,
  17, 21, 0, 13, 18, 15, 16>>
yypgoto == <<-14, -14, -14, -11, -14, -14, -13, -14, -14, -14, -14, -9>>
yydefgoto == <<-1, 1, 4, 7, 8, 17, 18, 33, 19, 20, 21, 22>>
yytable == <<
  24, 23, 2, 25, 6, 10, 26, 27, 9, 5,
  3, 6, 28, 31, 30, 29, 32, 15, 16, 36,
  34, 35, 9, 10, 0, 11, 12, 0, 13, 0,
  14, 15, 16>>
yycheck == <<
  11, 10, 0, 12, 10, 4, 15, 16, 3, 3,
  8, 10, 23, 14, 25, 7, 5, 12, 13, 32,
  29, 32, 3, 4, -1, 6, 7, -1, 9, -1,
  11, 12, 13>>
yyr1 == <<
  0, 15, 16, 16, 17, 18, 19, 19, 20, 20,
  20, 20, 20, 21, 22, 22, 22, 23, 24, 25,
  26, 26, 26>>
yyr2 == <<
  0, 2, 0, 2, 3, 3, 0, 2, 1, 1,
  1, 1, 1, 4, 0, 2, 2, 3, 4, 1,
  2, 3, 1>>

yystate == yyss[Len(yyss)]
Default(s) == yypact[s + 1] = -14
Entry(table, i) == table[i + 1]

\* Slip: the entry is not compared with the token.
InTableUnchecked(i, symbol) == i \in 0..YYLAST

InTable(i, symbol) == i \in 0..YYLAST /\ Entry(yycheck, i) = symbol

\* What to do in the current state: <<"shift", state>>, <<"reduce", rule>>,
\* <<"error">>, or <<"read">> when that depends on a token not yet read.
yydefault == IF yydefact[yystate + 1] = 0 THEN <<"error">> ELSE <<"reduce", yydefact[yystate + 1]>>
yybackup ==
  IF Default(yystate) THEN yydefault
  ELSE IF yychar = YYEMPTY THEN <<"read">>
  ELSE LET yytoken == YYTRANSLATE(yychar)
           yyn == yypact[yystate + 1] + yytoken
       IN  IF ~ InTable(yyn, yytoken) THEN yydefault
           ELSE IF Entry(yytable, yyn) > 0 THEN <<"shift", Entry(yytable, yyn)>>
           ELSE <<"reduce", - Entry(yytable, yyn)>>

-----------------------------------------------------------------------------

\* yyss + yystacksize - 1 <= yyssp, with n elements on the stack.
StackFull(n) == yystacksize <= n

\* yynewstate: push, extend the stacks when they are full, accept in YYFINAL.
yynewstate(below, state) ==
  LET ss == Append(below, state)
      larger == IF 2 * yystacksize > YYMAXDEPTH THEN YYMAXDEPTH ELSE 2 * yystacksize
      size == IF StackFull(Len(ss)) /\ YYMAXDEPTH > yystacksize THEN larger ELSE yystacksize
  IN  /\ yyss' = ss
      /\ yystacksize' = size
      /\ yyresult' = IF StackFull(Len(ss)) /\ YYMAXDEPTH <= yystacksize THEN "exhausted"
                     ELSE IF StackFull(Len(ss)) /\ size <= Len(ss) THEN "abort"
                     ELSE IF state = YYFINAL THEN "accept" ELSE "run"

\* yylex: a code that is not positive is the end of the input.  Rule 9 of
\* the lexer returns such codes for NUL and for bytes from 128 on.
Read(c) ==
  /\ yyresult = "run" /\ yybackup[1] = "read"
  /\ c \in TokenCodes => Len(yytokens) < MaxTokens
  /\ yychar' = IF c = "not positive" THEN YYEOF ELSE c
  /\ LET name == Names[1 + Len(SelectSeq(yytokens, LAMBDA t : t \in NameSet))]
     IN  /\ yylval' = IF c = "NAME" THEN new_name_stmt(name) ELSE yylval
         /\ yytokens' = Append(yytokens, IF c = "NAME" THEN name ELSE yychar')
  /\ UNCHANGED <<yyss, yyvs, yystacksize, yyresult, root_node>>

\* The token is shifted, with whatever is in yylval.
Shift ==
  /\ yyresult = "run" /\ yybackup[1] = "shift"
  /\ yynewstate(yyss, yybackup[2])
  /\ yyvs' = Append(yyvs, yylval)
  /\ yychar' = YYEMPTY
  /\ UNCHANGED <<yylval, root_node, yytokens>>

IfAction(v) == new_if_stmt(v[2], v[3], v[4])

\* The semantic action of a rule for the values v of its right hand side.
\* A rule without one takes the first value; of an empty rule, garbage.
Action(rule, v) ==
  CASE rule = 4 -> new_workflow(v[2], v[3])
    [] rule \in {5, 15, 16, 21} -> v[2]
    [] rule = 6 -> new_stmt_list
    [] rule = 7 -> add_stmt(v[1], v[2])
    [] rule = 13 -> IfAction(v)
    [] rule = 14 -> new_empty_stmt
    [] rule = 17 -> new_while_stmt(v[2], v[3])
    [] rule = 18 -> new_dowhile_stmt(v[2], v[4])
    [] rule = 19 -> new_return_stmt
    [] rule = 20 -> new_unop_exp(v[2])
    [] rule = 2 -> yylval
    [] OTHER -> v[1]

\* yyreduce: rule 3 hangs the workflow under the root.
Reduce ==
  LET rule == yybackup[2]
      yylen == yyr2[rule + 1]
      n == Len(yyvs) - yylen
      v == SubSeq(yyvs, n + 1, Len(yyvs))
      ss == SubSeq(yyss, 1, n + 1)
      lhs == yyr1[rule + 1] - YYNTOKENS
      goto == Entry(yypgoto, lhs) + ss[Len(ss)]
      state == IF InTable(goto, ss[Len(ss)]) THEN Entry(yytable, goto) ELSE Entry(yydefgoto, lhs)
  IN  /\ yyresult = "run" /\ yybackup[1] = "reduce"
      /\ yyvs' = Append(SubSeq(yyvs, 1, n), Action(rule, v))
      /\ root_node' = IF rule = 3 THEN add_stmt(root_node, v[2]) ELSE root_node
      /\ yynewstate(ss, state)
      /\ UNCHANGED <<yychar, yylval, yytokens>>

\* yyerrlab: report, pop everything, YYABORT.
Error ==
  /\ yyresult = "run" /\ yybackup[1] = "error"
  /\ yyresult' = "abort"
  /\ yyss' = <<0>> /\ yyvs' = <<>>
  /\ UNCHANGED <<yystacksize, yychar, yylval, root_node, yytokens>>

\* yyparse, called by workflow_compile with the list Compile has made.
ParseInit ==
  /\ yyss = <<0>>
  /\ yyvs = <<>>
  /\ yystacksize = YYINITDEPTH
  /\ yychar = YYEMPTY
  /\ yylval = new_empty_stmt
  /\ yyresult = "run"
  /\ root_node = new_stmt_list
  /\ yytokens = <<>>

ParseNext == Shift \/ Reduce \/ Error \/ \E c \in TokenCodes \cup {YYEOF} : Read(c)

-----------------------------------------------------------------------------
\* The reference: workflow.y read top down, as a stack of symbols still to
\* be found.
ExpStarts == {"NAME", "!", "("}
StmtStarts == ExpStarts \cup {"IF", "WHILE", "DO", "RETURN"}
NoWay == <<"error">>

Predict(symbol, t) ==
  CASE symbol = "workflowlist" /\ t = "WORKFLOW" -> <<"WORKFLOW", "NAME", "block", "workflowlist">>
    [] symbol = "workflowlist" /\ t = YYEOF -> <<>>
    [] symbol = "block" -> <<"{", "stmtlist", "}">>
    [] symbol = "stmtlist" /\ t \in StmtStarts -> <<"stmt", "stmtlist">>
    [] symbol = "stmtlist" /\ t = "}" -> <<>>
    [] symbol = "stmt" /\ t = "IF" -> <<"ifstmt">>
    [] symbol = "stmt" /\ t = "WHILE" -> <<"WHILE", "exp", "block">>
    [] symbol = "stmt" /\ t = "DO" -> <<"DO", "block", "WHILE", "exp">>
    [] symbol = "stmt" /\ t = "RETURN" -> <<"RETURN">>
    [] symbol = "stmt" -> <<"exp">>
    [] symbol = "ifstmt" -> <<"IF", "exp", "block", "elsestmt">>
    [] symbol = "elsestmt" /\ t = "ELSE" -> <<"ELSE", "elsebody">>
    [] symbol = "elsestmt" -> <<>>
    [] symbol = "elsebody" /\ t = "IF" -> <<"ifstmt">>
    [] symbol = "elsebody" -> <<"block">>
    [] symbol = "exp" /\ t = "!" -> <<"!", "exp">>
    [] symbol = "exp" /\ t = "(" -> <<"(", "exp", ")">>
    [] symbol = "exp" -> <<"NAME">>
    [] OTHER -> NoWay

Nonterminals == {"workflowlist", "block", "stmtlist", "stmt", "ifstmt", "elsestmt", "elsebody", "exp"}

RECURSIVE RefRun(_, _)
RefRun(stack, tokens) ==
  IF tokens = <<>> \/ stack = NoWay THEN stack
  ELSE LET t == IF tokens[1] \in NameSet THEN "NAME" ELSE tokens[1]
           rhs == Predict(Head(stack), t)
       IN  IF Head(stack) = t THEN RefRun(Tail(stack), Tail(tokens))
           ELSE IF Head(stack) \in Nonterminals /\ rhs # NoWay THEN RefRun(rhs \o Tail(stack), tokens)
           ELSE NoWay

Ref == RefRun(<<"workflowlist", YYEOF>>, yytokens)

\* yyparse accepts what workflow.y derives and nothing else, and gives up at
\* the first token no sentence can have there.
AcceptsGrammar ==
  /\ yyresult = "accept" => Ref = <<>>
  /\ yyresult = "abort" => Ref = NoWay
  /\ yyresult = "run" /\ yychar = YYEMPTY => Ref # NoWay

\* The tree of an accepted file prints as the file, without parentheses:
\* nothing is lost, doubled or hung in the wrong place.
TreeIsText ==
  yyresult = "accept" =>
    SubSeq(print_node(root_node), 2, Len(print_node(root_node)) - 1)
      = SelectSeq(yytokens, LAMBDA t : t \notin {"(", ")", YYEOF})

\* How many nodes the reading of the file has allocated, and the root.
NodesNeeded ==
  LET count(S) == Len(SelectSeq(yytokens, LAMBDA t : t \in S))
  IN  1 + count(NameSet \cup {"WORKFLOW", "{", "!", "RETURN", "IF", "WHILE"})
        + count({"IF"}) - count({"ELSE"})

\* workflow_syntax_delete_node on the root frees every node of an accepted
\* file.  (A syntax error leaks what is on the value stack: there is no
\* destructor.)
NothingLeaks == yyresult = "accept" => delete_node(root_node) = NodesNeeded

\* The stacks never outgrow their arrays, and the parser only gives up for
\* want of memory at YYMAXDEPTH.
StackBounds ==
  /\ Len(yyss) <= yystacksize /\ yystacksize <= YYMAXDEPTH
  /\ yyresult = "exhausted" => Len(yyss) = YYMAXDEPTH

\* yyparse: the right files are accepted, with the right tree, which is freed
\* as a whole, on stacks that stay within their arrays.
ParserOK == AcceptsGrammar /\ TreeIsText /\ NothingLeaks /\ StackBounds
=============================================================================
