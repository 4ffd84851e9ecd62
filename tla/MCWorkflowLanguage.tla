-------------------------- MODULE MCWorkflowLanguage --------------------------
(***************************************************************************)
(* The way of a workflow file into the server: scanner, parser, compiler,  *)
(* graph pool.  Each pass is checked over inputs of its own: short texts   *)
(* and the places where a read may cut a keyword; token sequences; and     *)
(* syntax trees that nest every statement in every other.  Only the pass   *)
(* that runs is looked at.                                                 *)
(***************************************************************************)
EXTENDS WorkflowSyntax, ExecutionGraphPool, FiniteSets, SequencesExt

CONSTANTS YY_BUF_SIZE, YY_READ_BUF_SIZE, MaxRestarts,
          TokenCodes, YYINITDEPTH, YYMAXDEPTH, MaxTokens,
          PoolSize, MaxAnswers

VARIABLES yyin, yybuffer, yyscan, lexed,
          yyss, yyvs, yystacksize, yychar, yylval, yyresult, root_node, yytokens,
          file, handlers, graphs, exe_graphs, loading,
          pass_

-----------------------------------------------------------------------------
\* Texts: i f 1 space { NUL, and keywords at their limits: "while(", "whil ",
\* "returnr", "workflow \200", "elsedo".
LexFiles ==
  BoundedSeq({105, 102, 49, 32, 123, 0}, 3) \cup
  {<<119, 104, 105, 108, 101, 40>>, <<119, 104, 105, 108, 32>>,
   <<114, 101, 116, 117, 114, 110, 114>>,
   <<119, 111, 114, 107, 102, 108, 111, 119, 32, 200>>,
   <<101, 108, 115, 101, 100, 111>>}

Lexer == INSTANCE WorkflowLexer WITH Files <- LexFiles
Parser == INSTANCE WorkflowParser

-----------------------------------------------------------------------------
\* Trees.  Names are numbered from left to right, modulo the number of names.
Name(i) == new_name_stmt(i)
List(child) == [new_stmt_list EXCEPT !.child = child]
Simple == {Name(0), new_return_stmt}
Blocks == {List(child) : child \in BoundedSeq(Simple, 2)}
Ends == {List(<<Name(0)>>), List(<<Name(0), new_return_stmt>>)}
None == new_empty_stmt

Over(blocks, conditions, elses) ==
  {new_if_stmt(c, b, e) : c \in conditions, b \in blocks, e \in elses} \cup
  {new_while_stmt(c, b) : c \in conditions, b \in blocks} \cup
  {new_dowhile_stmt(b, c) : c \in conditions, b \in blocks}

Flat == Over(Blocks, {Name(0), new_unop_exp(Name(0))},
             Blocks \cup {None, new_if_stmt(Name(0), List(<<Name(0)>>), None)})
Small == Over(Ends, {Name(0)}, Ends \cup {None})
Nested == Over({List(<<a>>) : a \in Small} \cup {List(<<a, b>>) : a \in Small, b \in Simple},
               {Name(0)}, {None, List(<<Name(0)>>)})

Shapes ==
  {List(<<>>)} \cup {List(<<a>>) : a \in Simple \cup Flat \cup Nested} \cup
  {List(<<a, b>>) : a \in Flat, b \in Simple} \cup
  {List(<<a, b>>) : a \in Simple, b \in Flat} \cup
  {List(<<a, b>>) : a, b \in Small}

RECURSIVE Number(_, _, _)
Number(node, n, names) ==
  LET parts == IF node.kind = "IF_STMT"
               THEN <<node.condition, node.then_block, node.else_block>> ELSE Parts(node)
      done[i \in 0..Len(parts)] ==
        IF i = 0 THEN [n |-> n, parts |-> <<>>]
        ELSE LET one == Number(parts[i], done[i - 1].n, names)
             IN  [n |-> one.n, parts |-> Append(done[i - 1].parts, one.node)]
      all == done[Len(parts)]
      p == all.parts
  IN  [n |-> IF node.kind = "NAME" THEN n + 1 ELSE all.n,
       node |-> CASE node.kind = "NAME" -> Name((n % names) + 1)
                  [] node.kind = "STMT_LIST" -> List(p)
                  [] node.kind = "IF_STMT" -> new_if_stmt(p[1], p[2], p[3])
                  [] node.kind = "WHILE_STMT" -> new_while_stmt(p[1], p[2])
                  [] node.kind = "DOWHILE_STMT" -> new_dowhile_stmt(p[1], p[2])
                  [] node.kind = "UNOP_EXP" -> new_unop_exp(p[1])
                  [] OTHER -> node]

\* One workflow, its steps with names of their own or with two names in turn;
\* two workflows, of the same or of different names.
SourceFiles ==
  {<<new_workflow(Name(1), Number(s, 0, k).node)>> : s \in Shapes, k \in {2, 9}} \cup
  {<<new_workflow(Name(1), List(<<Name(1)>>)), new_workflow(Name(i), List(<<Name(2), Name(1)>>))>>
     : i \in 1..2}

Compiler == INSTANCE WorkflowCompiler WITH
  Sources <- SourceFiles, Handlers <- {1..9, {1, 2, 4}}

-----------------------------------------------------------------------------
lexState == <<yyin, yybuffer, yyscan, lexed>>
parseState == <<yyss, yyvs, yystacksize, yychar, yylval, yyresult, root_node, yytokens>>
compileState == <<file, handlers, graphs, exe_graphs, loading>>

\* The passes that do not run have one initial state each.
NoCompile ==
  /\ file = <<>> /\ handlers = {} /\ graphs = <<>> /\ exe_graphs = <<>>
  /\ loading = [stage |-> "idle", at |-> 1]
NoLex ==
  /\ yyin = [file |-> <<>>, text |-> <<>>, restarts |-> 0]
  /\ yybuffer = [ch |-> <<>>, size |-> YY_BUF_SIZE, status |-> "NEW"]
  /\ yyscan = [pc |-> "between", text |-> 0, cp |-> 0, state |-> 1,
               last |-> [state |-> 0, cp |-> 0]]
  /\ lexed = <<>>
NoPool ==
  /\ mode_ = "singleton" /\ use_tls_ = FALSE /\ version_ = 1
  /\ exe_graphs_ = <<>> /\ tls_exe_graphs_ = <<>> /\ inUse = <<>> /\ releasing = <<>>
  /\ served = [g \in Graph |-> 0]

LanguageInit ==
  /\ Parser!ParseInit
  /\ \/ pass_ = "lexer" /\ Lexer!LexInit /\ NoCompile /\ NoPool
     \/ pass_ = "parser" /\ NoLex /\ NoCompile /\ NoPool
     \/ pass_ = "compiler" /\ NoLex /\ Compiler!CompilerInit /\ NoPool
     \/ pass_ = "pool" /\ NoLex /\ NoCompile /\ GraphInit

LanguageNext ==
  /\ UNCHANGED pass_
  /\ \/ pass_ = "lexer" /\ Lexer!LexNext /\ UNCHANGED <<parseState, compileState, graphVars>>
     \/ pass_ = "parser" /\ Parser!ParseNext /\ UNCHANGED <<lexState, compileState, graphVars>>
     \/ pass_ = "compiler" /\ Compiler!CompilerNext /\ UNCHANGED <<lexState, parseState, graphVars>>
     \/ pass_ = "pool" /\ GraphNext /\ UNCHANGED <<lexState, parseState, compileState>>

NoPass == pass_ = "none" /\ Parser!ParseInit /\ NoLex /\ NoCompile /\ NoPool

languageState == <<lexState, parseState, compileState, graphVars, pass_>>

-----------------------------------------------------------------------------
\* yylex: the tokens are those of workflow.l, wherever the reads cut the file,
\* and the buffer holds what is read into it.
ScannerOK == pass_ = "lexer" => Lexer!ScannerOK

\* yyparse accepts what workflow.y derives and nothing else; the tree prints as
\* the file and is freed as a whole; the stacks stay within their arrays.
ParserOK == pass_ = "parser" => Parser!ParserOK

\* Compile, CheckValid, BuildGraph, Clone: graphs and execution graphs run the
\* handlers the text asks for; exactly the unrunnable texts are rejected.
CompilerOK == pass_ = "compiler" => Compiler!CompilerOK
=============================================================================
