--------------------------- MODULE WorkflowCompiler ---------------------------
(***************************************************************************)
(* orc/workflow/compiler.cc, graph.cc and the building of execution graphs *)
(* in framework/execution_graph_mgr.cc and execution_graph.cc: the syntax  *)
(* trees of a workflow file become graphs of nodes with a true and a false *)
(* edge, the graphs become execution graphs keyed by the names of the      *)
(* handlers, and these are cloned to fill a pool.                          *)
(*                                                                         *)
(* A Label is the set of edges that wait for their target, an edge a pair  *)
(* <<node, direct>>; a Compile operator gets the edges of its prev_label   *)
(* and returns the ones it leaves in its next_label.  A node is the number *)
(* of its allocation, Null the null pointer and End the end node; the      *)
(* names of handlers are positive numbers.                                 *)
(***************************************************************************)
EXTENDS WorkflowSyntax, Integers, FiniteSets

CONSTANTS Sources,     \* the files: sequences of WORKFLOW trees
          Handlers,    \* sets of names the handler manager may know
          PoolSize,    \* graphs per workflow, the first one included
          MaxAnswers   \* the length of the runs that are compared

VARIABLES file,        \* the syntax trees that CompileInner works through
          handlers,    \* the names HandlerMgr::GetHandler finds
          graphs,      \* name -> compiled graph
          exe_graphs,  \* name -> sequence of execution graphs
          loading      \* where ReloadGraph is: [stage, at]

compilerVars == <<file, handlers, graphs, exe_graphs, loading>>

Null == 0
End == -1
NoNodes == <<>>
Fail == [ok |-> FALSE]

\* The early returns: go on with a result that is good.
Checked(result, GoOn(_)) == IF result.ok THEN GoOn(result) ELSE Fail

-----------------------------------------------------------------------------
(* Labels and expressions.  g is the sequence of the nodes: [name, t, f].   *)

\* Label::Attach: every edge of the label gets its target.
Attach(g, label, node) ==
  [n \in DOMAIN g |->
     [g[n] EXCEPT !.t = IF <<n, TRUE>> \in label THEN node ELSE @,
                  !.f = IF <<n, FALSE>> \in label THEN node ELSE @]]

CompileName(syntax, g) ==
  LET n == Len(g) + 1
  IN  [g |-> Append(g, [name |-> syntax.str, t |-> Null, f |-> Null]), entry |-> n,
       prev |-> {<<n, TRUE>>}, next |-> {<<n, FALSE>>}]

\* An expression puts the edges taken when it holds in prev_label.
RECURSIVE CompileExp(_, _)

CompileUnopExp(syntax, g) ==
  LET e == CompileExp(syntax.left, g)
  IN  [e EXCEPT !.prev = e.next, !.next = e.prev]

CompileExp(syntax, g) ==
  IF syntax.kind = "UNOP_EXP" THEN CompileUnopExp(syntax, g) ELSE CompileName(syntax, g)

-----------------------------------------------------------------------------
(* Statements: [ok, g, entry, next].                                        *)

RECURSIVE CompileBlock(_, _, _)

CompileExpStmt(syntax, g, prev) ==
  LET e == CompileExp(syntax, g)
  IN  [ok |-> TRUE, g |-> Attach(e.g, prev, e.entry), entry |-> e.entry, next |-> e.prev \cup e.next]

\* The entry of the context stays what it was.
CompileReturnStmt(syntax, g, prev) ==
  [ok |-> TRUE, g |-> Attach(g, prev, End), entry |-> Null, next |-> {}]

CompileIfStmt(syntax, g, prev) ==
  LET c == CompileExp(syntax.condition, g)
  IN  Checked(CompileBlock(syntax.then_block, c.g, c.prev),
        LAMBDA then :
          Checked(IF syntax.else_block.kind = "EMPTY_STMT"
                  THEN [ok |-> TRUE, g |-> then.g, next |-> c.next]
                  ELSE CompileBlock(syntax.else_block, then.g, c.next),
            LAMBDA else : [ok |-> TRUE, g |-> Attach(else.g, prev, c.entry), entry |-> c.entry,
                           next |-> then.next \cup else.next]))

CompileWhileStmt(syntax, g, prev) ==
  LET c == CompileExp(syntax.condition, g)
  IN  Checked(CompileBlock(syntax.block, c.g, c.prev),
        LAMBDA block : [ok |-> TRUE, g |-> Attach(block.g, block.next \cup prev, c.entry),
                        entry |-> c.entry, next |-> c.next])

CompileDoWhileStmt(syntax, g, prev) ==
  Checked(CompileBlock(syntax.block, g, prev),
    LAMBDA block :
      LET c == CompileExp(syntax.condition, block.g)
          back == Attach(c.g, c.prev, block.entry)
      IN  [ok |-> TRUE, g |-> Attach(back, block.next, c.entry), entry |-> block.entry,
           next |-> c.next])

\* ComplieStmt.
CompileStmt(syntax, g, prev) ==
  CASE syntax.kind = "IF_STMT" -> CompileIfStmt(syntax, g, prev)
    [] syntax.kind = "WHILE_STMT" -> CompileWhileStmt(syntax, g, prev)
    [] syntax.kind = "DOWHILE_STMT" -> CompileDoWhileStmt(syntax, g, prev)
    [] syntax.kind = "RETURN_STMT" -> CompileReturnStmt(syntax, g, prev)
    [] OTHER -> CompileExpStmt(syntax, g, prev)

\* The statements of a block that are compiled: none follows a return.
Compiled(child) ==
  LET returns == {i \in DOMAIN child : child[i].kind = "RETURN_STMT"}
  IN  IF returns = {} THEN child
      ELSE SubSeq(child, 1, CHOOSE i \in returns : \A j \in returns : i <= j)

\* The first statement of a block has an empty prev_label; the label of the
\* block is attached to its entry at the end, null when it has none.
CompileBlock(syntax, g, prev) ==
  LET child == Compiled(syntax.child)
      Step[i \in 0..Len(child)] ==
        IF i = 0 THEN [ok |-> TRUE, g |-> g, entry |-> Null, next |-> {}]
        ELSE Checked(Step[i - 1],
               LAMBDA before :
                 Checked(CompileStmt(child[i], before.g, before.next),
                   LAMBDA stmt : [stmt EXCEPT !.entry = IF i = 1 THEN @ ELSE before.entry]))
  IN  IF syntax.kind # "STMT_LIST" THEN Fail
      ELSE Checked(Step[Len(child)],
             LAMBDA all : [all EXCEPT !.g = Attach(@, prev, all.entry)])

-----------------------------------------------------------------------------
(* wf::Graph.                                                               *)

\* The nodes CheckNode and Traverse visit: all that paths of edges reach.
RECURSIVE TraverseNode(_, _)
TraverseNode(g, seen) ==
  LET next == seen \cup {m \in DOMAIN g : \E n \in seen : m \in {g[n].t, g[n].f}}
  IN  IF next = seen THEN seen ELSE TraverseNode(g, next)

\* CheckNode fails at a node that it reaches and that lacks an edge.
CheckNode(g, n) == g[n].t # Null /\ g[n].f # Null

CheckValid(g, entry) ==
  IF entry = Null THEN g = NoNodes
  ELSE LET checked_nodes == TraverseNode(g, {entry})
       IN  /\ \A n \in checked_nodes : CheckNode(g, n)
           /\ Cardinality(checked_nodes) = Len(g)
           /\ entry \in DOMAIN g

CompileWorkflow(syntax, known) ==
  IF syntax.name.str \in known THEN Fail
  ELSE Checked(CompileBlock(syntax.block, NoNodes, {}),
         LAMBDA block :
           LET g == Attach(block.g, block.next, End)
           IN  IF CheckValid(g, block.entry) THEN [ok |-> TRUE, g |-> g, entry |-> block.entry]
               ELSE Fail)

-----------------------------------------------------------------------------
(* Execution graphs: [nodes, entry].  A pointer to a node is the number of  *)
(* the graph in the pool and the name of the node.                          *)

Pointer(copy, name) == <<copy, name>>
EndNode == Pointer(0, End)

WithName(f, name, value) == [x \in DOMAIN f \cup {name} |-> IF x = name THEN value ELSE f[x]]

\* BuildNode: a name is built once, and found while it is being built.  The
\* result is [ok, node, nodes].
RECURSIVE BuildNode(_, _, _)

BuildNode(g, n, nodes) ==
  IF n = End THEN [ok |-> TRUE, node |-> EndNode, nodes |-> nodes]
  ELSE IF g[n].name \in DOMAIN nodes THEN [ok |-> TRUE, node |-> Pointer(1, g[n].name), nodes |-> nodes]
  ELSE IF g[n].name \notin handlers THEN Fail
  ELSE LET name == g[n].name
       IN  Checked(BuildNode(g, g[n].t, WithName(nodes, name, [t |-> EndNode, f |-> EndNode])),
             LAMBDA true_next :
               Checked(BuildNode(g, g[n].f, true_next.nodes),
                 LAMBDA false_next :
                   [ok |-> TRUE, node |-> Pointer(1, name),
                    nodes |-> [false_next.nodes EXCEPT
                                 ![name] = [t |-> true_next.node, f |-> false_next.node]]]))

BuildGraph(graph) ==
  Checked(BuildNode(graph.g, graph.entry, <<>>),
    LAMBDA built : [ok |-> TRUE, nodes |-> built.nodes, entry |-> built.node])

Redirected(p, copy) == IF p = EndNode THEN EndNode ELSE Pointer(copy, p[2])

\* Slip: the false edges of the clone are not redirected.
CloneShared(exe, copy) ==
  [exe EXCEPT !.entry = Redirected(@, copy),
              !.nodes = [x \in DOMAIN @ |-> [t |-> Redirected(@[x].t, copy), f |-> @[x].f]]]

\* ExecutionGraph::Clone: the edges lead to the clone's nodes of those names.
Clone(exe, copy) ==
  [exe EXCEPT !.entry = Redirected(@, copy),
              !.nodes = [x \in DOMAIN @ |-> [t |-> Redirected(@[x].t, copy),
                                             f |-> Redirected(@[x].f, copy)]]]

-----------------------------------------------------------------------------
CompilerInit ==
  /\ file \in Sources
  /\ handlers \in Handlers
  /\ graphs = <<>>
  /\ exe_graphs = <<>>
  /\ loading = [stage |-> "compile", at |-> 1]

\* CompileInner: the next workflow of the file.
CompileNext ==
  /\ loading.stage = "compile" /\ loading.at <= Len(file)
  /\ LET syntax == file[loading.at]
         made == CompileWorkflow(syntax, DOMAIN graphs)
     IN  IF made.ok
         THEN /\ graphs' = WithName(graphs, syntax.name.str, [g |-> made.g, entry |-> made.entry])
              /\ loading' = [loading EXCEPT !.at = @ + 1]
         ELSE /\ loading' = [loading EXCEPT !.stage = "rejected"]
              /\ UNCHANGED graphs
  /\ UNCHANGED <<file, handlers, exe_graphs>>

\* ReloadExeGraph: the next graph is built and cloned, unless the handler of
\* a clone cannot be had.  BuildNode dereferences the entry without a test.
BuildNext ==
  /\ loading.stage = "compile" /\ loading.at > Len(file)
  /\ \E name \in DOMAIN graphs \ DOMAIN exe_graphs :
       \/ /\ graphs[name].entry = Null
          /\ loading' = [loading EXCEPT !.stage = "crashed"]
          /\ UNCHANGED exe_graphs
       \/ /\ graphs[name].entry # Null
          /\ LET built == BuildGraph(graphs[name])
             IN  \/ /\ built.ok
                    /\ exe_graphs' = WithName(exe_graphs, name,
                         [i \in 1..PoolSize |-> IF i = 1 THEN built ELSE Clone(built, i)])
                    /\ UNCHANGED loading
                 \/ /\ built.ok => PoolSize > 1
                    /\ loading' = [loading EXCEPT !.stage = "no handler"]
                    /\ UNCHANGED exe_graphs
  /\ UNCHANGED <<file, handlers, graphs>>

\* ReloadGraph: the graphs of the new version are put in the place of the old.
Reloaded ==
  /\ loading.stage = "compile" /\ loading.at > Len(file)
  /\ DOMAIN graphs = DOMAIN exe_graphs
  /\ loading' = [loading EXCEPT !.stage = "loaded"]
  /\ UNCHANGED <<file, handlers, graphs, exe_graphs>>

CompilerNext == CompileNext \/ BuildNext \/ Reloaded

-----------------------------------------------------------------------------
(* Reference: the workflow language run statement by statement on answers   *)
(* of its handlers.  r is [ran, left, over]: what ran, the answers that     *)
(* are left, and whether the run is over.                                   *)

Negated(exp) == exp.kind = "UNOP_EXP"

RECURSIVE NameOf(_), Holds(_, _), Run(_, _), RunAll(_, _, _), Loop(_, _)
NameOf(exp) == IF Negated(exp) THEN NameOf(exp.left) ELSE exp.str
Holds(exp, answer) == IF Negated(exp) THEN ~Holds(exp.left, answer) ELSE answer

\* A handler runs and takes the next answer; without one the run stops.
Ask(exp, r) ==
  IF r.over THEN r
  ELSE IF r.left = <<>> THEN [r EXCEPT !.over = TRUE, !.cut = TRUE]
  ELSE [r EXCEPT !.ran = Append(@, NameOf(exp)), !.left = Tail(@), !.yes = Holds(exp, Head(r.left))]

Loop(node, r) ==
  LET c == Ask(node.condition, r)
  IN  IF c.over THEN c ELSE IF c.yes THEN Loop(node, Run(node.block, c)) ELSE c

RunAll(child, i, r) == IF i > Len(child) THEN r ELSE RunAll(child, i + 1, Run(child[i], r))

Run(node, r) ==
  IF r.over THEN r
  ELSE CASE node.kind = "STMT_LIST" -> RunAll(node.child, 1, r)
         [] node.kind = "EMPTY_STMT" -> r
         [] node.kind = "RETURN_STMT" -> [r EXCEPT !.over = TRUE]
         [] node.kind = "IF_STMT" ->
              LET c == Ask(node.condition, r)
              IN  IF c.over THEN c ELSE Run(IF c.yes THEN node.then_block ELSE node.else_block, c)
         [] node.kind = "WHILE_STMT" -> Loop(node, r)
         [] node.kind = "DOWHILE_STMT" -> Loop(node, Run(node.block, r))
         [] OTHER -> Ask(node, r)

\* <<the handlers that ran, whether the answers ran out>>.
RunOf(syntax, answers) ==
  LET r == Run(syntax.block, [ran |-> <<>>, left |-> answers, over |-> FALSE, cut |-> FALSE,
                             yes |-> FALSE])
  IN  <<r.ran, r.cut>>

\* The same for a walk through a graph: Succ(n, b) is where n leads on b.
Walk(Name(_), Succ(_, _), Ends, entry, answers) ==
  LET at[i \in 1..(Len(answers) + 1)] ==
        IF i = 1 THEN entry
        ELSE IF at[i - 1] \in Ends THEN at[i - 1]
        ELSE Succ(at[i - 1], answers[i - 1])
      ran == {i \in DOMAIN answers : at[i] \notin Ends}
  IN  <<[i \in 1..Cardinality(ran) |-> Name(at[i])], at[Len(answers) + 1] \notin Ends>>

WalkGraph(g, n, answers) ==
  LET Name(m) == g[m].name
      Succ(m, b) == IF b THEN g[m].t ELSE g[m].f
  IN  Walk(Name, Succ, {Null, End}, n, answers)

WalkExe(exes, i, answers) ==
  LET Name(p) == p[2]
      Succ(p, b) == IF b THEN exes[p[1]].nodes[p[2]].t ELSE exes[p[1]].nodes[p[2]].f
  IN  Walk(Name, Succ, {EndNode}, exes[i].entry, answers)

Answers == [1..MaxAnswers -> BOOLEAN]

TreeOf(name) == file[CHOOSE i \in DOMAIN file : file[i].name.str = name]

\* What the compiler asks of a program.  Control comes to the end of node.
RECURSIVE Falls(_), Runnable(_)
Falls(node) ==
  CASE node.kind = "STMT_LIST" -> \A i \in DOMAIN node.child : Falls(node.child[i])
    [] node.kind = "RETURN_STMT" -> FALSE
    [] node.kind = "IF_STMT" -> Falls(node.then_block) \/ Falls(node.else_block)
    [] node.kind = "DOWHILE_STMT" -> Falls(node.block)
    [] OTHER -> TRUE

\* A nested block is a list that begins with a step.
Begins(block) ==
  /\ block.kind = "STMT_LIST" /\ block.child # <<>>
  /\ block.child[1].kind # "RETURN_STMT"
  /\ Runnable(block)

\* Every step can be reached, those after a return statement of the same
\* block apart.
Runnable(node) ==
  CASE node.kind = "STMT_LIST" ->
         LET reached == {i \in DOMAIN node.child :
                           \A j \in 1..(i - 1) : node.child[j].kind # "RETURN_STMT"}
         IN  \A i \in reached : /\ Runnable(node.child[i])
                                /\ (/\ i + 1 \in reached
                                    /\ node.child[i + 1].kind # "RETURN_STMT") => Falls(node.child[i])
    [] node.kind = "IF_STMT" ->
         /\ Begins(node.then_block)
         /\ node.else_block.kind # "EMPTY_STMT" => Begins(node.else_block)
    [] node.kind = "WHILE_STMT" -> Begins(node.block)
    [] node.kind = "DOWHILE_STMT" -> Begins(node.block) /\ Falls(node.block)
    [] OTHER -> TRUE

-----------------------------------------------------------------------------
(* Properties.                                                              *)

\* Compile: a compiled graph runs the handlers its text asks for, whatever
\* the handlers answer.
CompiledRuns ==
  \A name \in DOMAIN graphs, answers \in Answers :
    WalkGraph(graphs[name].g, graphs[name].entry, answers) = RunOf(TreeOf(name), answers)

\* CompileWorkflow and CheckValid: a workflow is rejected exactly when its
\* name is taken, a nested block does not begin with a step (an else that
\* is an if counts) or some step can never be reached.
RejectsUnrunnable ==
  /\ \A i \in 1..(loading.at - 1) : Runnable(file[i].block)
  /\ loading.stage = "rejected" =>
       \/ ~Runnable(file[loading.at].block)
       \/ \E i \in 1..(loading.at - 1) : file[i].name = file[loading.at].name

\* BuildNode keys the nodes by name: every built graph and every clone of
\* it runs like the compiled one, provided that steps of the same name go
\* on alike; every name has its handler; no pointer leaves its graph.
ExecutionRuns ==
  \A name \in DOMAIN exe_graphs :
    LET g == graphs[name].g
        exes == exe_graphs[name]
        alike == \A n, m \in DOMAIN g : g[n].name = g[m].name =>
                   \A answers \in Answers : WalkGraph(g, n, answers) = WalkGraph(g, m, answers)
    IN  \A i \in 1..PoolSize :
          /\ DOMAIN exes[i].nodes = {g[n].name : n \in DOMAIN g}
          /\ DOMAIN exes[i].nodes \subseteq handlers
          /\ \A x \in DOMAIN exes[i].nodes :
               {exes[i].nodes[x].t, exes[i].nodes[x].f, exes[i].entry}
                 \subseteq {EndNode} \cup {Pointer(i, y) : y \in DOMAIN exes[i].nodes}
          /\ alike => \A answers \in Answers :
               WalkExe(exes, i, answers) = WalkGraph(g, graphs[name].entry, answers)

\* Compile, BuildGraph, Clone: what runs is what the text says, and what could
\* not run is rejected.
CompilerOK == CompiledRuns /\ RejectsUnrunnable /\ ExecutionRuns
=============================================================================
