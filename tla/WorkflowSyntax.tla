---------------------------- MODULE WorkflowSyntax ----------------------------
(***************************************************************************)
(* orc/workflow/parser/syntax.c: the syntax tree of the workflow language. *)
(* A node is a record with its kind; pointers to the children are the      *)
(* children.  Allocation does not fail.                                    *)
(***************************************************************************)
EXTENDS Naturals, Sequences

\* The constructors.
new_workflow(name, block) == [kind |-> "WORKFLOW", name |-> name, block |-> block]
new_stmt_list == [kind |-> "STMT_LIST", child |-> <<>>]
new_empty_stmt == [kind |-> "EMPTY_STMT"]
new_if_stmt(condition, then_block, else_block) ==
  [kind |-> "IF_STMT", condition |-> condition, then_block |-> then_block, else_block |-> else_block]
new_while_stmt(condition, block) ==
  [kind |-> "WHILE_STMT", condition |-> condition, block |-> block]
new_dowhile_stmt(block, condition) ==
  [kind |-> "DOWHILE_STMT", condition |-> condition, block |-> block]
new_return_stmt == [kind |-> "RETURN_STMT"]
new_unop_exp(exp) == [kind |-> "UNOP_EXP", left |-> exp]
new_name_stmt(str) == [kind |-> "NAME", str |-> str]

\* The array grows from 10 by doubling, and always has room.
add_stmt(self, stmt) == [self EXCEPT !.child = Append(@, stmt)]

IfParts(node) == <<node.condition, node.then_block, node.else_block>>

\* The children of a node in the order of the text.
Parts(node) ==
  CASE node.kind = "WORKFLOW" -> <<node.name, node.block>>
    [] node.kind = "STMT_LIST" -> node.child
    [] node.kind = "IF_STMT" -> IfParts(node)
    [] node.kind = "WHILE_STMT" -> <<node.condition, node.block>>
    [] node.kind = "DOWHILE_STMT" -> <<node.block, node.condition>>
    [] node.kind = "UNOP_EXP" -> <<node.left>>
    [] OTHER -> <<>>

\* delete_node: how many nodes it frees.
RECURSIVE delete_node(_)
delete_node(node) ==
  LET parts == Parts(node)
      sum[i \in 0..Len(parts)] == IF i = 0 THEN 0 ELSE sum[i - 1] + delete_node(parts[i])
  IN  1 + sum[Len(parts)]

\* print_node: the tree as the tokens of its text, names as they are.
RECURSIVE print_node(_)
print_node(node) ==
  LET parts == Parts(node)
      all[i \in 0..Len(parts)] == IF i = 0 THEN <<>> ELSE all[i - 1] \o print_node(parts[i])
  IN  CASE node.kind = "WORKFLOW" -> <<"WORKFLOW">> \o all[2]
        [] node.kind = "NAME" -> <<node.str>>
        [] node.kind = "STMT_LIST" -> <<"{">> \o all[Len(parts)] \o <<"}">>
        [] node.kind = "IF_STMT" ->
             <<"IF">> \o all[2] \o (IF node.else_block.kind = "EMPTY_STMT" THEN <<>>
                                   ELSE <<"ELSE">> \o print_node(node.else_block))
        [] node.kind = "WHILE_STMT" -> <<"WHILE">> \o all[2]
        [] node.kind = "DOWHILE_STMT" -> <<"DO">> \o all[1] \o <<"WHILE">> \o print_node(node.condition)
        [] node.kind = "RETURN_STMT" -> <<"RETURN">>
        [] node.kind = "UNOP_EXP" -> <<"!">> \o all[1]
        [] OTHER -> <<>>
=============================================================================
