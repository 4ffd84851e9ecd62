---------------------------- MODULE WorkflowLexer ----------------------------
(***************************************************************************)
(* orc/workflow/parser/lexer.c, the scanner flex generated from workflow.l:*)
(* the table driven automaton, and the input buffer that is refilled while *)
(* a token may lie across its end.  Characters are their codes.            *)
(*                                                                         *)
(* Positions in the buffer count from 0 as in the code.  Behind the last   *)
(* character there are always two end-of-buffer characters, which Char     *)
(* supplies.  The NUL that YY_DO_BEFORE_ACTION puts behind the token, and  *)
(* takes back before anybody reads it, is left out, and so is yylineno,    *)
(* which nobody reads.  How many characters a read returns is up to the    *)
(* system: fread may be interrupted.                                       *)
(***************************************************************************)
EXTENDS Integers, Sequences

CONSTANTS
  Files,             \* the files there are to read
  YY_BUF_SIZE,       \* 16384 in the code
  YY_READ_BUF_SIZE,  \* 8192 in the code
  MaxRestarts        \* bound on the calls of yyrestart by workflow_compile

VARIABLES
  yyin,       \* [file, text, restarts]: the file and what has been read of it
  yybuffer,   \* yy_buffer_state: [ch, size, status]; yy_n_chars is Len(ch)
  yyscan,     \* yylex: [pc, text, cp, state, last]
  lexed       \* the tokens of the current file so far: [token, text]

lexVars == <<yyin, yybuffer, yyscan, lexed>>

YY_END_OF_BUFFER == 11
YY_NULL == 0
Jam == 36
Signed(c) == IF c < 128 THEN c ELSE c - 256

-----------------------------------------------------------------------------
\* The tables, entry 0 first.
yy_accept == <<0,
   0, 0, 11, 9, 8, 8, 7, 7, 7, 7, 7, 7, 8, 7, 3, 7, 1, 7, 7, 7,
   7, 7, 7, 7, 2, 7, 7, 7, 7, 4, 7, 6, 7, 7, 5, 0>>

\* Character classes: the letters of the keywords have one each.
yy_ec(c) ==
  CASE c = 0 -> 0
    [] c \in {9, 32} -> 2
    [] c = 10 -> 3
    [] c \in 48..57 \cup {95} -> 4
    [] c \in {100, 101, 102} -> c - 94
    [] c = 104 -> 9
    [] c = 105 -> 10
    [] c \in {107, 108} -> c - 96
    [] c \in {110, 111} -> c - 97
    [] c \in 114..117 -> c - 99
    [] c = 119 -> 19
    [] c \in (65..90) \cup ((97..122) \ ({100, 101, 102, 104, 105, 107, 108, 110, 111, 119} \cup (114..117))) -> 5
    [] OTHER -> 1

yy_meta(c) == CASE c = 0 -> 0 [] c \in 1..3 -> 1 [] OTHER -> 2

yy_base == <<0,
   0, 0, 48, 49, 18, 20, 0, 33, 34, 37, 37, 15, 23, 0, 0, 27, 0, 25, 31, 25,
   32, 20, 25, 25, 0, 20, 27, 25, 19, 0, 19, 0, 16, 9, 0, 49, 25>>

\* State 2 falls back on 1, the states of words on 37, the rest on 36.
yy_def(s) == IF s = 2 THEN 1
             ELSE IF s \in {1, 3, 4, 5, 6, 13, 37} THEN 36
             ELSE IF s = 36 THEN 0 ELSE 37

yy_nxt == <<0,
   4, 5, 6, 4, 7, 8, 9, 7, 7, 10, 7, 7, 7, 7, 11, 7, 7, 7, 12, 13,
   13, 13, 13, 19, 13, 13, 14, 35, 20, 34, 33, 32, 31, 30, 29, 28, 27, 26, 25, 24,
   23, 22, 21, 18, 17, 16, 15, 36, 3, 36, 36, 36, 36, 36, 36, 36, 36, 36, 36, 36,
   36, 36, 36, 36, 36, 36, 36, 36>>

yy_chk == <<0,
   1, 1, 1, 1, 1, 1, 1, 1, 1, 1, 1, 1, 1, 1, 1, 1, 1, 1, 1, 5,
   5, 6, 6, 12, 13, 13, 37, 34, 12, 33, 31, 29, 28, 27, 26, 24, 23, 22, 21, 20,
   19, 18, 16, 11, 10, 9, 8, 3, 36, 36, 36, 36, 36, 36, 36, 36, 36, 36, 36, 36,
   36, 36, 36, 36, 36, 36, 36, 36>>

-----------------------------------------------------------------------------
\* The move of state s on class c: the entry of s, or of what it falls back on.
RECURSIVE Transition(_, _)
Transition(s, c) ==
  LET at == yy_base[s + 1] + c + 1
  IN  IF yy_chk[at] = s THEN yy_nxt[at]
      ELSE LET d == yy_def(s) IN Transition(d, IF d >= 37 THEN yy_meta(c) ELSE c)

Char(p) == IF p < Len(yybuffer.ch) THEN yybuffer.ch[p + 1] ELSE 0

\* The last accepting state met, with the position behind its text.
Accepting(s, cp, last) == IF yy_accept[s + 1] # 0 THEN [state |-> s, cp |-> cp] ELSE last

\* yy_match: run the automaton until it jams.
RECURSIVE Match(_, _, _)
Match(s, cp, last) ==
  LET next == Transition(s, yy_ec(Char(cp)))
      seen == Accepting(s, cp, last)
  IN  IF yy_base[next + 1] = 49
      THEN [state |-> next, cp |-> cp + 1, last |-> seen]
      ELSE Match(next, cp + 1, seen)

\* Slip: the characters before the end of the buffer are forgotten.
PreviousStateStart(from, to, s, last) == [state |-> 1, last |-> last]

\* yy_get_previous_state: the state after the characters of the token that
\* lie before the end of the buffer; a NUL among them is a character.
RECURSIVE PreviousState(_, _, _, _)
PreviousState(from, to, s, last) ==
  IF from >= to THEN [state |-> s, last |-> last]
  ELSE PreviousState(from + 1, to,
                     Transition(s, IF Char(from) = 0 THEN 1 ELSE yy_ec(Char(from))),
                     Accepting(s, from, last))

\* yy_try_NUL_trans: 0 when the automaton jams.
TryNul(s) == LET next == Transition(s, 1) IN IF next = Jam THEN 0 ELSE next

\* yy_find_action, with the way back to the last accepting state.
FindAction(scan) ==
  IF yy_accept[scan.state + 1] = 0
  THEN [act |-> yy_accept[scan.last.state + 1], cp |-> scan.last.cp]
  ELSE [act |-> yy_accept[scan.state + 1], cp |-> scan.cp]

-----------------------------------------------------------------------------
\* The parser calls yylex.
yylex ==
  /\ yyscan.pc = "between"
  /\ yyscan' = [yyscan EXCEPT !.pc = "match", !.text = yyscan.cp, !.state = 1]
  /\ UNCHANGED <<yyin, yybuffer, lexed>>

yy_match ==
  /\ yyscan.pc = "match"
  /\ LET m == Match(yyscan.state, yyscan.cp, yyscan.last)
     IN  yyscan' = [yyscan EXCEPT !.pc = "action", !.state = m.state, !.cp = m.cp, !.last = m.last]
  /\ UNCHANGED <<yyin, yybuffer, lexed>>

\* Rules 1 to 7 and 9 return a token.  Rule 9 returns the character itself,
\* as a signed char.
Token(act, text) == IF act = 9 THEN Signed(text[1]) ELSE IF act = 7 THEN 258 ELSE 258 + act

\* The switch on yy_act for a rule of workflow.l; rule 8 skips white space.
DoAction ==
  LET f == FindAction(yyscan)
      text == SubSeq(yybuffer.ch, yyscan.text + 1, f.cp)
  IN  /\ yyscan.pc = "action" /\ f.act # YY_END_OF_BUFFER
      /\ lexed' = IF f.act = 8 THEN lexed ELSE Append(lexed, [token |-> Token(f.act, text), text |-> text])
      /\ yyscan' = IF f.act = 8
                   THEN [yyscan EXCEPT !.pc = "match", !.text = f.cp, !.cp = f.cp, !.state = 1]
                   ELSE [yyscan EXCEPT !.pc = "between", !.cp = f.cp]
      /\ UNCHANGED <<yyin, yybuffer>>

\* YY_END_OF_BUFFER: a NUL of the file, or really the end of the buffer.
EndOfBuffer ==
  LET f == FindAction(yyscan)
      previous == PreviousState(yyscan.text, f.cp - 1, 1, yyscan.last)
      next == TryNul(previous.state)
      last == Accepting(previous.state, f.cp - 1, previous.last)
  IN  /\ yyscan.pc = "action" /\ f.act = YY_END_OF_BUFFER
      /\ yybuffer' = [yybuffer EXCEPT !.status = IF @ = "NEW" THEN "NORMAL" ELSE @]
      /\ yyscan' =
           IF f.cp > Len(yybuffer.ch) THEN [yyscan EXCEPT !.pc = "fill", !.cp = f.cp]
           ELSE IF next # 0
           THEN [yyscan EXCEPT !.pc = "match", !.cp = f.cp, !.state = next, !.last = last]
           ELSE [yyscan EXCEPT !.cp = f.cp - 1, !.state = previous.state, !.last = last]
      /\ UNCHANGED <<yyin, lexed>>

\* num_to_read, before it is cut to YY_READ_BUF_SIZE.
Room(size, moved) == size - moved - 1

\* The buffer is doubled until there is room.
RECURSIVE Grown(_, _)
Grown(size, moved) == IF Room(size, moved) > 0 THEN size ELSE Grown(2 * size, moved)

\* yy_init_buffer, yy_flush_buffer and yy_load_buffer_state.
Flushed(size) == [ch |-> <<>>, size |-> size, status |-> "NEW"]

\* yy_get_next_buffer: the text of the unfinished token moves to the front,
\* n characters are read behind it (none at the end of the file), and the scan
\* goes on, matches what there is, or returns YY_NULL.
yy_get_next_buffer(n) ==
  LET moved == SubSeq(yybuffer.ch, yyscan.text + 1, yyscan.cp - 1)
      pending == yybuffer.status = "EOF_PENDING"
      size == IF pending THEN yybuffer.size ELSE Grown(yybuffer.size, Len(moved))
      chunk == SubSeq(yyin.file, Len(yyin.text) + 1, Len(yyin.text) + n)
  IN  /\ yyscan.pc = "fill"
      /\ n <= Room(size, Len(moved)) /\ n <= YY_READ_BUF_SIZE
      /\ Len(yyin.text) + n <= Len(yyin.file)
      /\ n = 0 <=> pending \/ yyin.text = yyin.file
      /\ yyin' = [yyin EXCEPT !.text = @ \o chunk]
      /\ yybuffer' = IF chunk = <<>> /\ moved = <<>> THEN Flushed(size)
                     ELSE [ch |-> moved \o chunk, size |-> size,
                           status |-> IF chunk = <<>> THEN "EOF_PENDING" ELSE yybuffer.status]
      /\ IF chunk = <<>> /\ moved = <<>>
         THEN /\ yyscan' = [yyscan EXCEPT !.pc = "eof", !.text = 0, !.cp = 0]
              /\ lexed' = Append(lexed, [token |-> YY_NULL, text |-> <<>>])
         ELSE /\ yyscan' = [yyscan EXCEPT !.pc = IF chunk = <<>> THEN "last" ELSE "continue",
                                          !.text = 0, !.cp = Len(moved)]
              /\ UNCHANGED lexed

\* EOB_ACT_CONTINUE_SCAN and EOB_ACT_LAST_MATCH: take the scan up again.
Resume ==
  LET previous == PreviousState(0, yyscan.cp, 1, yyscan.last)
  IN  /\ yyscan.pc \in {"continue", "last"}
      /\ yyscan' = [yyscan EXCEPT !.pc = IF @ = "continue" THEN "match" ELSE "action",
                                  !.state = previous.state, !.last = previous.last]
      /\ UNCHANGED <<yyin, yybuffer, lexed>>

\* workflow_compile: the next file, after the end or a syntax error of this one.
yyrestart ==
  /\ yyscan.pc \in {"between", "eof"} /\ yyin.restarts < MaxRestarts
  /\ \E file \in Files : yyin' = [file |-> file, text |-> <<>>, restarts |-> yyin.restarts + 1]
  /\ lexed' = <<>>
  /\ yybuffer' = Flushed(yybuffer.size)
  /\ yyscan' = [yyscan EXCEPT !.pc = "between", !.text = 0, !.cp = 0]

\* yy_create_buffer, at the first yyrestart.
LexInit ==
  /\ \E file \in Files : yyin = [file |-> file, text |-> <<>>, restarts |-> 0]
  /\ yybuffer = Flushed(YY_BUF_SIZE)
  /\ yyscan = [pc |-> "between", text |-> 0, cp |-> 0, state |-> 1, last |-> [state |-> 0, cp |-> 0]]
  /\ lexed = <<>>

LexNext ==
  \/ yylex \/ yy_match \/ DoAction \/ EndOfBuffer \/ Resume \/ yyrestart
  \/ \E n \in 0..YY_READ_BUF_SIZE : yy_get_next_buffer(n)

-----------------------------------------------------------------------------
\* The reference: workflow.l read as longest match, first rule.
Letters == (65..90) \cup (97..122)
Alnum == Letters \cup (48..57) \cup {95}
Space == {9, 10, 32}

Keyword == [w \in {<<105, 102>>, <<101, 108, 115, 101>>, <<100, 111>>,
                   <<119, 104, 105, 108, 101>>, <<119, 111, 114, 107, 102, 108, 111, 119>>,
                   <<114, 101, 116, 117, 114, 110>>} |->
              CASE w[1] = 105 -> 259 [] w[1] = 101 -> 260 [] w[1] = 100 -> 261
                [] w[2] = 104 -> 262 [] w[2] = 111 -> 263 [] OTHER -> 264]

RECURSIVE SpanLen(_, _)
SpanLen(s, class) ==
  IF s = <<>> \/ s[1] \notin class THEN 0 ELSE 1 + SpanLen(Tail(s), class)

RECURSIVE RefTokens(_)
RefTokens(s) ==
  IF s = <<>> THEN <<>>
  ELSE LET n == IF s[1] \in Letters THEN SpanLen(s, Alnum)
                ELSE IF s[1] \in Space THEN SpanLen(s, Space) ELSE 1
           word == SubSeq(s, 1, n)
           rest == RefTokens(SubSeq(s, n + 1, Len(s)))
       IN  IF s[1] \in Space THEN rest
           ELSE <<[token |-> IF s[1] \notin Letters THEN Signed(s[1])
                             ELSE IF word \in DOMAIN Keyword THEN Keyword[word] ELSE 258,
                   text |-> word]>> \o rest

IsPrefixOf(s, t) == Len(s) <= Len(t) /\ SubSeq(t, 1, Len(s)) = s

\* Wherever the reads cut the file, and whatever an earlier file left in the
\* buffer, the tokens are those of workflow.l for the text of this file; at
\* YY_NULL they are all of them.
LexedRight ==
  IF yyscan.pc = "eof"
  THEN lexed = Append(RefTokens(yyin.text), [token |-> YY_NULL, text |-> <<>>])
  ELSE IsPrefixOf(lexed, RefTokens(yyin.text))

\* A read never goes beyond the buffer: there is room for the characters and
\* the subtraction for num_to_read does not run below zero; and the automaton
\* stops at the second end-of-buffer character.
BufferBounds == Len(yybuffer.ch) < yybuffer.size /\ yyscan.cp <= Len(yybuffer.ch) + 2

\* yylex: the tokens are right, and the buffer holds what is read into it.
ScannerOK == LexedRight /\ BufferBounds
=============================================================================
