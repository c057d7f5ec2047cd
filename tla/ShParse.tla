------------------------------ MODULE ShParse ------------------------------
(***************************************************************************)
(* The shell's parser (sh.c): recursive descent over the characters of a   *)
(* line, and beside it what the grammar says of the line as a whole.  A    *)
(* command is a record; words are pairs of positions until nulterminate()  *)
(* has cut the line.  panic() in the parser is the result Bad.             *)
(***************************************************************************)
EXTENDS Integers, Sequences, SequencesExt, FiniteSetsExt

CONSTANT MAXARGS

symbols == {"<", "|", ">", "&", ";", "(", ")"}
whitespace == {" "}
Alphabet == symbols \cup whitespace \cup {"a"}

EXEC(argv) == [type |-> "EXEC", argv |-> argv]
REDIR(cmd, file, tok) ==
  [type |-> "REDIR", cmd |-> cmd, file |-> file, tok |-> tok, fd |-> IF tok = "<" THEN 0 ELSE 1]
PIPE(left, right) == [type |-> "PIPE", left |-> left, right |-> right]
LIST(left, right) == [type |-> "LIST", left |-> left, right |-> right]
BACK(cmd) == [type |-> "BACK", cmd |-> cmd]
Error == [type |-> "panic"]

\* parseredirs() wraps each redirection around those before it.
Redirected(cmd, redirs) == FoldLeft(LAMBDA c, r : REDIR(c, r.file, r.tok), cmd, redirs)

-----------------------------------------------------------------------------
Skip(s, i) == Min({j \in i .. Len(s) + 1 : j > Len(s) \/ s[j] \notin whitespace})
WordEnd(s, i) == Min({j \in i .. Len(s) + 1 : j > Len(s) \/ s[j] \in symbols \cup whitespace})

\* The token at j: tok is "0" at the end, "a" for a word, "+" for >>; word is its
\* first position and the one after it (q and eq).
Doubled(s, j) == j < Len(s) /\ s[j] = ">" /\ s[j + 1] = ">"
Kind(s, j) ==
  CASE j > Len(s) -> "0"
    [] j <= Len(s) /\ Doubled(s, j) -> "+"
    [] j <= Len(s) /\ s[j] \in symbols /\ ~Doubled(s, j) -> s[j]
    [] OTHER -> "a"
Token(s, j, kind) ==
  LET end == CASE kind = "0" -> j
               [] kind = "+" -> j + 2
               [] kind \in symbols -> j + 1
               [] OTHER -> WordEnd(s, j) IN
  [tok |-> kind, word |-> <<j, end>>, i |-> Skip(s, end)]
TokenAt(s, j) == Token(s, j, Kind(s, j))

gettoken(s, i) == TokenAt(s, Skip(s, i))

peek(s, i, toks) == LET j == Skip(s, i) IN j <= Len(s) /\ s[j] \in toks

-----------------------------------------------------------------------------
\* A result is the command and where the rest of the line begins.
Result(cmd, i) == [ok |-> TRUE, cmd |-> cmd, i |-> i]
Bad == [ok |-> FALSE, cmd |-> Error, i |-> 0]

RECURSIVE parseline(_, _), parsepipe(_, _), parseredirs(_, _, _), Args(_, _, _, _)

\* The redirections from i on are added to redirs.
RedirTo(s, tok, f, redirs) ==
  IF f.tok # "a" THEN [ok |-> FALSE, redirs |-> redirs, i |-> f.i]
  ELSE parseredirs(s, f.i, Append(redirs, [tok |-> tok, file |-> f.word]))
Redir(s, op, redirs) == RedirTo(s, op.tok, gettoken(s, op.i), redirs)
parseredirs(s, i, redirs) ==
  IF peek(s, i, {"<", ">"}) THEN Redir(s, gettoken(s, i), redirs)
  ELSE [ok |-> TRUE, redirs |-> redirs, i |-> i]

\* A block, its closing parenthesis and the redirections after it
Block(cmd, r) == IF r.ok THEN Result(Redirected(cmd, r.redirs), r.i) ELSE Bad
BlockEnd(s, line) ==
  IF line.ok /\ peek(s, line.i, {")"})
  THEN Block(line.cmd, parseredirs(s, gettoken(s, line.i).i, <<>>))
  ELSE Bad
parseblock(s, i) == BlockEnd(s, parseline(s, gettoken(s, i).i))

\* Slip: one argument too many is taken.
TooMany_by_one(argv) == Len(argv) > MAXARGS
TooMany(argv) == Len(argv) >= MAXARGS

\* The loop of parseexec(): an argument t, and the redirections r after it
ArgsAfter(s, argv, r) == IF r.ok THEN Args(s, r.i, argv, r.redirs) ELSE Bad
Arg(s, t, argv, redirs) ==
  IF t.tok # "a" \/ TooMany(Append(argv, t.word)) THEN Bad
  ELSE ArgsAfter(s, Append(argv, t.word), parseredirs(s, t.i, redirs))
Args(s, i, argv, redirs) ==
  IF peek(s, i, {"|", ")", "&", ";"}) \/ gettoken(s, i).tok = "0"
  THEN Result(Redirected(EXEC(argv), redirs), i)
  ELSE Arg(s, gettoken(s, i), argv, redirs)

parseexec(s, i) ==
  IF peek(s, i, {"("}) THEN parseblock(s, i)
  ELSE ArgsAfter(s, <<>>, parseredirs(s, i, <<>>))

\* left, and what follows the operator after it
Joined(Op(_, _), left, right) ==
  IF right.ok THEN Result(Op(left.cmd, right.cmd), right.i) ELSE Bad

PipeEnds(s, left) ==
  IF left.ok /\ peek(s, left.i, {"|"})
  THEN Joined(PIPE, left, parsepipe(s, gettoken(s, left.i).i))
  ELSE left
parsepipe(s, i) == PipeEnds(s, parseexec(s, i))

\* The while loop of parseline()
RECURSIVE Backs(_, _)
Backs(s, r) ==
  IF r.ok /\ peek(s, r.i, {"&"}) THEN Backs(s, Result(BACK(r.cmd), gettoken(s, r.i).i)) ELSE r

ListEnds(s, left) ==
  IF left.ok /\ peek(s, left.i, {";"})
  THEN Joined(LIST, left, parseline(s, gettoken(s, left.i).i))
  ELSE left
parseline(s, i) == ListEnds(s, Backs(s, parsepipe(s, i)))

\* nulterminate(): the positions that become NUL ...
RECURSIVE nulterminate(_)
nulterminate(cmd) ==
  CASE cmd.type = "EXEC" -> {cmd.argv[k][2] : k \in DOMAIN cmd.argv}
    [] cmd.type = "REDIR" -> nulterminate(cmd.cmd) \cup {cmd.file[2]}
    [] cmd.type \in {"PIPE", "LIST"} -> nulterminate(cmd.left) \cup nulterminate(cmd.right)
    [] cmd.type = "BACK" -> nulterminate(cmd.cmd)

\* ... and the string that begins at a word then.
CString(s, nuls, w) == SubSeq(s, w[1], Min({k \in nuls : k >= w[1]}) - 1)

RECURSIVE Strings(_, _, _)
Strings(cmd, s, nuls) ==
  CASE cmd.type = "EXEC" -> EXEC([k \in DOMAIN cmd.argv |-> CString(s, nuls, cmd.argv[k])])
    [] cmd.type = "REDIR" -> REDIR(Strings(cmd.cmd, s, nuls), CString(s, nuls, cmd.file), cmd.tok)
    [] cmd.type = "PIPE" -> PIPE(Strings(cmd.left, s, nuls), Strings(cmd.right, s, nuls))
    [] cmd.type = "LIST" -> LIST(Strings(cmd.left, s, nuls), Strings(cmd.right, s, nuls))
    [] cmd.type = "BACK" -> BACK(Strings(cmd.cmd, s, nuls))

\* parsecmd(): what is left over is an error.
parsecmd(s) ==
  LET r == parseline(s, 1) IN
  IF r.ok /\ Skip(s, r.i) = Len(s) + 1 THEN Strings(r.cmd, s, nulterminate(r.cmd)) ELSE Error

-----------------------------------------------------------------------------
(***************************************************************************)
(* The reference: the line is cut into tokens, and a sequence of tokens is *)
(* split at its operators outside parentheses: first ;, then a & at the    *)
(* end, then |.                                                            *)
(***************************************************************************)
\* In a run of > every second one belongs to the one before.
Begins(s) ==
  {j \in DOMAIN s :
     /\ s[j] # " "
     /\ s[j] \in symbols \/ j = 1 \/ s[j - 1] \in symbols \cup whitespace
     /\ LET run == {k \in 1 .. j : \A m \in k .. j : s[m] = ">"} IN Cardinality(run) % 2 = 1 \/ run = {}}

Tokens(s) ==
  LET at == SetToSortSeq(Begins(s), <) IN
  [k \in DOMAIN at |->
     IF s[at[k]] \in symbols
     THEN [t |-> IF s[at[k]] = ">" /\ at[k] < Len(s) /\ s[at[k] + 1] = ">" THEN "+" ELSE s[at[k]],
           text |-> <<>>]
     ELSE [t |-> "a", text |-> SubSeq(s, at[k], WordEnd(s, at[k]) - 1)]]

Depth(ts, k) == Cardinality({m \in 1 .. k : ts[m].t = "("}) - Cardinality({m \in 1 .. k : ts[m].t = ")"})
Top(ts, op) == {k \in DOMAIN ts : ts[k].t = op /\ Depth(ts, k) = 0}
Before(ts, k) == SubSeq(ts, 1, k - 1)
After(ts, k) == SubSeq(ts, k + 1, Len(ts))

\* Words and redirections in any order; a redirection is followed by its file.
Redirs(ts) == {k \in DOMAIN ts : ts[k].t \in {"<", ">", "+"}}
Words(ts) == {k \in DOMAIN ts : ts[k].t = "a" /\ k - 1 \notin Redirs(ts)}
Simple(ts) ==
  /\ \A k \in DOMAIN ts : ts[k].t \in {"a", "<", ">", "+"}
  /\ \A k \in Redirs(ts) : k < Len(ts) /\ ts[k + 1].t = "a"
  /\ Cardinality(Words(ts)) < MAXARGS
RedirSeq(ts) ==
  LET at == SetToSortSeq(Redirs(ts), <) IN
  [k \in DOMAIN at |-> [tok |-> ts[at[k]].t, file |-> ts[at[k] + 1].text]]
WordSeq(ts) == LET at == SetToSortSeq(Words(ts), <) IN [k \in DOMAIN at |-> ts[at[k]].text]

Both(Op(_, _), l, r) == IF Error \in {l, r} THEN Error ELSE Op(l, r)

RECURSIVE RefLine(_), RefBack(_), RefPipe(_)

RefItem(ts) ==
  LET ends == {k \in DOMAIN ts : Depth(ts, k) = 0}
      end == Min(ends)
      rest == After(ts, end)
      inner == RefLine(SubSeq(ts, 2, end - 1)) IN
  IF ts = <<>> \/ ts[1].t # "("
  THEN IF Simple(ts) THEN Redirected(EXEC(WordSeq(ts)), RedirSeq(ts)) ELSE Error
  ELSE IF ends = {} THEN Error
  ELSE IF ~Simple(rest) \/ Words(rest) # {} \/ inner = Error THEN Error
  ELSE Redirected(inner, RedirSeq(rest))

RefPipe(ts) ==
  IF Top(ts, "|") = {} THEN RefItem(ts)
  ELSE LET k == Min(Top(ts, "|")) IN Both(PIPE, RefItem(Before(ts, k)), RefPipe(After(ts, k)))

RefBack(ts) ==
  IF Len(ts) \in Top(ts, "&")
  THEN LET c == RefBack(Before(ts, Len(ts))) IN IF c = Error THEN Error ELSE BACK(c)
  ELSE RefPipe(ts)

RefLine(ts) ==
  IF Top(ts, ";") = {} THEN RefBack(ts)
  ELSE LET k == Min(Top(ts, ";")) IN Both(LIST, RefBack(Before(ts, k)), RefLine(After(ts, k)))
=============================================================================
