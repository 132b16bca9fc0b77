----------------------------- MODULE QueryLang ------------------------------
(* The conditions of sorb query and of the page's filter: the recursive descent
   of query/parser.py and the SQL that query/engine.py makes of it.  A
   comparison is one token: the value it has for the component at hand, which
   is Null where the component lacks the field. *)
EXTENDS Integers, Sequences, FiniteSets

CONSTANT MaxTokens

VARIABLE text       \* the condition, token by token
queryVars == <<text>>

Truths == {"true", "false", "null"}
Tokens == Truths \cup {"and", "or", "(", ")"}
Rejected == "error"
----------------------------------------------------------------------------
(* What SQL makes of AND and OR *)

SqlAnd(v, w) ==
    IF "false" \in {v, w} THEN "false" ELSE IF "null" \in {v, w} THEN "null" ELSE "true"
SqlOr(v, w) ==
    IF "true" \in {v, w} THEN "true" ELSE IF "null" \in {v, w} THEN "null" ELSE "false"

----------------------------------------------------------------------------
(* _Parser: what was read up to `next`, or nothing yet *)

Unread == "unread"
Parsed(value, next) == [value |-> value, next |-> next]
Peek(i) == IF i <= Len(text) THEN text[i] ELSE "end"

Call(rule, left) == [rule |-> rule, left |-> left]
At(rule, i) == Call(rule, Parsed(Unread, i))
Readings == [value : Truths \cup {Rejected, Unread}, next : 1 .. Len(text) + 1]
Calls == [rule : {"OrExpr", "OrRest", "AndExpr", "AndRest", "Term"}, left : Readings]

\* Each rule of the grammar, by what `parse` makes of the calls it makes.
OrExpr(parse, i) == parse[Call("OrRest", parse[At("AndExpr", i)])]
OrRest(parse, left) ==
    IF left.value = Rejected \/ Peek(left.next) # "or" THEN left
    ELSE LET right == parse[At("AndExpr", left.next + 1)]
         IN  IF right.value = Rejected THEN right
             ELSE parse[Call("OrRest", Parsed(SqlOr(left.value, right.value), right.next))]

\* Mutant: both operators bind alike.
AndRestOfBoth(parse, left) ==
    IF left.value = Rejected \/ Peek(left.next) \notin {"and", "or"} THEN left
    ELSE LET right == parse[At("Term", left.next + 1)]
         IN  IF right.value = Rejected THEN right
             ELSE parse[Call("AndRest",
                    Parsed(IF Peek(left.next) = "and" THEN SqlAnd(left.value, right.value)
                           ELSE SqlOr(left.value, right.value), right.next))]

AndExpr(parse, i) == parse[Call("AndRest", parse[At("Term", i)])]
AndRest(parse, left) ==
    IF left.value = Rejected \/ Peek(left.next) # "and" THEN left
    ELSE LET right == parse[At("Term", left.next + 1)]
         IN  IF right.value = Rejected THEN right
             ELSE parse[Call("AndRest", Parsed(SqlAnd(left.value, right.value), right.next))]

Term(parse, i) ==
    IF Peek(i) = "(" THEN
        LET inner == parse[At("OrExpr", i + 1)]
        IN  IF inner.value # Rejected /\ Peek(inner.next) = ")" THEN Parsed(inner.value, inner.next + 1)
            ELSE Parsed(Rejected, i)
    ELSE IF Peek(i) \in Truths THEN Parsed(Peek(i), i + 1) ELSE Parsed(Rejected, i)

Rule(parse, call) ==
    CASE call.rule = "OrExpr" -> OrExpr(parse, call.left.next)
      [] call.rule = "OrRest" -> OrRest(parse, call.left)
      [] call.rule = "AndExpr" -> AndExpr(parse, call.left.next)
      [] call.rule = "AndRest" -> AndRest(parse, call.left)
      [] call.rule = "Term" -> Term(parse, call.left.next)
Parse[call \in Calls] == Rule(Parse, call)

\* Trailing input is an error.
ParseQuery ==
    LET all == Parse[At("OrExpr", 1)] IN IF all.next = Len(text) + 1 THEN all.value ELSE Rejected
----------------------------------------------------------------------------

QueryInit == text = <<>>

\* A query is typed up to its first mistake.
Depth(i) == Cardinality({k \in 1 .. i : text[k] = "("}) - Cardinality({k \in 1 .. i : text[k] = ")"})
Sound == \A i \in DOMAIN text :
            LET operand == i = 1 \/ text[i - 1] \in {"and", "or", "("}
            IN  IF operand THEN text[i] \in Truths \cup {"("}
                ELSE text[i] \in {"and", "or"} \/ (text[i] = ")" /\ Depth(i - 1) > 0)
Type(token) == Len(text) < MaxTokens /\ Sound /\ text' = Append(text, token)

QueryNext == \E token \in Tokens : Type(token)
QuerySpec == QueryInit /\ [][QueryNext]_queryVars
----------------------------------------------------------------------------
(* Property *)

\* The meaning of the tokens from i to j, from the outside in: the last `or`
\* outside of parentheses splits them, else the last `and`.
Outermost(op, i, j) ==
    {k \in i .. j : text[k] = op /\ Depth(k) = Depth(i - 1) /\ \A l \in i .. k : Depth(l) >= Depth(i - 1)}
LastOne(S) == CHOOSE k \in S : \A l \in S : l <= k
Segments == (1 .. Len(text) + 1) \X (0 .. Len(text))
Split(meaning, op, i, j) ==
    LET k == LastOne(Outermost(op, i, j))
        l == meaning[<<i, k - 1>>]
        r == meaning[<<k + 1, j>>]
    IN  IF Rejected \in {l, r} THEN Rejected ELSE IF op = "or" THEN SqlOr(l, r) ELSE SqlAnd(l, r)
Read(meaning, i, j) ==
    IF i > j THEN Rejected
    ELSE IF Outermost("or", i, j) # {} THEN Split(meaning, "or", i, j)
    ELSE IF Outermost("and", i, j) # {} THEN Split(meaning, "and", i, j)
    ELSE IF i < j /\ text[i] = "(" /\ text[j] = ")" THEN meaning[<<i + 1, j - 1>>]
    ELSE IF i = j /\ text[i] \in Truths THEN text[i] ELSE Rejected
Meaning[s \in Segments] == Read(Meaning, s[1], s[2])

\* A query selects what its text means: `and` before `or`, parentheses first,
\* and what is no condition is refused as a whole.
QueryMeansItsText == ParseQuery = Meaning[<<1, Len(text)>>]
=============================================================================
