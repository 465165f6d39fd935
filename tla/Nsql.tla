-------------------------------- MODULE Nsql --------------------------------
(***************************************************************************)
(* The filter language: the text of a rule, its parser, the generator that *)
(* writes a rule as text again, the validator, and the evaluation of       *)
(* compiled rules.                                                         *)
(*                                                                         *)
(* Source: crates/nuncio-filter/src (ast.rs, parser.rs, codegen.rs,        *)
(* validator.rs, engine.rs, webhook.rs) and the ExportRules, ImportRules   *)
(* and ValidateRule RPCs of crates/nunciod/src/grpc.rs.  sqlparser and     *)
(* regex are external.                                                     *)
(*                                                                         *)
(* A text is a sequence of atoms: words, brackets, commas and quotes.      *)
(* Atoms are separated by blanks wherever the code asks for one, a         *)
(* two-word keyword (ON ACCOUNT, MOVE TO) is one atom, and case is folded. *)
(***************************************************************************)
EXTENDS Integers, Sequences, FiniteSets, TLC
LOCAL INSTANCE SequencesExt

CONSTANTS
    MAX_AST_DEPTH,   \* 10 in the code; less here, so that it is reached
    Nesting          \* bound: levels of the conditions clients write

ASSUME NsqlAssumption == MAX_AST_DEPTH \in Nat \ {0} /\ Nesting \in Nat \ {0}

Quotes == {"'", "\""}

-----------------------------------------------------------------------------
(* ast.rs                                                                  *)

HeaderField == {"header['x-spam']"}
StringField == {"subject", "from", "to", "body", "folder", "account"}
NumberField == {"size", "date"}
FilterField == StringField \union NumberField \union HeaderField \union {"has_attachment"}

\* FilterField::parse_str, with the headers preprocess_nsql_where has renamed.
parse_str ==
    [w \in FilterField \ HeaderField |-> w]
    @@ ("sender" :> "from") @@ ("recipient" :> "to") @@ ("attachment" :> "has_attachment")
    @@ ("received_at" :> "date") @@ ("account_id" :> "account")
    @@ ("header__x_spam" :> "header['x-spam']")

\* FilterOperator::to_nsql.
OperatorText ==
    [Equals |-> <<"=">>, NotEquals |-> <<"!=">>, Contains |-> <<"CONTAINS">>,
     NotContains |-> <<"NOT", "CONTAINS">>, Matches |-> <<"MATCHES">>,
     GreaterThan |-> <<">">>, LessThan |-> <<"<">>, GreaterThanOrEqual |-> <<">=">>,
     LessThanOrEqual |-> <<"<=">>, In |-> <<"IN">>, NotIn |-> <<"NOT", "IN">>]

\* FilterValue: strings are sequences of atoms, a list has several.
String(s)  == [type |-> "String", strs |-> <<s>>, num |-> 0]
Number(n)  == [type |-> "Number", strs |-> << >>, num |-> n]
Boolean(b) == [type |-> "Boolean", strs |-> << >>, num |-> IF b THEN 1 ELSE 0]
List(ss)   == [type |-> "List", strs |-> ss, num |-> 0]

Leaf(f, o, v) == [kind |-> "Leaf", field |-> f, op |-> o, value |-> v, kids |-> << >>]
Node(k, ns)   == [kind |-> k, field |-> "", op |-> "", value |-> Boolean(FALSE), kids |-> ns]

\* ConditionNode::depth.
RECURSIVE depth(_)
depth(node) ==
    IF node.kind = "Leaf" THEN 1
    ELSE 1 + (CHOOSE d \in {depth(n) : n \in ToSet(node.kids)} :
                  \A n \in ToSet(node.kids) : depth(n) <= d)

\* Every leaf of a condition.
RECURSIVE leaves(_)
leaves(node) ==
    IF node.kind = "Leaf" THEN {node} ELSE UNION {leaves(n) : n \in ToSet(node.kids)}

Quoted(s) == <<"'">> \o s \o <<"'">>

\* s.replace('\'', "\\'")
escaped(s) == FlattenSeq([i \in DOMAIN s |-> IF s[i] = "'" THEN <<"\\", "'">> ELSE <<s[i]>>])

\* Elements joined by a separator.
join(parts, sep) ==
    FlattenSeq([i \in DOMAIN parts |-> IF i = 1 THEN parts[1] ELSE <<sep>> \o parts[i]])

\* FilterValue::to_nsql.
value_to_nsql(v) ==
    CASE v.type = "String"  -> Quoted(escaped(v.strs[1]))
      [] v.type = "Number"  -> <<ToString(v.num)>>
      [] v.type = "Boolean" -> <<IF v.num = 1 THEN "true" ELSE "false">>
      [] v.type = "List"    ->
            <<"(">> \o join([i \in DOMAIN v.strs |-> Quoted(escaped(v.strs[i]))], ",") \o <<")">>

\* Mutant: the operands of AND and OR are written without brackets.
RECURSIVE flat_to_nsql(_)
flat_to_nsql(node) ==
    CASE node.kind = "Leaf" ->
            <<node.field>> \o OperatorText[node.op] \o value_to_nsql(node.value)
      [] node.kind = "Not" -> <<"NOT", "(">> \o flat_to_nsql(node.kids[1]) \o <<")">>
      [] OTHER -> join([i \in DOMAIN node.kids |-> flat_to_nsql(node.kids[i])],
                       IF node.kind = "And" THEN "AND" ELSE "OR")

\* ConditionNode::to_nsql.
RECURSIVE condition_to_nsql(_)
condition_to_nsql(node) ==
    CASE node.kind = "Leaf" ->
            <<node.field>> \o OperatorText[node.op] \o value_to_nsql(node.value)
      [] node.kind = "Not" -> <<"NOT", "(">> \o condition_to_nsql(node.kids[1]) \o <<")">>
      [] OTHER -> join([i \in DOMAIN node.kids |->
                            <<"(">> \o condition_to_nsql(node.kids[i]) \o <<")">>],
                       IF node.kind = "And" THEN "AND" ELSE "OR")

\* RuleAction: the ones with a target, and their names in NSQL.
PlainAction  == {"MARK READ", "MARK UNREAD", "FLAG", "UNFLAG", "DELETE"}
TargetAction == {"MOVE TO", "COPY TO", "FORWARD TO", "CALL WEBHOOK"}
Action(a, t) == [act |-> a, target |-> t]

\* RuleAction::to_nsql: the target is quoted as it is.
action_to_nsql(a) == IF a.act \in PlainAction THEN <<a.act>> ELSE <<a.act>> \o Quoted(a.target)

\* FilterRule::to_nsql, codegen.rs.
to_nsql(rule) ==
    <<"SELECT", "WHERE">> \o condition_to_nsql(rule.conditions)
    \o (IF rule.actions = << >> THEN << >>
        ELSE <<"ACTION">> \o join([i \in DOMAIN rule.actions |-> action_to_nsql(rule.actions[i])], ","))

-----------------------------------------------------------------------------
(* parser.rs                                                               *)

Err(e) == [ok |-> FALSE, err |-> e]

\* The quote the scan is in after each atom, "" outside quotes.
quote_after(text) ==
    LET q[i \in 0 .. Len(text)] ==
          IF i = 0 THEN ""
          ELSE CASE q[i - 1] = "" /\ text[i] \in Quotes -> text[i]
                 [] q[i - 1] # "" /\ text[i] = q[i - 1] -> ""
                 [] OTHER -> q[i - 1]
    IN q

\* find_keyword_outside_quotes: the first place, 0 when there is none.
find_keyword_outside_quotes(text, keyword) ==
    LET q == quote_after(text)
        at == {i \in DOMAIN text : text[i] = keyword /\ q[i - 1] = ""}
    IN IF at = {} THEN 0 ELSE CHOOSE i \in at : \A j \in at : i <= j

\* split_comma_outside_quotes: an empty last chunk is dropped.
split_comma_outside_quotes(text) ==
    LET q == quote_after(text)
        chunks[i \in 0 .. Len(text)] ==
          IF i = 0 THEN << << >> >>
          ELSE IF text[i] = "," /\ q[i - 1] = "" THEN Append(chunks[i - 1], << >>)
          ELSE Append(Front(chunks[i - 1]), Append(Last(chunks[i - 1]), text[i]))
        all == chunks[Len(text)]
    IN IF Last(all) = << >> THEN Front(all) ELSE all

\* extract_on_account: what follows the clause's first closing quote goes on
\* with the statement.
extract_on_account(text) ==
    LET at == find_keyword_outside_quotes(text, "ON ACCOUNT")
        after == SubSeq(text, at + 1, Len(text))
        closing == {i \in 2 .. Len(after) : after[i] = after[1]}
        close == IF closing = {} THEN Len(after) + 1
                 ELSE CHOOSE i \in closing : \A j \in closing : i <= j
        target == IF after = << >> THEN <<"*">>
                  ELSE IF after[1] \in Quotes THEN SubSeq(after, 2, close - 1) ELSE <<after[1]>>
        rest == IF after = << >> THEN << >>
                ELSE SubSeq(after, (IF after[1] \in Quotes THEN close ELSE 1) + 1, Len(after))
    IN IF at = 0 THEN [target |-> <<"*">>, body |-> text]
       ELSE [target |-> IF target \in {<<"?">>, <<"*">>, <<"%">>} THEN <<"*">> ELSE target,
             body |-> SubSeq(text, 1, at - 1) \o rest]

\* trim_matches of a quote.
RECURSIVE trim_matches(_, _)
trim_matches(s, c) ==
    IF s # << >> /\ s[1] = c THEN trim_matches(Tail(s), c)
    ELSE IF s # << >> /\ Last(s) = c THEN trim_matches(Front(s), c) ELSE s

\* One clause of parse_actions.
parse_action(chunk) ==
    LET target == trim_matches(trim_matches(Tail(chunk), "'"), "\"")
    IN IF chunk[1] \in PlainAction /\ Len(chunk) = 1
       THEN [ok |-> TRUE, action |-> Action(chunk[1], << >>)]
       ELSE IF chunk[1] \in TargetAction /\ target # << >>
       THEN [ok |-> TRUE, action |-> Action(chunk[1], target)]
       ELSE Err("InvalidAction")

\* NsqlParser::parse_actions: empty clauses are skipped, the first bad one
\* fails the rule.
parse_actions(text) ==
    LET chunks == SelectSeq(split_comma_outside_quotes(text), LAMBDA c : c # << >>)
        parsed == [i \in DOMAIN chunks |-> parse_action(chunks[i])]
    IN IF \E i \in DOMAIN parsed : ~parsed[i].ok THEN Err("InvalidAction")
       ELSE [ok |-> TRUE, actions |-> [i \in DOMAIN parsed |-> parsed[i].action]]

\* split_where_and_actions.
split_where_and_actions(text) ==
    LET at == find_keyword_outside_quotes(text, "ACTION")
        actions == parse_actions(SubSeq(text, at + 1, Len(text)))
    IN IF at = 0 THEN [ok |-> TRUE, where |-> text, actions |-> << >>]
       ELSE IF ~actions.ok THEN actions
       ELSE [ok |-> TRUE, where |-> SubSeq(text, 1, at - 1), actions |-> actions.actions]

\* preprocess_nsql_where: the replacements look at every word, quoted or not.
preprocess_nsql_where(text) ==
    LET renamed == ("header['x-spam']" :> "header__x_spam") @@ ("header['x_spam']" :> "header__x_spam")
                   @@ ("CONTAINS" :> "LIKE") @@ ("MATCHES" :> "~")
    IN [i \in DOMAIN text |-> IF text[i] \in DOMAIN renamed THEN renamed[text[i]] ELSE text[i]]

-----------------------------------------------------------------------------
(* sqlparser: tokens and expressions.  External.                           *)

Word(a) == [tok |-> "word", s |-> <<a>>]
Bad == [tok |-> "bad", s |-> << >>]

\* Strings are closed by a quote that is not doubled; a backslash is a
\* character like any other.
Tokens(text) ==
    LET RECURSIVE Lex(_, _, _)
        Lex(i, open, acc) ==
            IF i > Len(text) THEN (IF open THEN Append(acc, Bad) ELSE acc)
            ELSE IF ~open
            THEN IF text[i] = "'" THEN Lex(i + 1, TRUE, Append(acc, [tok |-> "str", s |-> << >>]))
                 ELSE Lex(i + 1, FALSE, Append(acc, Word(text[i])))
            ELSE IF text[i] = "'" /\ i < Len(text) /\ text[i + 1] = "'"
            THEN Lex(i + 2, TRUE, [acc EXCEPT ![Len(acc)].s = Append(@, "'")])
            ELSE IF text[i] = "'" THEN Lex(i + 1, FALSE, acc)
            ELSE Lex(i + 1, TRUE, [acc EXCEPT ![Len(acc)].s = Append(@, text[i])])
    IN Lex(1, FALSE, << >>)

Symbols == {"(", ")", ",", "=", "!=", ">", "<", ">=", "<=", "~", "LIKE", "IN", "NOT", "AND", "OR",
            "\\", "SELECT", "WHERE", "ACTION"}
IsWord(ts, i, a) == i <= Len(ts) /\ ts[i] = Word(a)
IsName(ts, i) == i <= Len(ts) /\ ts[i].tok = "word" /\ ts[i].s[1] \notin Symbols
IsLiteral(ts, i) == i <= Len(ts) /\ (ts[i].tok = "str" \/ IsName(ts, i))

Comparisons == {"=", "!=", ">", "<", ">=", "<=", "~", "LIKE"}
NoExpr == [k |-> "none", op |-> "", neg |-> FALSE, a |-> << >>, b |-> << >>]
Expr(k, o, n, l, r) == [k |-> k, op |-> o, neg |-> n, a |-> l, b |-> r]

\* A parse that failed has at = 0.
Fails == [at |-> 0, e |-> NoExpr]

\* The place of the bracket that closes a list of literals opened at i.
ListEnd(ts, i) ==
    LET ends == {j \in i .. Len(ts) :
                    /\ IsWord(ts, j, ")")
                    /\ \A k \in i + 1 .. j - 1 :
                          IF (k - i) % 2 = 1 THEN IsLiteral(ts, k) ELSE IsWord(ts, k, ",")
                    /\ (j - i) % 2 = 0}
    IN IF ends = {} THEN 0 ELSE CHOOSE j \in ends : TRUE

ListOf(ts, i) ==
    [k \in 1 .. (ListEnd(ts, i) - i) \div 2 |-> ts[i + 2 * k - 1]]

\* OR binds less than AND, AND less than NOT, NOT less than a comparison.
RECURSIVE ParseExpr(_, _, _)
ParseExpr(ts, i, level) ==
    LET More(left, word) ==
            LET RECURSIVE Rest(_)
                Rest(p) ==
                    IF p.at # 0 /\ IsWord(ts, p.at, word)
                    THEN LET r == ParseExpr(ts, p.at + 1, level + 1)
                         IN IF r.at = 0 THEN Fails
                            ELSE Rest([at |-> r.at, e |-> Expr(word, "", FALSE, <<p.e>>, <<r.e>>)])
                    ELSE p
            IN Rest(left)
        neg == IF IsWord(ts, i + 1, "NOT") THEN 1 ELSE 0
        j == i + 1 + neg
    IN CASE level = 1 -> More(ParseExpr(ts, i, 2), "OR")
         [] level = 2 -> More(ParseExpr(ts, i, 3), "AND")
         [] level = 3 /\ IsWord(ts, i, "NOT") ->
               LET r == ParseExpr(ts, i + 1, 3)
               IN IF r.at = 0 THEN Fails
                  ELSE [at |-> r.at, e |-> Expr("NOT", "", FALSE, <<r.e>>, << >>)]
         [] level = 3 /\ IsWord(ts, i, "(") ->
               LET r == ParseExpr(ts, i + 1, 1)
               IN IF r.at = 0 \/ ~IsWord(ts, r.at, ")") THEN Fails
                  ELSE [at |-> r.at + 1, e |-> Expr("Nested", "", FALSE, <<r.e>>, << >>)]
         [] level = 3 /\ IsName(ts, i) /\ IsWord(ts, j, "IN") /\ IsWord(ts, j + 1, "(")
              /\ ListEnd(ts, j + 1) # 0 ->
               [at |-> ListEnd(ts, j + 1) + 1,
                e |-> Expr("InList", "IN", neg = 1, <<ts[i].s[1]>>, ListOf(ts, j + 1))]
         [] level = 3 /\ IsName(ts, i) /\ (\E c \in Comparisons : IsWord(ts, j, c))
              /\ (neg = 1 => IsWord(ts, j, "LIKE")) /\ IsLiteral(ts, j + 1) ->
               [at |-> j + 2,
                e |-> Expr("Compare", ts[j].s[1], neg = 1, <<ts[i].s[1]>>, <<ts[j + 1]>>)]
         [] level = 3 /\ IsName(ts, i) /\ (\E c \in Comparisons : IsWord(ts, j, c))
              /\ neg = 0 /\ IsWord(ts, j + 1, "(") /\ ListEnd(ts, j + 1) > j + 3 ->
               [at |-> ListEnd(ts, j + 1) + 1,
                e |-> Expr("Tuple", ts[j].s[1], FALSE, <<ts[i].s[1]>>, ListOf(ts, j + 1))]
         [] level = 3 /\ IsName(ts, i) /\ neg = 0 /\ ~(\E c \in Comparisons : IsWord(ts, j, c)) ->
               [at |-> i + 1, e |-> Expr("Identifier", "", FALSE, <<ts[i].s[1]>>, << >>)]
         [] OTHER -> Fails

\* Parser::parse_sql: the whole text is one expression.
parse_sql(ts) ==
    LET p == ParseExpr(ts, 1, 1)
    IN IF (\E i \in DOMAIN ts : ts[i] = Bad) \/ p.at # Len(ts) + 1 THEN Fails ELSE p

-----------------------------------------------------------------------------
(* parser.rs: from sqlparser's expressions to conditions                   *)

Numerals == 0 .. 9

\* extract_value.
extract_value(token) ==
    IF token.tok = "str" THEN String(token.s)
    ELSE IF \E n \in Numerals : token.s[1] = ToString(n)
    THEN Number(CHOOSE n \in Numerals : token.s[1] = ToString(n))
    ELSE IF token.s[1] \in {"true", "false"} THEN Boolean(token.s[1] = "true")
    ELSE String(token.s)

OperatorOf ==
    ("=" :> "Equals") @@ ("!=" :> "NotEquals") @@ (">" :> "GreaterThan") @@ ("<" :> "LessThan")
    @@ (">=" :> "GreaterThanOrEqual") @@ ("<=" :> "LessThanOrEqual") @@ ("~" :> "Matches")
    @@ ("LIKE" :> "Contains")

\* convert_leaf and extract_field.
convert_leaf(name, op, value) ==
    IF name \in DOMAIN parse_str THEN [ok |-> TRUE, node |-> Leaf(parse_str[name], op, value)]
    ELSE Err("InvalidExpression")

\* Mutant: a bracket counts as a level.
RECURSIVE convert_counting_brackets(_, _)
convert_counting_brackets(e, level) ==
    LET kids == [i \in DOMAIN (e.a \o e.b) |->
                    convert_counting_brackets((e.a \o e.b)[i], level + 1)]
    IN IF level > MAX_AST_DEPTH THEN Err("MaxDepthExceeded")
       ELSE CASE e.k = "Nested" -> convert_counting_brackets(e.a[1], level + 1)
              [] e.k \in {"NOT", "AND", "OR"} ->
                    IF \E i \in DOMAIN kids : ~kids[i].ok THEN Err("InvalidExpression")
                    ELSE [ok |-> TRUE,
                          node |-> Node(CASE e.k = "NOT" -> "Not" [] e.k = "AND" -> "And" [] OTHER -> "Or",
                                        [i \in DOMAIN kids |-> kids[i].node])]
              [] e.k = "Compare" ->
                    convert_leaf(e.a[1], IF e.neg THEN "NotContains" ELSE OperatorOf[e.op],
                                 extract_value(e.b[1]))
              [] OTHER -> convert_leaf(e.a[1], "Equals", Boolean(TRUE))

\* convert_expr.
RECURSIVE convert_expr(_, _)
convert_expr(e, level) ==
    LET kids == [i \in DOMAIN (e.a \o e.b) |-> convert_expr((e.a \o e.b)[i], level + 1)]
        failed == {i \in DOMAIN kids : ~kids[i].ok}
        texts(ts) == [i \in DOMAIN ts |-> ts[i].s]
    IN IF level > MAX_AST_DEPTH THEN Err("MaxDepthExceeded")
       ELSE CASE e.k = "Nested" -> convert_expr(e.a[1], level)
              [] e.k \in {"NOT", "AND", "OR"} ->
                    IF failed # {} THEN kids[CHOOSE i \in failed : \A j \in failed : i <= j]
                    ELSE [ok |-> TRUE,
                          node |-> Node(CASE e.k = "NOT" -> "Not" [] e.k = "AND" -> "And" [] OTHER -> "Or",
                                        [i \in DOMAIN kids |-> kids[i].node])]
              [] e.k = "InList" ->
                    convert_leaf(e.a[1], IF e.neg THEN "NotIn" ELSE "In", List(texts(e.b)))
              [] e.k = "Tuple" -> convert_leaf(e.a[1], OperatorOf[e.op], List(texts(e.b)))
              [] e.k = "Compare" ->
                    convert_leaf(e.a[1], IF e.neg THEN "NotContains" ELSE OperatorOf[e.op],
                                 extract_value(e.b[1]))
              [] e.k = "Identifier" -> convert_leaf(e.a[1], "Equals", Boolean(TRUE))

\* NsqlParser::parse_conditions: SELECT ... WHERE, WHERE or the bare condition.
parse_conditions(where) ==
    LET text == preprocess_nsql_where(where)
        selection == IF text[1] = "SELECT" THEN Tail(Tail(text))
                     ELSE IF text[1] = "WHERE" THEN Tail(text) ELSE text
        p == parse_sql(Tokens(selection))
    IN IF where = << >> THEN Err("Syntax")
       ELSE IF text[1] = "SELECT" /\ (Len(text) = 1 \/ text[2] # "WHERE") THEN Err("Syntax")
       ELSE IF p.at = 0 THEN Err("Syntax")
       ELSE convert_expr(p.e, 1)

\* NsqlParser::parse_rule.
parse_rule(priority, text) ==
    LET scoped == extract_on_account(text)
        parts == split_where_and_actions(scoped.body)
        conditions == parse_conditions(parts.where)
    IN IF ~parts.ok THEN parts
       ELSE IF ~conditions.ok THEN conditions
       ELSE IF depth(conditions.node) > MAX_AST_DEPTH THEN Err("MaxDepthExceeded")
       ELSE [ok |-> TRUE,
             rule |-> [target_account |-> scoped.target, priority |-> priority, enabled |-> TRUE,
                       nsql_text |-> text, conditions |-> conditions.node, actions |-> parts.actions]]

-----------------------------------------------------------------------------
(* validator.rs                                                            *)

\* regex: which patterns compile, and the nested quantifiers looked for.
BadRegex    == {<<"(">>}
NestedRegex == {<<"(a+)+">>}
is_match(pattern, s) == pattern = <<".*">> \/ pattern = s

\* is_valid_email_format.
is_valid_email_format(s) == s \in {<<"ann@work.org">>, <<"bob@home.org">>}

\* The host a webhook URL names and whether its scheme is http or https.
HttpUrl    == {<<"https://hooks.org">>, <<"http://localhost">>}
PrivateUrl == {<<"http://localhost">>}

\* ValidationOptions; a set with one element is Some, an empty one None.
DefaultOptions == [folders |-> {}, forward_domains |-> {}, block_private |-> TRUE]

\* pass1_field_types.
pass1_field_types(node) ==
    \A l \in leaves(node) :
        CASE l.field \in NumberField       -> l.value.type = "Number"
          [] l.field = "has_attachment"    -> l.value.type = "Boolean"
          [] l.field \in HeaderField       -> FALSE
          [] OTHER                         -> l.value.type \in {"String", "List"}

\* pass2_folder_references.
pass2_folder_references(actions, opts) ==
    \A a \in ToSet(actions) :
        a.act = "MOVE TO" => a.target # << >> /\ \A known \in opts.folders : a.target \in known

\* pass3_rfc5322 and check_condition_emails.
pass3_rfc5322(node, actions) ==
    /\ \A a \in ToSet(actions) : a.act = "FORWARD TO" => is_valid_email_format(a.target)
    /\ \A l \in leaves(node) :
          l.field \in {"from", "to"} /\ l.op = "Equals" /\ l.value.type = "String"
             => is_valid_email_format(l.value.strs[1])

\* Mutant: the patterns are not compiled.
pass4_depth_only(node) ==
    /\ depth(node) <= MAX_AST_DEPTH
    /\ \A l \in leaves(node) :
          l.op = "Matches" /\ l.value.type = "String" => l.value.strs[1] \notin NestedRegex

\* pass4_redos_and_depth and check_regex_patterns.
pass4_redos_and_depth(node) ==
    /\ depth(node) <= MAX_AST_DEPTH
    /\ \A l \in leaves(node) :
          l.op = "Matches" /\ l.value.type = "String"
             => l.value.strs[1] \notin NestedRegex \union BadRegex

\* The last bound of a kind among the children of an AND.
LastBound(node, ops) ==
    LET at == {i \in DOMAIN node.kids :
                  /\ node.kids[i].kind = "Leaf" /\ node.kids[i].field = "size"
                  /\ node.kids[i].value.type = "Number" /\ node.kids[i].op \in ops}
    IN {node.kids[i].value.num : i \in {j \in at : \A k \in at : k <= j}}

\* Mutant: an upper bound above the lower one is refused.
pass5_reversed(node) ==
    node.kind = "And" =>
        \A gt \in LastBound(node, {"GreaterThan", "GreaterThanOrEqual"}),
           lt \in LastBound(node, {"LessThan", "LessThanOrEqual"}) : gt >= lt

\* pass5_contradictions: only at the top of the condition.
pass5_contradictions(node) ==
    node.kind = "And" =>
        \A gt \in LastBound(node, {"GreaterThan", "GreaterThanOrEqual"}),
           lt \in LastBound(node, {"LessThan", "LessThanOrEqual"}) : gt < lt

\* pass6_action_security.
pass6_action_security(actions, opts) ==
    \A a \in ToSet(actions) :
        /\ a.act = "FORWARD TO" => \A ds \in opts.forward_domains : a.target \in ds
        /\ a.act = "CALL WEBHOOK" =>
              a.target \in HttpUrl /\ (opts.block_private => a.target \notin PrivateUrl)

\* NsqlValidator::validate: the number of the pass that fails, 0 for none.
validate(rule, opts) ==
    CASE ~pass1_field_types(rule.conditions)                -> 1
      [] ~pass2_folder_references(rule.actions, opts)       -> 2
      [] ~pass3_rfc5322(rule.conditions, rule.actions)      -> 3
      [] ~pass4_redos_and_depth(rule.conditions)            -> 4
      [] ~pass5_contradictions(rule.conditions)             -> 5
      [] ~pass6_action_security(rule.actions, opts)         -> 6
      [] OTHER                                              -> 0

\* WebhookDispatcher::dispatch: the action is checked again before the POST.
dispatch_allowed(url) == pass6_action_security(<<Action("CALL WEBHOOK", url)>>, DefaultOptions)

-----------------------------------------------------------------------------
(* engine.rs                                                               *)

\* Mails to filter.  A body is plain text, HTML or missing.
NoText == {}
Email(acc, subj, plain, html, att) ==
    [account |-> <<acc>>, subject |-> subj, sender |-> <<"bob@home.org">>,
     recipient |-> <<acc>>, plain |-> plain, html |-> html, folder |-> <<"INBOX">>,
     attachments |-> att, received_at |-> 2]
Emails ==
    {Email("ann@work.org", <<"hello">>, {<<"a", "b">>}, NoText, 0),
     Email("ann@work.org", <<"ACTION">>, NoText, {<<"hello">>}, 1),
     Email("bob@home.org", <<"it", "'", "s">>, {<<"a">>}, {<<"b">>}, 0),
     Email("bob@home.org", <<"hello">>, NoText, NoText, 2)}

\* The contents of an Option, or what stands for None.
unwrap_or(o, d) == IF o = {} THEN d ELSE CHOOSE x \in o : TRUE

\* A stretch of the haystack is the needle.
contains(haystack, needle) ==
    \E i \in 0 .. Len(haystack) - Len(needle) :
        SubSeq(haystack, i + 1, i + Len(needle)) = needle

\* Mutant: NOT IN of something that is not a list is false, as IN is.
string_op_strict_not_in(haystack, op, val) ==
    LET in_set == val.type = "List" /\ haystack \in ToSet(val.strs)
    IN CASE op = "In"    -> in_set
         [] op = "NotIn" -> val.type # "List"
         [] OTHER        -> val.type = "String" /\ (haystack = val.strs[1]) = (op = "Equals")

\* eval_string_op and eval_in_set.
eval_string_op(haystack, op, val) ==
    LET s == val.strs[1]
    IN CASE op = "In"    -> val.type = "List" /\ haystack \in ToSet(val.strs)
         [] op = "NotIn" -> ~(val.type = "List" /\ haystack \in ToSet(val.strs))
         [] op \in {"Equals", "NotEquals", "Contains", "NotContains", "Matches"}
               /\ val.type = "String" ->
               (CASE op = "Equals"      -> haystack = s
                  [] op = "NotEquals"   -> haystack # s
                  [] op = "Contains"    -> contains(haystack, s)
                  [] op = "NotContains" -> ~contains(haystack, s)
                  [] op = "Matches"     -> s \notin BadRegex /\ is_match(s, haystack))
         [] OTHER -> FALSE

\* The numeric comparisons of eval_leaf.
eval_number_op(n, op, val) ==
    /\ val.type = "Number"
    /\ CASE op = "Equals"             -> n = val.num
         [] op = "NotEquals"          -> n # val.num
         [] op = "GreaterThan"        -> n > val.num
         [] op = "LessThan"           -> n < val.num
         [] op = "GreaterThanOrEqual" -> n >= val.num
         [] op = "LessThanOrEqual"    -> n <= val.num
         [] OTHER                     -> FALSE

\* CompiledFilter::eval_leaf: the size is that of the plain body.
eval_leaf(l, email) ==
    CASE l.field = "subject" -> eval_string_op(email.subject, l.op, l.value)
      [] l.field = "from"    -> eval_string_op(email.sender, l.op, l.value)
      [] l.field = "to"      -> eval_string_op(email.recipient, l.op, l.value)
      [] l.field = "body"    ->
            eval_string_op(unwrap_or(email.plain, unwrap_or(email.html, << >>)), l.op, l.value)
      [] l.field = "folder"  -> eval_string_op(email.folder, l.op, l.value)
      [] l.field = "account" -> eval_string_op(email.account, l.op, l.value)
      [] l.field = "has_attachment" ->
            /\ l.value.type = "Boolean"
            /\ ((email.attachments > 0) = (l.value.num = 1)) = (l.op = "Equals")
      [] l.field = "size" -> eval_number_op(Len(unwrap_or(email.plain, << >>)), l.op, l.value)
      [] l.field = "date" -> eval_number_op(email.received_at, l.op, l.value)
      [] OTHER -> FALSE

\* CompiledFilter::eval_node.
RECURSIVE eval_node(_, _)
eval_node(node, email) ==
    CASE node.kind = "Leaf" -> eval_leaf(node, email)
      [] node.kind = "And"  -> \A i \in DOMAIN node.kids : eval_node(node.kids[i], email)
      [] node.kind = "Or"   -> \E i \in DOMAIN node.kids : eval_node(node.kids[i], email)
      [] node.kind = "Not"  -> ~eval_node(node.kids[1], email)

\* FilterRule::matches_account; wildcard targets are regular expressions.
Wildcard == (<<"%@work.org">> :> {<<"ann@work.org">>})
matches_account(rule, account) ==
    \/ rule.target_account \in {<<"*">>, <<"%">>, << >>}
    \/ rule.target_account = account
    \/ rule.target_account \in DOMAIN Wildcard /\ account \in Wildcard[rule.target_account]

\* CompiledFilter::compile and collect_regexes.
compiles(rule) ==
    \A l \in leaves(rule.conditions) :
        ~(l.op = "Matches" /\ l.value.type = "String" /\ l.value.strs[1] \in BadRegex)

\* CompiledFilterSet::new: a stable sort by priority, the enabled rules, and
\* no set at all when one of them does not compile.
CompiledFilterSet(rs) ==
    LET Upto(p) == SelectSeq(rs, LAMBDA r : r.priority = p)
        sorted == FlattenSeq([p \in 1 .. 2 |-> Upto(p - 1)])
        on == SelectSeq(sorted, LAMBDA r : r.enabled)
    IN IF \A i \in DOMAIN on : compiles(on[i]) THEN [ok |-> TRUE, filters |-> on] ELSE Err("compile")

\* FilterEngine::evaluate (and evaluate_with_timeout): the rules that fire.
evaluate(filters, email) ==
    SelectSeq(filters, LAMBDA r : matches_account(r, email.account) /\ eval_node(r.conditions, email))

\* Mutant: the preview does not look at the account.
preview_any_account(filters, email) ==
    LET hits == {i \in DOMAIN filters : eval_node(filters[i].conditions, email)}
    IN IF hits = {} THEN [matched |-> FALSE]
       ELSE [matched |-> TRUE, rule |-> filters[CHOOSE i \in hits : \A j \in hits : i <= j]]

\* FilterEngine::preview: the first rule that fires.
preview(filters, email) ==
    LET hits == {i \in DOMAIN filters :
                    /\ matches_account(filters[i], email.account)
                    /\ eval_node(filters[i].conditions, email)}
    IN IF hits = {} THEN [matched |-> FALSE]
       ELSE [matched |-> TRUE, rule |-> filters[CHOOSE i \in hits : \A j \in hits : i <= j]]

-----------------------------------------------------------------------------
(* The rules clients write                                                 *)

Sample(type) ==
    CASE type = "String"  -> {String(<<"hello">>), String(<<"bob@home.org">>), String(<<"ACTION">>),
                              String(<<"CONTAINS">>), String(<<"it", "'", "s">>), String(<<"(">>),
                              String(<<"(a+)+">>), String(<<".*">>)}
      [] type = "Number"  -> {Number(1)}
      [] type = "Boolean" -> {Boolean(TRUE), Boolean(FALSE)}
      [] type = "List"    -> {List(<< <<"hello">>, <<"it", "'", "s">> >>), List(<< <<"hello">>, <<"x">> >>)}

\* Leaves the grammar can express: lists with IN, NOT IN, = and !=.
SampleLeaves ==
    {Leaf(f, o, v) : f \in {"subject", "from", "body", "size", "has_attachment", "header['x-spam']"},
                     o \in DOMAIN OperatorText \ {"In", "NotIn"},
                     v \in Sample("String") \union Sample("Number") \union Sample("Boolean")}
    \union {Leaf(f, o, v) : f \in {"subject", "size"}, o \in {"In", "NotIn", "Equals", "NotEquals"},
                            v \in Sample("List")}

\* Two bounds of the size.
SampleBounds ==
    {Node("And", <<Leaf("size", g, Number(m)), Leaf("size", l, Number(n))>>) :
        g \in {"GreaterThan", "GreaterThanOrEqual"}, l \in {"LessThan", "LessThanOrEqual"},
        m \in 0 .. 2, n \in 0 .. 2}

\* Conditions of some depth.
Hello == Leaf("subject", "Contains", String(<<"hello">>))
Nested[n \in 1 .. Nesting] ==
    IF n = 1 THEN {Hello, Leaf("size", "GreaterThan", Number(1)),
                   Leaf("has_attachment", "Equals", Boolean(TRUE))}
    ELSE LET below == Nested[n - 1]
         IN below \union {Node("Not", <<c>>) : c \in below}
            \union {Node(k, <<c, Hello>>) : k \in {"And", "Or"}, c \in below}
            \union {Node(k, <<Hello, c>>) : k \in {"And", "Or"}, c \in below}

SampleActions ==
    {Action("MOVE TO", <<"Work">>), Action("MOVE TO", <<"it", "'", "s">>), Action("MARK READ", << >>),
     Action("FORWARD TO", <<"ann@work.org">>), Action("FORWARD TO", <<"nobody">>)}
    \union {Action("CALL WEBHOOK", u) : u \in HttpUrl \union {<<"ftp://hooks.org">>}}

\* A client doubles the quotes of a literal and puts a target that has one in
\* double quotes; the clauses of the statement come in SQL's order.
DoubleQuotes(text) == [i \in DOMAIN text |-> IF text[i] = "\\" THEN "'" ELSE text[i]]
WriteAction(a) ==
    IF a.act \in TargetAction /\ "'" \in ToSet(a.target)
    THEN <<a.act, "\"">> \o a.target \o <<"\"">> ELSE action_to_nsql(a)
Draft(scope, node, acts) ==
    [scope |-> scope, node |-> node, acts |-> acts,
     text |-> <<"SELECT">>
              \o (IF scope = <<"*">> THEN << >> ELSE <<"ON ACCOUNT">> \o Quoted(scope))
              \o <<"WHERE">> \o DoubleQuotes(condition_to_nsql(node))
              \o (IF acts = << >> THEN << >>
                  ELSE <<"ACTION">> \o join([i \in DOMAIN acts |-> WriteAction(acts[i])], ","))]

Drafts ==
    {Draft(<<"*">>, c, <<Action("MARK READ", << >>)>>) : c \in SampleLeaves \union SampleBounds}
    \union {Draft(<<"ann@work.org">>, c, << >>) : c \in Nested[Nesting]}
    \union {Draft(s, Hello, acts) : s \in {<<"%@work.org">>, <<"bob@home.org">>},
                                    acts \in {<<a>> : a \in SampleActions}
                                             \union {<<a, b>> : a \in SampleActions, b \in SampleActions}}

-----------------------------------------------------------------------------
VARIABLES
    draft,    \* what the client wrote
    phase,    \* what has happened to it
    first,    \* the result of parsing it
    current   \* the rule after it was exported and imported again

nsqlVars == <<draft, phase, first, current>>

NsqlInit ==
    /\ draft \in Drafts
    /\ phase = "draft"
    /\ first = Err("none")
    /\ current = Err("none")

\* One line of import_rules, or the parse of create_rule.
ImportDraft ==
    /\ phase = "draft"
    /\ first' = parse_rule(0, draft.text)
    /\ current' = first'
    /\ phase' = IF first'.ok THEN "kept" ELSE "refused"
    /\ UNCHANGED draft

\* export_rules in the NSQL format, then import_rules of the text.
ExportAndImport ==
    /\ phase \in {"kept", "moved"}
    /\ current.ok
    /\ current' = parse_rule(0, to_nsql(current.rule))
    /\ phase' = "moved"
    /\ UNCHANGED <<draft, first>>

NsqlNext == ImportDraft \/ ExportAndImport

-----------------------------------------------------------------------------
(* Properties                                                              *)

HasQuote(node) == \E l \in leaves(node) : \E i \in DOMAIN l.value.strs : "'" \in ToSet(l.value.strs[i])
Rewritten(node) == \E l \in leaves(node) : \E i \in DOMAIN l.value.strs : "CONTAINS" \in ToSet(l.value.strs[i])

\* parse_rule: a rule is accepted exactly when its conditions nest no deeper
\* than MAX_AST_DEPTH, brackets not counted, and it then means what was
\* written: keywords and commas inside quotes are text, and the account scope
\* and every action are kept.  A literal that holds the word CONTAINS is the
\* exception: preprocess_nsql_where rewrites it as if it were the operator.
ParsesAsMeant ==
    phase # "draft" =>
        /\ first.ok <=> depth(draft.node) <= MAX_AST_DEPTH
        /\ first.ok /\ ~Rewritten(draft.node) =>
              /\ first.rule.conditions = draft.node
              /\ first.rule.actions = draft.acts
              /\ first.rule.target_account = draft.scope

\* verify_roundtrip_invariant: exporting a parsed rule and importing the text,
\* any number of times, gives back its conditions and its actions, if no
\* literal and no target holds a quote.
RoundTrip ==
    /\ phase = "moved"
    /\ ~HasQuote(first.rule.conditions)
    /\ \A i \in DOMAIN first.rule.actions : "'" \notin ToSet(first.rule.actions[i].target)
    => /\ current.ok
       /\ current.rule.conditions = first.rule.conditions
       /\ current.rule.actions = first.rule.actions

\* import_rules of an exported text: a literal with a quote, which the
\* generator escapes in a way the parser does not undo, makes the import
\* refuse the rule; it never comes back with other conditions.
ReimportSound ==
    phase = "moved" =>
        /\ current.ok <=> ~HasQuote(first.rule.conditions)
        /\ current.ok => current.rule.conditions = first.rule.conditions

Strict(node) == \A l \in leaves(node) : l.op \in {"GreaterThan", "LessThan"}

\* pass5_contradictions: a rule refused as contradictory matches no size, if
\* its bounds are strict; one with >= and <= of the same number is refused
\* although that number satisfies both.
ContradictionsAreReal ==
    first.ok =>
        LET node == first.rule.conditions
        IN validate(first.rule, DefaultOptions) = 5 /\ Strict(node) =>
              ~\E n \in Numerals :
                  \A i \in DOMAIN node.kids : eval_number_op(n, node.kids[i].op, node.kids[i].value)

Opposite == ("Equals" :> "NotEquals") @@ ("Contains" :> "NotContains") @@ ("In" :> "NotIn")

\* eval_string_op: in a rule the validator accepts, the negated form of an
\* operator is the complement of the operator for every mail.  = and != with a
\* list, which the validator lets through, are both false, and has_attachment
\* takes every operator but = for !=.
NegationIsComplement ==
    first.ok =>
        LET l == first.rule.conditions
        IN /\ l.kind = "Leaf" /\ l.op \in DOMAIN Opposite
           /\ validate(first.rule, DefaultOptions) = 0
           /\ (l.value.type = "List" => l.op = "In")
           /\ (l.field \notin StringField => l.field = "has_attachment" /\ l.op = "Equals")
           => \A m \in Emails : eval_leaf([l EXCEPT !.op = Opposite[l.op]], m) = ~eval_leaf(l, m)

\* Another rule beside the one under test, of a lower or a higher priority.
Rivals == {[parse_rule(p, <<"WHERE", "size", ">", "0">>).rule EXCEPT !.enabled = e] :
              p \in {0, 1}, e \in BOOLEAN}

\* preview_rule and evaluate: the dry run reports a match exactly when the
\* engine would fire a rule, and the rule it names is the first that fires,
\* an enabled one, in the scope of the account, of the least priority number.
PreviewAgrees ==
    phase = "kept" =>
        \A rival \in Rivals, m \in Emails :
            LET set == CompiledFilterSet(<<[first.rule EXCEPT !.priority = 1], rival>>)
                fired == evaluate(set.filters, m)
                p == preview(set.filters, m)
            IN set.ok =>
                  /\ p.matched <=> fired # << >>
                  /\ p.matched =>
                        /\ p.rule = fired[1]
                        /\ \A i \in DOMAIN fired : p.rule.priority <= fired[i].priority
                        /\ p.rule.enabled /\ matches_account(p.rule, m.account)

\* create_rule: a rule the validator accepts compiles, so it cannot stop the
\* engine from loading, its webhooks pass the check made again before the
\* POST, and none of its conditions is on a field the engine never matches.
ValidatedIsUsable ==
    first.ok /\ validate(first.rule, DefaultOptions) = 0 =>
        /\ compiles(first.rule)
        /\ \A a \in ToSet(first.rule.actions) : a.act = "CALL WEBHOOK" => dispatch_allowed(a.target)
        /\ \A l \in leaves(first.rule.conditions) : l.field \notin HeaderField

\* The text of a rule and the rule are two forms of one thing: parsing gives
\* what was written, and exporting and importing it again changes nothing or
\* is refused.
RuleText == ParsesAsMeant /\ RoundTrip /\ ReimportSound

\* A rule means what it says: a negated operator is the complement, and what
\* the dry run shows is what the engine does.
RuleMeaning == NegationIsComplement /\ PreviewAgrees

\* The validator refuses only what deserves it, and what it accepts can be
\* compiled, matched and dispatched.
RulesVetted == ContradictionsAreReal /\ ValidatedIsUsable
=============================================================================
