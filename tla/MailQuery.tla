----------------------------- MODULE MailQuery -----------------------------
(***************************************************************************)
(* Which mail a list holds: the search grammar, and the rules of smart     *)
(* mailboxes from the check that saves them to the compiler that runs      *)
(* them.  The pages of a list are in MailWalk.                             *)
(***************************************************************************)
EXTENDS MailWalk, Sequences

CONSTANTS SmartIds,    \* ids of smart mailboxes
          QueryWords,  \* the words of mail, of rules and of search texts
          MaxDepth,    \* bound: how deep a rule is nested
          MailRules,   \* the rules a client submits
          MailTexts,   \* the search texts it types
          MailSamples  \* the messages its lists are drawn from

-----------------------------------------------------------------------------
\* field_spec: the value type of a field and the operators it takes.
TextFields == {"sourceName", "mailboxName", "fromName", "fromEmail", "to", "subject", "preview"}
IdFields   == {"sourceId", "messageId", "conversationId", "mailboxId", "mailboxRole", "keyword"}
FieldSpec(f) ==
    CASE f \in IdFields   -> [type |-> "text", operators |-> {"equals", "in"}]
      [] f \in TextFields -> [type |-> "text", operators |-> {"equals", "contains", "in", "beginsWith", "endsWith", "regex"}]
      [] f = "body"       -> [type |-> "text", operators |-> {"contains"}]
      [] f \in {"isRead", "isFlagged", "hasAttachment"} -> [type |-> "bool", operators |-> {"equals"}]
      [] f = "receivedAt" -> [type |-> "date", operators |-> {"lt", "gt", "le", "ge"}]
      [] f = "size"       -> [type |-> "number", operators |-> {"lt", "gt", "le", "ge"}]

AllFields == TextFields \cup IdFields \cup {"body", "isRead", "isFlagged", "hasAttachment", "receivedAt", "size"}
QueryOperators == {"equals", "contains", "in", "beginsWith", "endsWith", "regex", "lt", "gt", "le", "ge"}

\* A value is its wire shape and its words; pattern and digits say what a string is.
Shapes == {"string", "strings", "bool", "date"}
QueryValues == [shape : Shapes, words : SUBSET QueryWords, pattern : BOOLEAN, digits : BOOLEAN]

ValueMatchesType(type, v) ==
    CASE type = "text" -> v.shape \in {"string", "strings"}
      [] type = "bool" -> v.shape = "bool"
      [] type = "date" -> v.shape \in {"date", "string"}
      [] type = "number" -> v.shape = "string"

\* The nodes of a rule, by how deep groups are nested in them.
Conditions == [is : {"condition"}, field : AllFields, operator : QueryOperators,
               negated : BOOLEAN, value : QueryValues]
GroupsOf(nodes) == [is : {"group"}, operator : {"all", "any"}, negated : BOOLEAN, nodes : Seq(nodes)]
NodesTo[d \in 0 .. MaxDepth] ==
    IF d = 0 THEN Conditions ELSE Conditions \cup GroupsOf(NodesTo[d - 1])

RuleNode == NodesTo[MaxDepth]

Condition(f, op, neg, v) == [is |-> "condition", field |-> f, operator |-> op, negated |-> neg, value |-> v]
Group(op, neg, nodes) == [is |-> "group", operator |-> op, negated |-> neg, nodes |-> nodes]

\* validate_condition
ValidCondition(c) ==
    /\ c.operator \in FieldSpec(c.field).operators
    /\ ValueMatchesType(FieldSpec(c.field).type, c.value)
    /\ c.operator = "regex" => c.value.shape = "string" /\ c.value.pattern

\* compile_mail_query_condition and the field compilers: what they expect of the value.
CompilesCondition(c) ==
    /\ c.operator \in FieldSpec(c.field).operators
    /\ CASE FieldSpec(c.field).type = "text" -> c.value.shape = IF c.operator = "in" THEN "strings" ELSE "string"
         [] FieldSpec(c.field).type = "bool" -> c.value.shape = "bool"
         [] FieldSpec(c.field).type = "date" -> c.value.shape \in {"string", "date"}
         [] FieldSpec(c.field).type = "number" -> c.value.shape = "string" /\ c.value.digits

\* validate_group and compile_mail_query_group walk the same tree.
LeavesOf[node \in RuleNode] ==
    IF node.is = "condition" THEN {node}
    ELSE UNION {LeavesOf[node.nodes[i]] : i \in DOMAIN node.nodes}
ValidQuery(rule) == \A c \in LeavesOf[rule] : ValidCondition(c)
Compiles(rule) == \A c \in LeavesOf[rule] : CompilesCondition(c)

\* The WHERE clause: a message is its words in each field, and substrings,
\* patterns and comparisons are the presence of the condition's word.
ConditionHolds(c, m) ==
    LET words == m[c.field]
        hit == IF c.field \in TextFields /\ c.operator = "equals" THEN words = c.value.words
               ELSE words \cap c.value.words # {}
    IN  IF c.negated THEN ~hit ELSE hit

\* The messages a group selects, from those each of its nodes does.
Joined(group, each) ==
    IF group.nodes = <<>> THEN MailSamples
    ELSE IF group.operator = "all" THEN {m \in MailSamples : \A i \in DOMAIN each : m \in each[i]}
    ELSE {m \in MailSamples : \E i \in DOMAIN each : m \in each[i]}

Selected[node \in RuleNode] ==
    IF node.is = "condition" THEN {m \in MailSamples : ConditionHolds(node, m)}
    ELSE LET joined == Joined(node, [i \in DOMAIN node.nodes |-> Selected[node.nodes[i]]])
         IN  IF node.negated THEN MailSamples \ joined ELSE joined

-----------------------------------------------------------------------------
\* parse_token: the node of one prefix:value token.
TextValue(w) == [shape |-> "string", words |-> {w}, pattern |-> TRUE, digits |-> FALSE]
BoolValue(b) == [shape |-> "bool", words |-> {b}, pattern |-> FALSE, digits |-> FALSE]

FromFields    == << <<"fromEmail", "contains">>, <<"fromName", "contains">> >>
MailboxFields == << <<"mailboxRole", "equals">>, <<"mailboxId", "equals">>, <<"mailboxName", "contains">> >>
SourceFields  == << <<"sourceId", "equals">>, <<"sourceName", "contains">> >>
FreeFields    == << <<"fromName", "contains">>, <<"fromEmail", "contains">>, <<"subject", "contains">>,
                    <<"preview", "contains">>, <<"body", "contains">> >>

\* from_node, mailbox_node, source_node, free_text_node
AnyNode(fields, w, neg) ==
    Group("any", neg, [i \in 1..Len(fields) |-> Condition(fields[i][1], fields[i][2], FALSE, TextValue(w))])

ParsePrefixed(t) ==
    CASE t.prefix = "from"    -> AnyNode(FromFields, t.word, t.negated)
      [] t.prefix = "in"      -> AnyNode(MailboxFields, t.word, t.negated)
      [] t.prefix = "source"  -> AnyNode(SourceFields, t.word, t.negated)
      [] t.prefix = "none"    -> AnyNode(FreeFields, t.word, t.negated)
      [] t.prefix = "subject" -> Condition("subject", "contains", t.negated, TextValue(t.word))
      [] t.prefix = "tag"     -> Condition("keyword", "equals", t.negated, TextValue(t.word))
      [] t.prefix = "is"      -> Condition("isRead", "equals", t.negated, BoolValue(t.word))

\* parse_query, of a text as the tokenizer leaves it.
ParseQuery(text) == Group("all", FALSE, [i \in 1..Len(text) |-> ParsePrefixed(text[i])])

\* mail_list_rule, of a query whose only filter is its text.
MailListRule(text) == Group("all", FALSE, IF text = <<>> THEN <<>> ELSE <<ParseQuery(text)>>)

\* Fault: the saved rule's conditions join the list's own.
ScopedRuleSpliced(rule, text) == [MailListRule(text) EXCEPT !.nodes = rule.nodes \o @]

\* evaluate_mail_list: the saved rule goes in front, as one group.
ScopedRule(rule, text) == [MailListRule(text) EXCEPT !.nodes = <<rule>> \o @]

Tokens == [negated : BOOLEAN, word : QueryWords,
           prefix : {"from", "in", "source", "none", "subject", "tag", "is"}]

ASSUME QueryAssumption ==
    /\ MaxDepth \in Nat /\ MaxDepth >= 3
    /\ MailRules \subseteq GroupsOf(NodesTo[MaxDepth - 2])
    /\ MailTexts \subseteq Seq(Tokens)
    /\ MailSamples \subseteq [AllFields -> SUBSET QueryWords]

-----------------------------------------------------------------------------
VARIABLES saved,       \* the rules of the saved smart mailboxes, by id
          typed,       \* the search text of the list on screen
          scoped       \* the smart mailbox it is scoped to, 0 for none

ruleVars  == <<saved, typed, scoped>>
queryVars == <<walkVars, ruleVars>>

\* validate_rule, before a rule is saved.
AcceptedRules == {rule \in MailRules : ValidQuery(rule)}

\* create_smart_mailbox and update_smart_mailbox.
SaveSmartMailbox == \E id \in SmartIds, rule \in AcceptedRules :
    /\ saved' = [saved EXCEPT ![id] = {rule}]
    /\ UNCHANGED <<typed, scoped>>

DeleteSmartMailbox == \E id \in SmartIds :
    /\ saved[id] # {} /\ saved' = [saved EXCEPT ![id] = {}]
    /\ UNCHANGED <<typed, scoped>>

\* reset_default_smart_mailboxes: a default selects by mailbox role, or all mail.
DefaultRules == {Group("all", FALSE, <<>>)} \cup
    {Group("all", FALSE, <<Condition("mailboxRole", "equals", FALSE, TextValue(role))>>) : role \in QueryWords}
ResetSmartMailboxes == \E defaults \in [SmartIds -> DefaultRules] :
    /\ saved' = [id \in SmartIds |-> {defaults[id]}]
    /\ UNCHANGED <<typed, scoped>>

ShowList == \E text \in MailTexts, id \in SmartIds \cup {0} :
    /\ id > 0 => saved[id] # {}
    /\ typed' = text /\ scoped' = id
    /\ UNCHANGED saved

RuleInit == saved = [id \in SmartIds |-> {}] /\ typed = <<>> /\ scoped = 0
RuleNext == SaveSmartMailbox \/ DeleteSmartMailbox \/ ResetSmartMailboxes \/ ShowList

QuerySpec ==
    /\ WalkInit /\ RuleInit
    /\ [][(WalkNext /\ UNCHANGED ruleVars) \/ (RuleNext /\ UNCHANGED walkVars)]_queryVars

-----------------------------------------------------------------------------
\* A list scoped to a smart mailbox shows what the mailbox and the text both
\* select, whichever operators and negations the saved rule is made of.
ScopedListIsIntersection ==
    \A id \in SmartIds : scoped = id => \A rule \in saved[id] :
        Selected[ScopedRule(rule, typed)] = Selected[rule] \cap Selected[ParseQuery(typed)]

\* A negated token selects the messages the plain one does not, for the tokens
\* that search several fields too.
NegatedSearchIsComplement ==
    \A i \in DOMAIN typed :
        Selected[ParsePrefixed([typed[i] EXCEPT !.negated = TRUE])]
            = MailSamples \ Selected[ParsePrefixed([typed[i] EXCEPT !.negated = FALSE])]

\* Search is Boolean algebra: scoping intersects, negation complements.
SearchIsBoolean == ScopedListIsIntersection /\ NegatedSearchIsComplement

\* Every rule that was let in can be compiled ("Reject a rule the store's compiler
\* would refuse", api/smart_mailboxes.rs validate_rule): one that cannot fails
\* the whole list of smart mailboxes in evaluate_smart_mailboxes.
SavedRulesCompile == \A id \in SmartIds : \A rule \in saved[id] : Compiles(rule)
=============================================================================
