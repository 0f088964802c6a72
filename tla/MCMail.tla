------------------------------- MODULE MCMail -------------------------------
(***************************************************************************)
(* What happens to mail on this side of the provider, one component at a   *)
(* time: a behaviour is one of `part`, the others stand still.             *)
(***************************************************************************)
EXTENDS Overlay, Drafts, Replica, RevLog, Projections, MailQuery, StoreOpen

VARIABLE part

Keyed(add, remove) == [kind |-> "setKeywords", add |-> add, remove |-> remove]
MailAssertions ==
    {Keyed({"t1"}, {}), Keyed({}, {"t1"}), [kind |-> "replaceMailboxes", mailboxes |-> {"b2"}],
     [kind |-> "applyDiff", diff |-> [keywords |-> [added |-> {"t1"}, removed |-> {}],
                                      mailboxes |-> [added |-> {"b2"}, removed |-> {"b1"}]]],
     [kind |-> "destroy"]}
MailDates == <<1, 1, 2, 2>>
MailConversations == <<1, 2, 2, 3>>

\* Messages a rule can tell apart by the words of their fields, and rules of
\* every shape the check on submission and the compiler look at.
SampleMail == {[f \in AllFields |-> IF f = "isRead" THEN {read} ELSE IF f \in hits THEN {"w"} ELSE {"v"}] :
                  hits \in {{}, {"fromName"}, {"subject"}, {"mailboxId"}, {"keyword", "body"}}, read \in {"yes", "no"}}

Worded(shape, pattern, digits) == [shape |-> shape, words |-> {"w"}, pattern |-> pattern, digits |-> digits]
SampleValues == {Worded("string", TRUE, FALSE), Worded("string", TRUE, TRUE), Worded("string", FALSE, FALSE)}
                \cup {Worded(shape, FALSE, FALSE) : shape \in Shapes \ {"string"}}
SampleConditions == {Condition(f, op, FALSE, v) : f \in {"subject", "keyword", "body", "isRead", "size"},
                        op \in {"equals", "contains", "in", "regex", "lt"}, v \in SampleValues}
SampleRules == {Group(op, neg, <<a, Condition("keyword", "equals", TRUE, TextValue("w"))>>) :
                   op \in {"all", "any"}, neg \in BOOLEAN, a \in SampleConditions}
SampleTexts == {<<>>} \cup
    {<<t>> : t \in {t \in Tokens : t.word = IF t.prefix = "is" THEN "yes" ELSE "w"}}

mailVars == <<part, overlayVars, draftVars, replicaVars, revVars, projVars, queryVars, storeVars>>

\* The parts that do not run begin in one state.
MailInit ==
    /\ part \in {"overlay", "drafts", "replica", "undo", "projections", "walk", "rules", "open"}
    /\ OverlayInit /\ DraftsInit /\ ReplicaInit /\ RevInit /\ ProjInit
    /\ WalkInit /\ RuleInit /\ StoreInit
    /\ part # "overlay" => jmap
    /\ part # "drafts" => onJmap
    /\ part # "walk" => inView = {}
    /\ part # "open" => file.version = SCHEMA_VERSION

MailNext ==
    \/ /\ part = "overlay" /\ OverlayNext
       /\ UNCHANGED <<part, draftVars, replicaVars, revVars, projVars, queryVars, storeVars>>
    \/ /\ part = "drafts" /\ DraftsNext
       /\ UNCHANGED <<part, overlayVars, replicaVars, revVars, projVars, queryVars, storeVars>>
    \/ /\ part = "replica" /\ ReplicaNext
       /\ UNCHANGED <<part, overlayVars, draftVars, revVars, projVars, queryVars, storeVars>>
    \/ /\ part = "undo" /\ RevNext
       /\ UNCHANGED <<part, overlayVars, draftVars, replicaVars, projVars, queryVars, storeVars>>
    \/ /\ part = "projections" /\ ProjNext
       /\ UNCHANGED <<part, overlayVars, draftVars, replicaVars, revVars, queryVars, storeVars>>
    \/ /\ part = "walk" /\ WalkNext
       /\ UNCHANGED <<part, overlayVars, draftVars, replicaVars, revVars, projVars, ruleVars, storeVars>>
    \/ /\ part = "rules" /\ RuleNext
       /\ UNCHANGED <<part, overlayVars, draftVars, replicaVars, revVars, projVars, walkVars, storeVars>>
    \/ /\ part = "open" /\ StoreNext
       /\ UNCHANGED <<part, overlayVars, draftVars, replicaVars, revVars, projVars, queryVars>>

MailSpec == MailInit /\ [][MailNext]_mailVars
=============================================================================
