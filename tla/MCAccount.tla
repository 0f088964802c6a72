------------------------------ MODULE MCAccount ------------------------------
(***************************************************************************)
(* An account towards its provider and its configuration, one component at *)
(* a time: a behaviour is one of `part`, the others stand still.           *)
(***************************************************************************)
EXTENDS AccountStatus, JmapSync, ImapSync, PushStream, OAuth, AccountConfig

VARIABLE part

accountVars == <<part, vars, jmapVars, imapVars, pushVars, oauthVars, configVars>>

\* The parts that do not run begin in one state.
AccountInit ==
    /\ part \in {"status", "jmap", "imap", "push", "token", "flow", "config"}
    /\ Init /\ JmapInit /\ ImapInit /\ PushInit /\ OAuthInit /\ ConfigInit
    /\ part # "jmap" => type = "email" /\ cursor = {0}
    /\ part # "imap" => caps = "plain"
    /\ part # "push" => ladder = CHOOSE l \in Ladders : TRUE
    /\ part # "token" => together

AccountNext ==
    \/ /\ part = "status" /\ Next
       /\ UNCHANGED <<part, jmapVars, imapVars, pushVars, oauthVars, configVars>>
    \/ /\ part = "jmap" /\ JmapNext
       /\ UNCHANGED <<part, vars, imapVars, pushVars, oauthVars, configVars>>
    \/ /\ part = "imap" /\ ImapNext
       /\ UNCHANGED <<part, vars, jmapVars, pushVars, oauthVars, configVars>>
    \/ /\ part = "push" /\ PushNext
       /\ UNCHANGED <<part, vars, jmapVars, imapVars, oauthVars, configVars>>
    \/ /\ part = "token" /\ RefreshNext
       /\ UNCHANGED <<part, vars, jmapVars, imapVars, pushVars, flowVars, configVars>>
    \/ /\ part = "flow" /\ FlowNext
       /\ UNCHANGED <<part, vars, jmapVars, imapVars, pushVars, refreshVars, configVars>>
    \/ /\ part = "config" /\ ConfigNext
       /\ UNCHANGED <<part, vars, jmapVars, imapVars, pushVars, oauthVars>>

AccountSpec == AccountInit /\ [][AccountNext]_accountVars
=============================================================================
