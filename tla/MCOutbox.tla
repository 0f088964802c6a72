------------------------------ MODULE MCOutbox ------------------------------
(***************************************************************************)
(* Small instances of Outbox for TLC.                                      *)
(***************************************************************************)
EXTENDS Outbox, TLC

CONSTANTS s1, w1, w2, a1, a2, d1, c1, c2, m1, k1

\* API commands are interchangeable.
ClientSymmetry == Permutations(Clients)

\* One send and a save of the draft it consumes.
SendOps == {s1, w1}
SendKinds == s1 :> "Send" @@ w1 :> "DraftCreate"
SendEntities == s1 :> m1 @@ w1 :> k1
SendDrafts == s1 :> k1 @@ w1 :> NoKey

\* One send alone, for the race of two retries.
LoneOps == {s1}
LoneKinds == s1 :> "Send"
LoneEntities == s1 :> m1
LoneDrafts == s1 :> NoKey

\* One send and an assertion about the message it leaves behind, which the
\* send registry resolves once the sent copy is adopted, and a later assertion.
AssertOps == {s1, a1, a2}
AssertKinds == s1 :> "Send" @@ a1 :> "SetKeywords" @@ a2 :> "Destroy"
AssertEntities == [o \in AssertOps |-> m1]
AssertDrafts == [o \in AssertOps |-> NoKey]

\* A draft saved twice and deleted.
DraftOps == {w1, w2, d1}
DraftKinds == w1 :> "DraftCreate" @@ w2 :> "DraftUpdate" @@ d1 :> "DraftDelete"
DraftEntities == [o \in DraftOps |-> k1]
DraftDrafts == [o \in DraftOps |-> NoKey]
=============================================================================
