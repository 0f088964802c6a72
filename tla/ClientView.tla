----------------------------- MODULE ClientView -----------------------------
(***************************************************************************)
(* What a client is promised of the answer it shows: it reflects the store *)
(* at some moment, never an earlier one than it did before, and it catches *)
(* up once the store is left alone.                                        *)
(***************************************************************************)
EXTENDS Naturals

VARIABLES store,  \* the writes the store holds
          shown   \* the writes the shown answer reflects

viewVars == <<store, shown>>

ViewInit == store = 0 /\ shown = 0

CommitOne == store' = store + 1 /\ UNCHANGED shown

CatchUp == /\ shown' \in (shown + 1) .. store
           /\ UNCHANGED store

ViewNext == CommitOne \/ CatchUp

ViewSafety == ViewInit /\ [][ViewNext]_viewVars
ViewSpec == ViewSafety /\ WF_viewVars(CatchUp)
=============================================================================
