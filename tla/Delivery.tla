------------------------------ MODULE Delivery ------------------------------
(***************************************************************************)
(* What a user is promised of the operations an account queues: nothing is *)
(* sent more often than asked for, what was reported is final until it is  *)
(* asked for again, a message called off is not sent afterwards, and one   *)
(* reported as sent was taken by the provider.                             *)
(***************************************************************************)
EXTENDS Naturals

CONSTANTS Orders,  \* the operations
          Mail     \* those that must be taken once at most: the sends

VARIABLES asked,  \* how often the user asked for each
          taken,  \* how often the provider took it
          told    \* what was reported of it

deliveryVars == <<asked, taken, told>>

DeliveryInit == /\ asked = [o \in Orders |-> 0] /\ taken = [o \in Orders |-> 0]
                /\ told = [o \in Orders |-> "open"]

\* Asking again reopens what was reported; asking while it is still under way
\* may leave its reports in doubt.
Ask(o) == /\ asked' = [asked EXCEPT ![o] = @ + 1]
          /\ \/ UNCHANGED told
             \/ told[o] # "raced" /\ told' \in {[told EXCEPT ![o] = r] : r \in {"open", "raced"}}
          /\ UNCHANGED taken

Take(o) == /\ o \in Mail /\ told[o] \in {"open", "raced"} /\ taken[o] < asked[o]
           /\ taken' = [taken EXCEPT ![o] = @ + 1]
           /\ UNCHANGED <<asked, told>>

Report(o) == /\ told[o] = "open" /\ asked[o] > 0
             /\ o \in Mail => taken[o] > 0
             /\ told' = [told EXCEPT ![o] = "settled"]
             /\ UNCHANGED <<asked, taken>>

CallOff(o) == /\ told[o] = "open" /\ asked[o] > 0
              /\ told' = [told EXCEPT ![o] = "discarded"]
              /\ UNCHANGED <<asked, taken>>

DeliveryNext == \E o \in Orders : Ask(o) \/ Take(o) \/ Report(o) \/ CallOff(o)

DeliverySpec == DeliveryInit /\ [][DeliveryNext]_deliveryVars
=============================================================================
