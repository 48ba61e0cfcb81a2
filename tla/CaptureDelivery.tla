--------------------------- MODULE CaptureDelivery ---------------------------
(***************************************************************************)
(* What the phone and the server promise about a shelf capture, whatever   *)
(* the connection does: the phone lets go of a photo only when the server  *)
(* has had it or the user gives it up, and a capture is filed, with one    *)
(* reading queued for it, only while the server has none of that id.       *)
(***************************************************************************)
EXTENDS Naturals

CONSTANT Captures

VARIABLES
    held,      \* captures the phone still has a record of
    given,     \* captures whose record the user gave up
    moving,    \* captures of which a copy is under way
    stored,    \* captures the server has a row of
    arrived,   \* captures it has ever had a row of
    readings   \* readings queued for each capture

deliveryVars == <<held, given, moving, stored, arrived, readings>>

DeliveryInit ==
    /\ held = {} /\ given = {} /\ moving = {} /\ stored = {} /\ arrived = {}
    /\ readings = [c \in Captures |-> 0]

\* The photo is taken, or a page writes back a record it had loaded.
Hold(c) ==
    /\ held' = held \union {c}
    /\ UNCHANGED <<given, moving, stored, arrived, readings>>

\* A copy leaves the phone; a page may still send a record that has gone
\* since it was loaded.
Send(c) ==
    /\ c \in held \union arrived \union given
    /\ moving' = moving \union {c}
    /\ UNCHANGED <<held, given, stored, arrived, readings>>

\* A copy arrives: it is filed unless one is there.
File(c) ==
    /\ c \in moving \ stored
    /\ stored' = stored \union {c}
    /\ arrived' = arrived \union {c}
    /\ readings' = [readings EXCEPT ![c] = @ + 1]
    /\ moving' \in {moving, moving \ {c}}
    /\ UNCHANGED <<held, given>>

\* A copy is dealt with without a change: known already, rejected, or lost.
Vanish(C) ==
    /\ moving' = moving \ C
    /\ UNCHANGED <<held, given, stored, arrived, readings>>

LetGo(c) ==
    /\ c \in held => c \in arrived
    /\ held' = held \ {c}
    /\ UNCHANGED <<given, moving, stored, arrived, readings>>

GiveUp(c) ==
    /\ held' = held \ {c}
    /\ given' = given \union {c}
    /\ UNCHANGED <<moving, stored, arrived, readings>>

\* The user deletes it on the server.
Remove(c) ==
    /\ stored' = stored \ {c}
    /\ UNCHANGED <<held, given, moving, arrived, readings>>

DeliveryNext ==
    \/ \E c \in Captures :
        \/ Hold(c) \/ Send(c) \/ File(c) \/ LetGo(c)
        \/ GiveUp(c) \/ Remove(c)
    \/ \E C \in SUBSET Captures : Vanish(C)

DeliverySpec == DeliveryInit /\ [][DeliveryNext]_deliveryVars
=============================================================================
