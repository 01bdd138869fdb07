-------------------------- MODULE CaptureDelivery --------------------------
(***************************************************************************)
(* What the offline field queue promises, whatever it does inside          *)
(* (apps/web/src/lib/field/queue.ts:15-22): a capture is held on the       *)
(* device until the server holds it, it lands at most once, and it lands   *)
(* eventually.  FieldQueue is shown to implement this module.              *)
(***************************************************************************)
CONSTANT Captures   \* the reads and skips a device may ever record

VARIABLES
  held,     \* captures in the device's durable store
  stored    \* captures the server has recorded

vars == <<held, stored>>

TypeOK == held \subseteq Captures /\ stored \subseteq Captures

Init == held = {} /\ stored = {}

\* The device writes captures down.  A capture already stored may be written
\* again: a late local write about it is harmless.
Hold(S) == held' = held \cup S /\ UNCHANGED stored

\* The server records a capture the device holds, once.
Land(c) ==
  /\ c \in held \ stored
  /\ stored' = stored \cup {c}
  /\ UNCHANGED held

\* The device drops its copy, only of what the server has.
Forget(c) ==
  /\ c \in held \cap stored
  /\ held' = held \ {c}
  /\ UNCHANGED stored

Next ==
  \/ \E S \in SUBSET Captures : Hold(S)
  \/ \E c \in Captures : Land(c) \/ Forget(c)

Safety == Init /\ [][Next]_vars

Spec == Safety /\ \A c \in Captures : WF_vars(Land(c))
=============================================================================
