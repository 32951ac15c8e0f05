----------------------------- MODULE TagCommand -----------------------------
(***************************************************************************)
(* What a caller of c_M24SR.h may expect of a command: the tag carries it  *)
(* out at most once, and success means that the tag has carried it out and *)
(* accepted it, with two exceptions: the commands of Unchecked, of which   *)
(* it says no more than that the bus worked, and an answer that was        *)
(* garbled on the bus, where no checksum is looked at.  An error says      *)
(* nothing.                                                                *)
(***************************************************************************)
CONSTANTS
  Commands,
  Effect(_, _),   \* what a command makes of the tag, and whether it accepts it
  Unchecked       \* the commands whose answer the driver does not look at

VARIABLES tag, cmd, stage, accepted, garbled, result

vars == <<tag, cmd, stage, accepted, garbled, result>>

Init == stage = "idle" /\ result = "none" /\ accepted = FALSE /\ garbled = FALSE

Ask(c) ==
  /\ stage = "idle"
  /\ stage' = "asked" /\ cmd' = c /\ result' = "none" /\ accepted' = FALSE
  /\ garbled' = FALSE
  /\ UNCHANGED tag

Execute ==
  /\ stage = "asked"
  /\ stage' = "executed"
  /\ tag' = Effect(tag, cmd).tag /\ accepted' = Effect(tag, cmd).ok
  /\ UNCHANGED <<cmd, garbled, result>>

\* Some bytes of the answer arrive as others.
Garble ==
  /\ stage # "idle"
  /\ garbled' = TRUE
  /\ UNCHANGED <<tag, cmd, stage, accepted, result>>

Return(r) ==
  /\ stage # "idle"
  /\ r = "success" => \/ cmd \in Unchecked \/ garbled
                      \/ stage = "executed" /\ accepted
  /\ stage' = "idle" /\ result' = r
  /\ UNCHANGED <<tag, cmd, accepted, garbled>>

\* The node restarts.
Abandon ==
  /\ stage' = "idle" /\ result' = "none" /\ accepted' = FALSE /\ garbled' = FALSE
  /\ UNCHANGED <<tag, cmd>>

Next ==
  \/ \E c \in Commands : Ask(c)
  \/ Execute \/ Garble
  \/ \E r \in {"success", "error"} : Return(r)
  \/ Abandon

Spec == Init /\ [][Next]_vars
=============================================================================
