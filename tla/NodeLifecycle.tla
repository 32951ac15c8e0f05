---------------------------- MODULE NodeLifecycle ----------------------------
(***************************************************************************)
(* On what grounds NODE_STATE moves.  This is what the handlers of the     *)
(* context events can keep, and less than main/include/context.h says.     *)
(*                                                                         *)
(* The header defines a state by what the node has: REGULAR "Has WiFi      *)
(* connection, access token and context" (context.h:38), with states for a *)
(* lost connection and for invalid data (context.h:42-50) that nothing     *)
(* ever enters.  The code keeps the credentials and the token: a state     *)
(* that needs them is entered while they are in the flash.  The connection *)
(* and the context it does not: an address, a session, an answer of the    *)
(* server are only known to have been had once in this boot, the answer    *)
(* may not have been stored, and NODE_STATE says REGULAR when they are     *)
(* gone.  So REGULAR here claims no connection and no context.             *)
(*                                                                         *)
(* Each address, session and answer is a reason to enter one state, once.  *)
(* A reason may be lost; it is never used twice.  An address is a reason   *)
(* for VALID_WIFI_CRED whatever the state, which is the step back from     *)
(* REGULAR that a Wi-Fi flap causes.                                       *)
(***************************************************************************)
EXTENDS Naturals

VARIABLES
  NODE_STATE,
  stored,       \* what the flash holds of {"creds", "token"}
  erased,       \* the flash was erased; the node restarts next
  evidence,     \* what was had since boot
  due           \* for each state, the reasons to enter it not yet used or lost

lifeVars == <<NODE_STATE, stored, erased, evidence, due>>

Facts == {"ip", "session", "answer"}

\* The facts that must precede each fact, and the state it is a reason for.
Before(f) == CASE f = "ip"      -> {}
               [] f = "session" -> {"ip"}
               [] f = "answer"  -> {"ip", "session"}

ReasonFor(f) == CASE f = "ip"      -> "VALID_WIFI_CRED"
                  [] f = "session" -> "VALID_TB_TOKEN"
                  [] f = "answer"  -> "REGULAR"

Announced  == {"VALID_WIFI_CRED", "VALID_TB_TOKEN", "REGULAR"}
NodeStates == {"BLANK"} \cup Announced

\* What was had before a state is entered, and what the flash holds then.
Needs(s) == CASE s = "BLANK"           -> {}
              [] s = "VALID_WIFI_CRED" -> {"ip"}
              [] s = "VALID_TB_TOKEN"  -> {"ip", "session"}
              [] s = "REGULAR"         -> {"ip", "session", "answer"}

Keeps(s) == CASE s = "BLANK"           -> {}
              [] s = "VALID_WIFI_CRED" -> {"creds"}
              [] s = "VALID_TB_TOKEN"  -> {"creds", "token"}
              [] s = "REGULAR"         -> {"creds", "token"}

NoReasons == [s \in Announced |-> 0]

Init ==
  /\ NODE_STATE = "BLANK" /\ evidence = {} /\ due = NoReasons
  /\ stored = {} /\ erased = FALSE

Store(c) ==
  /\ ~erased
  /\ stored' = stored \cup {c}
  /\ UNCHANGED <<NODE_STATE, erased, evidence, due>>

\* A fact, for which the flash had what its state keeps, and perhaps its reason.
Learn(f) ==
  /\ Before(f) \subseteq evidence
  /\ erased \/ Keeps(ReasonFor(f)) \subseteq stored
  /\ evidence' = evidence \cup {f}
  /\ due' = due \/ due' = [due EXCEPT ![ReasonFor(f)] = @ + 1]
  /\ UNCHANGED <<NODE_STATE, stored, erased>>

Announce(s) ==
  /\ due[s] > 0
  /\ Needs(s) \subseteq evidence
  /\ erased \/ Keeps(s) \subseteq stored
  /\ NODE_STATE' = s
  /\ due' = [due EXCEPT ![s] = @ - 1]
  /\ UNCHANGED <<stored, erased, evidence>>

Lose(s) ==
  /\ due[s] > 0
  /\ due' = [due EXCEPT ![s] = @ - 1]
  /\ UNCHANGED <<NODE_STATE, stored, erased, evidence>>

\* An erase may leave some of it; the node restarts either way.
Erase ==
  /\ stored' \subseteq stored /\ erased' = TRUE
  /\ UNCHANGED <<NODE_STATE, evidence, due>>

Reboot ==
  /\ NODE_STATE' = "BLANK" /\ evidence' = {} /\ due' = NoReasons
  /\ erased' = FALSE
  /\ UNCHANGED stored

Next ==
  \/ \E c \in {"creds", "token"} : Store(c)
  \/ \E f \in Facts : Learn(f)
  \/ \E s \in Announced : Announce(s) \/ Lose(s)
  \/ Erase \/ Reboot

Spec == Init /\ [][Next]_lifeVars
=============================================================================
