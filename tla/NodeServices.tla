---------------------------- MODULE NodeServices ----------------------------
(***************************************************************************)
(* The node in operation: init_when_context_ready starts Bluetooth and     *)
(* writes the tag whenever the context is ready, sys_evt handles what the  *)
(* server sends, the Bluetooth task and the sending task run CBle, and all *)
(* of them meet in the flash, in the event loop and in the heap.  A panic  *)
(* of any task restarts the node, as a power cut does: Restart, which may  *)
(* come at any step.                                                       *)
(***************************************************************************)
EXTENDS CBle, Downlink

VARIABLES
  handler,     \* what sys_evt is in: "idle" or "regular"
  provoked     \* history of this boot: what may crash the node

vars == <<bleVars, downVars, handler, provoked>>

(* What may crash the node.  "document": the flash has no ble_content with *)
(* a name and a content although it may be read, or was erased; "memory":  *)
(* a task or a semaphore could not be created.                             *)
Provoke(whys) == provoked' = provoked \cup whys

\* The document a callback may read from now on.
Documented == Provoke(IF ble_content' = "complete" /\ flashOpen' THEN {} ELSE {"document"})

Init ==
  /\ BleInit /\ DownInit
  /\ handler = "idle" /\ provoked = {}

\* init_when_context_ready, as far as the call of ble_init.
OnRegular ==
  /\ handler = "idle" /\ IsNext("CTX_REGULAR")
  /\ loop' = Tail(loop)
  /\ handler' = "regular" /\ initAt' = "release"
  /\ UNCHANGED <<stack, gatts_semaphore, gattVars, advertising, linkVars, flagVars, sendVars,
                 serverVars, storeVars, tag, doubt>>
  /\ Documented

BleInitGoesOn ==
  /\ handler = "regular"
  /\ \/ MemRelease /\ UNCHANGED provoked
     \/ \E works \in BOOLEAN : InitStep(works) /\ Provoke(IF works THEN {} ELSE {"memory"})
  /\ UNCHANGED <<downVars, handler>>

\* The Bluetooth task may be reading, or begin to.
MayRead == gatt \in {"reg", "done"}

\* Whether ble_init worked is only logged.
RegularEnds ==
  /\ handler = "regular" /\ initAt \in {"done", "failed"}
  /\ \E disturbed \in {FALSE, MayRead} : ContentFromNvs(disturbed)
  /\ handler' = "idle" /\ Disturbs
  /\ UNCHANGED <<initVars, gatt, advertising, linkVars, flagVars, sendVars,
                 loop, serverVars, storeVars, provoked>>

(* An answer that leaves the flash without a complete ble_content is a     *)
(* provocation of its own: the content is read again for every phone.  The *)
(* attributes of the tag read its password from flash, or write it.        *)
HandlesData ==
  /\ handler = "idle"
  /\ \/ OnAnswer /\ Documented /\ Disturbs
     \/ OnContentUpdate /\ UNCHANGED provoked /\ Disturbs
     \/ OnOtherUpdate /\ UNCHANGED provoked /\ Disturbs
     \/ OnFirmware /\ UNCHANGED <<provoked, reading>>
  /\ UNCHANGED <<initVars, gatt, advertising, linkVars, flagVars, sendVars, handler>>

\* On a new connection start_mqtt_handler reads the address and the token.
Reconnects ==
  /\ handler = "idle" /\ reading # "no" /\ Disturbs
  /\ UNCHANGED <<initVars, gatt, advertising, linkVars, flagVars, sendVars,
                 downVars, handler, provoked>>

SysEvt == OnRegular \/ BleInitGoesOn \/ RegularEnds \/ HandlesData \/ Reconnects

(* What set_ble_name and set_ble_content make of a read whose result they  *)
(* do not look at: a field that is not there is dereferenced.  An          *)
(* incomplete document may have a name all the same; a disturbed read may  *)
(* have found its document or not.                                         *)
BtTaskReads ==
  /\ Registered \/ ((BleContentFound \/ reading = "disturbed") /\ Responds)
  /\ UNCHANGED <<downVars, handler, provoked>>

Others ==
  \/ (BtTask \/ SenderTask) /\ UNCHANGED <<downVars, handler, provoked>>
  \/ Server /\ UNCHANGED <<bleVars, handler, provoked>>
  \/ /\ Erase /\ Documented /\ Disturbs
     /\ UNCHANGED <<initVars, gatt, advertising, linkVars, flagVars, sendVars, handler>>

\* After a panic, a power cut or the factory reset.
Restart ==
  /\ BleBoot /\ DownBoot(handler # "idle")
  /\ handler' = "idle" /\ provoked' = {}

Next == SysEvt \/ BtTaskReads \/ Others \/ Restart

Spec == Init /\ [][Next]_vars

-----------------------------------------------------------------------------
(* Every variable has its type, and while _ble_init runs sys_evt runs      *)
(* nothing else.                                                           *)
ServicesTypeOK ==
  /\ BleTypeOK /\ DownTypeOK
  /\ handler \in {"idle", "regular"} /\ provoked \subseteq {"document", "memory"}
  /\ handler = "idle" => initAt \in {"none", "done", "failed"}

(* When nothing is under way, the tag has the content the server has,      *)
(* whichever of the two ways it came (mqtt_handler.c:50,73) and whatever   *)
(* restarts and other messages came in between: unless an event was lost,  *)
(* a write to the tag failed, the flash did not take the last answer, or a *)
(* change overtook an answer that was still to be written from flash.      *)
Quiet == loop = <<>> /\ handler = "idle"
TagHasLatestContent == Quiet /\ server # 0 /\ doubt = {} => tag = server

(* No task is about to give or take the semaphore of c_ble before ble_init *)
(* has made it, whichever of them is ahead, unless in this boot something  *)
(* could not be created (c_ble.c:292, 428).  And a callback that reads     *)
(* ble_content finds a document unless in this boot it was incomplete or   *)
(* erased.  That is not enough to keep the node up: when another task uses *)
(* the flash in the middle, the read may still find nothing, and as its    *)
(* result is not looked at, nothing is dereferenced (ble_handler.c:12,     *)
(* 25).                                                                    *)
CrashIsProvoked ==
  /\ GivesNull \/ TakesNull => "memory" \in provoked
  /\ reading = "begun" /\ ~BleContentFound => "document" \in provoked
=============================================================================
