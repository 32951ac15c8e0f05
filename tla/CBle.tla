-------------------------------- MODULE CBle --------------------------------
(***************************************************************************)
(* components/c_ble/c_ble.c: the start of the Bluetooth stack by ble_init, *)
(* the GAP and GATT callbacks, which the Bluetooth task runs one after the *)
(* other, and throughput_server_task, which sends notifications and waits  *)
(* on a semaphore when it may not.  The three run in different tasks and   *)
(* share can_send_notify, is_connect and the connection identifier         *)
(* without a lock.                                                         *)
(*                                                                         *)
(* The stack itself and the phone are outside src/.                        *)
(***************************************************************************)
EXTENDS Naturals, FiniteSets

CONSTANTS
  Buffers,    \* packets the stack takes for one connection
  MaxConns    \* bound on the connections

ASSUME BleAssumption == Buffers \in Nat \ {0} /\ MaxConns \in Nat

VARIABLES
  stack,            \* the controller has left its idle state
  initAt,           \* the call of _ble_init that comes next, or "none"
  gatts_semaphore,  \* "null", "taken" or "given"
  gatt,             \* the GATT event the stack has to report next
  reading,          \* a callback reads ble_content: "begun", or "disturbed" by
                    \* another task that used the handle of c_nvs meanwhile
  advertising,      \* "off", "set" (the stack has yet to confirm its data) or "on"
  link,             \* the connection to a phone
  conn_id,          \* gl_profile_tab[PROFILE_A_APP_ID].conn_id; connections are
                    \* numbered through the restarts
  is_connect, can_send_notify,
  giving,           \* the congestion handler is between its two statements
  sender,           \* throughput_server_task: what it does next
  free_buff_num,
  burst             \* history: the connection free_buff_num was asked for

initVars == <<stack, initAt, gatts_semaphore>>
gattVars == <<gatt, reading>>
linkVars == <<link, conn_id, is_connect>>
flagVars == <<can_send_notify, giving>>
sendVars == <<sender, free_buff_num, burst>>
bleVars  == <<initVars, gattVars, advertising, linkVars, flagVars, sendVars>>

NoLink == [state |-> "down", mtu |-> FALSE, sent |-> 0, congested |-> FALSE]

SendAtOnce == TRUE
SendFromStart == FALSE   \* what can_send_notify is initialised with

BleInit ==
  /\ stack = FALSE /\ initAt = "none" /\ gatts_semaphore = "null"
  /\ gatt = "none" /\ reading = "no"
  /\ advertising = "off"
  /\ link = NoLink /\ conn_id = 0 /\ is_connect = FALSE
  /\ can_send_notify = SendFromStart /\ giving = FALSE
  /\ sender = "none" /\ free_buff_num = 0 /\ burst = 0

\* A restart of the node.
BleBoot ==
  /\ stack' = FALSE /\ initAt' = "none" /\ gatts_semaphore' = "null"
  /\ gatt' = "none" /\ reading' = "no"
  /\ advertising' = "off"
  /\ link' = NoLink /\ UNCHANGED conn_id /\ is_connect' = FALSE
  /\ can_send_notify' = SendFromStart /\ giving' = FALSE
  /\ sender' = "none" /\ free_buff_num' = 0 /\ burst' = 0

-----------------------------------------------------------------------------
(* _ble_init, one call at a time, on the task that called ble_init.        *)

(* esp_bt_controller_mem_release: once the controller has left its idle    *)
(* state it refuses, and ESP_ERROR_CHECK aborts, which is a restart, or    *)
(* esp_bt_controller_init refuses after it.                                *)
MemRelease ==
  /\ initAt = "release"
  /\ initAt' = IF stack THEN "failed" ELSE "start"
  /\ UNCHANGED <<stack, gatts_semaphore, gattVars, advertising, linkVars, flagVars, sendVars>>

(* Controller init and enable, bluedroid init and enable.  The first that  *)
(* fails ends it, with the controller initialised or not.                  *)
StartStage(works) ==
  /\ initAt = "start"
  /\ IF works THEN stack' = TRUE /\ initAt' = "register"
              ELSE stack' \in BOOLEAN /\ initAt' = "failed"
  /\ UNCHANGED <<gatts_semaphore, gattVars, advertising, linkVars, flagVars, sendVars>>

\* _register_callbacks: from here on the Bluetooth task runs the callbacks.
RegisterCallbacks(works) ==
  /\ initAt = "register"
  /\ initAt' = IF works THEN "task" ELSE "failed"
  /\ gatt' = IF works THEN "reg" ELSE gatt
  /\ UNCHANGED <<reading, stack, gatts_semaphore, advertising, linkVars, flagVars, sendVars>>

\* Whether the task could be created is not looked at.
CreateSender(works) ==
  /\ initAt = "task" /\ initAt' = "semaphore"
  /\ sender' = IF works THEN "asleep" ELSE sender
  /\ UNCHANGED <<stack, gatts_semaphore, gattVars, advertising, linkVars, flagVars,
                 free_buff_num, burst>>

CreateSemaphore(works) ==
  /\ initAt = "semaphore" /\ initAt' = IF works THEN "done" ELSE "failed"
  /\ gatts_semaphore' = IF works THEN "taken" ELSE gatts_semaphore
  /\ UNCHANGED <<stack, gattVars, advertising, linkVars, flagVars, sendVars>>

InitStep(works) ==
  \/ StartStage(works) \/ RegisterCallbacks(works)
  \/ CreateSender(works) \/ CreateSemaphore(works)

-----------------------------------------------------------------------------
(* The callbacks.                                                          *)

BtTaskFree == ~giving /\ reading = "no"

HasChar == gatt = "done"   \* char_handle is set

CanBeRead == HasChar /\ link.state = "up" /\ link.sent < Buffers /\ BtTaskFree

(* ESP_GATTS_REG_EVT and ESP_GATTS_READ_EVT ask for the name and for the   *)
(* content, which set_ble_name and set_ble_content read from flash in      *)
(* several steps (CNvs).                                                   *)
ReadBegins ==
  /\ (gatt = "reg" /\ BtTaskFree) \/ CanBeRead
  /\ reading' = "begun"
  /\ UNCHANGED <<initVars, gatt, advertising, linkVars, flagVars, sendVars>>

\* Another task opens, closes or erases what the callback is reading.
Disturbs == reading' = IF reading = "no" THEN "no" ELSE "disturbed"

\* The rest of ESP_GATTS_REG_EVT.
Registered ==
  /\ gatt = "reg" /\ reading # "no" /\ reading' = "no"
  /\ gatt' = "create"
  /\ advertising' = "set"
  /\ UNCHANGED <<initVars, linkVars, flagVars, sendVars>>

(* The rest of ESP_GATTS_READ_EVT.  Meanwhile the link may have gone, or   *)
(* the sending task may have filled it.                                    *)
Responds ==
  /\ HasChar /\ reading # "no" /\ reading' = "no"
  /\ link' = IF link.state = "up" /\ link.sent < Buffers
             THEN [link EXCEPT !.sent = @ + 1] ELSE link
  /\ UNCHANGED <<initVars, gatt, advertising, conn_id, is_connect, flagVars, sendVars>>

\* gatts_event_handler: a registration that failed goes no further.
NotRegistered ==
  /\ gatt = "reg" /\ BtTaskFree
  /\ gatt' = "none"
  /\ UNCHANGED <<reading, initVars, advertising, linkVars, flagVars, sendVars>>

\* ESP_GATTS_CREATE_EVT and _ADD_CHAR_EVT; what comes after only logs.
GattBuilds ==
  /\ gatt \in {"create", "char"} /\ BtTaskFree
  /\ gatt' = IF gatt = "create" THEN "char" ELSE "done"
  /\ UNCHANGED <<reading, initVars, advertising, linkVars, flagVars, sendVars>>

(* gap_event_handler: the second of the two confirmations clears the last  *)
(* flag of adv_config_done.  A configuration the stack refused is not      *)
(* confirmed, and the node never advertises.                               *)
DataConfirmed ==
  /\ advertising = "set" /\ BtTaskFree
  /\ advertising' = "on"
  /\ UNCHANGED <<initVars, gattVars, linkVars, flagVars, sendVars>>

(* ESP_GATTS_CONNECT_EVT.  The stack stops advertising.  No phone is quick *)
(* enough to connect before _ble_init, which never waits, has returned.    *)
Connects ==
  /\ gatts_semaphore # "null" \/ initAt \in {"done", "failed"}
  /\ advertising = "on" /\ link.state = "down" /\ conn_id < MaxConns /\ BtTaskFree
  /\ advertising' = "off"
  /\ link' = [NoLink EXCEPT !.state = "up"]
  /\ conn_id' = conn_id + 1
  /\ UNCHANGED <<initVars, gattVars, is_connect, flagVars, sendVars>>

\* ESP_GATTS_MTU_EVT.
MtuSet ==
  /\ link.state = "up" /\ ~link.mtu /\ BtTaskFree
  /\ link' = [link EXCEPT !.mtu = TRUE]
  /\ is_connect' = TRUE
  /\ UNCHANGED <<initVars, gattVars, advertising, conn_id, flagVars, sendVars>>

\* The link is lost; the event comes later, and no other of this link.
LinkLost ==
  /\ link.state = "up"
  /\ link' = [link EXCEPT !.state = "lost"]
  /\ UNCHANGED <<initVars, gattVars, advertising, conn_id, is_connect, flagVars, sendVars>>

\* ESP_GATTS_DISCONNECT_EVT.
Disconnected ==
  /\ link.state = "lost" /\ BtTaskFree
  /\ link' = NoLink /\ is_connect' = FALSE
  /\ advertising' = "on"
  /\ UNCHANGED <<initVars, gattVars, conn_id, flagVars, sendVars>>

\* ESP_GATTS_CONGEST_EVT.  There is congestion only where something was sent.
Congested ==
  /\ link.state = "up" /\ link.sent > 0 /\ ~link.congested /\ BtTaskFree
  /\ link' = [link EXCEPT !.congested = TRUE]
  /\ can_send_notify' = FALSE
  /\ UNCHANGED <<initVars, gattVars, advertising, conn_id, is_connect, giving, sendVars>>

(* The congestion is over: the flag is set and the semaphore given, and    *)
(* the sending task may run in between.                                    *)
GivesThenSets == <<"give", "set">>
UncongestedOrder == <<"set", "give">>

UncongestedDoes(what) ==
  CASE what = "set"  -> can_send_notify' = TRUE /\ UNCHANGED gatts_semaphore
    [] what = "give" -> /\ gatts_semaphore # "null" /\ gatts_semaphore' = "given"
                        /\ UNCHANGED can_send_notify

Uncongested ==
  /\ link.state = "up" /\ link.congested /\ BtTaskFree
  /\ link' = [link EXCEPT !.congested = FALSE, !.sent = 0]
  /\ giving' = TRUE
  /\ UncongestedDoes(UncongestedOrder[1])
  /\ UNCHANGED <<stack, initAt, gattVars, advertising, conn_id, is_connect, sendVars>>

UncongestedEnds ==
  /\ giving /\ giving' = FALSE
  /\ UncongestedDoes(UncongestedOrder[2])
  /\ UNCHANGED <<stack, initAt, gattVars, advertising, linkVars, sendVars>>

\* Giving a semaphore that was never created fails an assertion of FreeRTOS.
GivesNull == giving /\ gatts_semaphore = "null"

\* The air takes what was sent.
Drained ==
  /\ link.state = "up" /\ link.sent > 0 /\ ~link.congested
  /\ link' = [link EXCEPT !.sent = 0]
  /\ UNCHANGED <<initVars, gattVars, advertising, conn_id, is_connect, flagVars, sendVars>>

BtTask ==
  \/ ReadBegins \/ NotRegistered \/ GattBuilds \/ DataConfirmed
  \/ Connects \/ MtuSet \/ LinkLost \/ Disconnected
  \/ Congested \/ Uncongested \/ UncongestedEnds \/ Drained

-----------------------------------------------------------------------------
(* throughput_server_task.                                                 *)

SenderGoes(next) ==
  /\ sender' = next
  /\ UNCHANGED <<initVars, gattVars, advertising, linkVars, flagVars>>

SenderWakesAtOnce ==
  /\ sender = "asleep"
  /\ SenderGoes("check") /\ UNCHANGED <<free_buff_num, burst>>

(* The two seconds are over; ble_init, which runs at a higher priority,    *)
(* has returned long before.                                               *)
SenderWakes ==
  /\ sender = "asleep" /\ initAt \in {"none", "done", "failed"}
  /\ SenderGoes("check") /\ UNCHANGED <<free_buff_num, burst>>

SenderChecks ==
  /\ sender = "check"
  /\ SenderGoes(IF can_send_notify THEN "ask" ELSE "take")
  /\ UNCHANGED <<free_buff_num, burst>>

SenderTakes ==
  /\ sender = "take" /\ gatts_semaphore = "given"
  /\ gatts_semaphore' = "taken" /\ sender' = "check"
  /\ UNCHANGED <<stack, initAt, gattVars, advertising, linkVars, flagVars, free_buff_num, burst>>

TakesNull == sender = "take" /\ gatts_semaphore = "null"

Sendable == IF link.state = "up" /\ ~link.congested THEN Buffers - link.sent ELSE 0

SenderAsks ==
  /\ sender = "ask"
  /\ IF is_connect
     THEN /\ free_buff_num' = Sendable
          /\ burst' = IF Sendable > 0 THEN conn_id ELSE 0
          /\ SenderGoes(IF Sendable > 0 THEN "send" ELSE "check")
     ELSE SenderGoes("check") /\ UNCHANGED <<free_buff_num, burst>>

\* esp_ble_gatts_send_indicate, to whatever connection there is by now.
SenderSends ==
  /\ sender = "send"
  /\ free_buff_num' = free_buff_num - 1
  /\ sender' = IF free_buff_num = 1 THEN "check" ELSE "send"
  /\ burst' = IF free_buff_num = 1 THEN 0 ELSE burst
  /\ link' = IF link.state = "up" /\ link.sent < Buffers
             THEN [link EXCEPT !.sent = @ + 1] ELSE link
  /\ UNCHANGED <<initVars, gattVars, advertising, conn_id, is_connect, flagVars>>

SenderTask ==
  SenderWakes \/ SenderChecks \/ SenderTakes \/ SenderAsks \/ SenderSends

-----------------------------------------------------------------------------
BleTypeOK ==
  /\ stack \in BOOLEAN
  /\ initAt \in {"none", "release", "start", "register", "task", "semaphore", "done",
                 "failed"}
  /\ gatts_semaphore \in {"null", "taken", "given"}
  /\ gatt \in {"none", "reg", "create", "char", "done"}
  /\ reading \in {"no", "begun", "disturbed"}
  /\ advertising \in {"off", "set", "on"}
  /\ link \in [state : {"down", "up", "lost"}, mtu : BOOLEAN, sent : 0..Buffers,
               congested : BOOLEAN]
  /\ conn_id \in 0..MaxConns /\ is_connect \in BOOLEAN
  /\ can_send_notify \in BOOLEAN /\ giving \in BOOLEAN
  /\ sender \in {"none", "asleep", "check", "take", "ask", "send"}
  /\ free_buff_num \in 0..Buffers /\ burst \in 0..MaxConns

(* The sending task never sleeps on the semaphore when it may send, except *)
(* between the two statements of the congestion handler that set the flag  *)
(* and give the semaphore (c_ble.c:291).                                   *)
NoLostWakeup ==
  sender = "take" /\ can_send_notify /\ ~giving => gatts_semaphore = "given"

(* What the sending task sends carries the handle of a characteristic that *)
(* exists, although nothing orders the two: the flag it waits for is set   *)
(* only when something was sent before, which takes a characteristic to    *)
(* read.  And it goes to a connection whose MTU was agreed, or to one that *)
(* was opened while the task was sending to an earlier one.                *)
SendsAreAddressed ==
  sender = "send" =>
    /\ HasChar
    /\ link.state = "up" /\ ~link.mtu => burst < conn_id
=============================================================================
