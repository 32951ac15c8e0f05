-------------------------- MODULE NodeServicesProofs --------------------------
(***************************************************************************)
(* What the services of the node keep for any sizes of the queue and of    *)
(* the buffers, and however many phones, messages and restarts there are:  *)
(* types, the order in which c_ble starts, its semaphore, what it sends,   *)
(* and why it can crash.                                                   *)
(***************************************************************************)
EXTENDS NodeServices, TLAPS

-----------------------------------------------------------------------------
(* The inductive invariant of CBle.                                        *)

\* Nothing has been set up since the restart.
Fresh ==
  /\ sender = "none" /\ gatts_semaphore = "null" /\ gatt = "none"
  /\ advertising = "off" /\ link = NoLink /\ ~giving /\ ~can_send_notify

\* What the stages of _ble_init have behind them.
InitOrder ==
  /\ ~stack => Fresh
  /\ initAt \in {"none", "start"} => ~stack
  /\ initAt = "register" => Fresh
  /\ initAt \in {"task", "semaphore"} =>
       gatts_semaphore = "null" /\ link = NoLink /\ ~giving /\ ~can_send_notify
  /\ initAt = "task" => sender = "none"
  /\ initAt = "semaphore" => sender \in {"none", "asleep"}
  /\ initAt \in {"register", "task", "semaphore", "done"} => stack
  /\ initAt = "done" => gatts_semaphore # "null"

\* There is nothing to send, and no congestion, before the characteristic exists.
CharFirst ==
  link.sent > 0 \/ link.congested \/ can_send_notify \/ sender \in {"ask", "send"} => HasChar

\* What the flags and the sending task know of the connection.
LinkKnown ==
  /\ is_connect => link.mtu /\ link.state # "down"
  /\ burst <= conn_id
  /\ sender = "send" =>
       /\ free_buff_num > 0
       /\ burst = conn_id /\ link.state = "up" => link.mtu

BleInd ==
  /\ BleTypeOK
  /\ InitOrder /\ CharFirst /\ LinkKnown /\ NoLostWakeup

Links == [state : {"down", "up", "lost"}, mtu : BOOLEAN, sent : 0..Buffers,
          congested : BOOLEAN]

LEMMA NoLinkFields ==
  /\ NoLink \in Links
  /\ NoLink.state = "down" /\ NoLink.sent = 0 /\ ~NoLink.congested /\ ~NoLink.mtu
BY BleAssumption DEF NoLink, Links

LEMMA FlagThenSemaphore ==
  /\ UncongestedDoes(UncongestedOrder[1]) => can_send_notify' = TRUE /\ UNCHANGED gatts_semaphore
  /\ UncongestedDoes(UncongestedOrder[2]) =>
       gatts_semaphore # "null" /\ gatts_semaphore' = "given" /\ UNCHANGED can_send_notify
<1>1. UncongestedOrder[1] = "set" /\ UncongestedOrder[2] = "give"
  BY DEF UncongestedOrder
<1>2. QED BY <1>1 DEF UncongestedDoes

LEMMA MemReleaseKeeps ==
  ASSUME BleInd, MemRelease
  PROVE  BleInd'
BY BleAssumption
   DEF MemRelease, BleInd, BleTypeOK, InitOrder, CharFirst, LinkKnown, NoLostWakeup, Fresh, NoLink,
       HasChar, BtTaskFree, CanBeRead, SenderGoes, Sendable, UncongestedDoes,
       UncongestedOrder, initVars, gattVars, linkVars, flagVars, sendVars

LEMMA StartStageKeeps ==
  ASSUME BleInd, NEW w \in BOOLEAN, StartStage(w)
  PROVE  BleInd'
BY BleAssumption
   DEF StartStage, BleInd, BleTypeOK, InitOrder, CharFirst, LinkKnown, NoLostWakeup, Fresh, NoLink,
       HasChar, BtTaskFree, CanBeRead, SenderGoes, Sendable, UncongestedDoes,
       UncongestedOrder, initVars, gattVars, linkVars, flagVars, sendVars

LEMMA RegisterCallbacksKeeps ==
  ASSUME BleInd, NEW w \in BOOLEAN, RegisterCallbacks(w)
  PROVE  BleInd'
<1>1. BleTypeOK'
  BY BleAssumption, NoLinkFields DEF RegisterCallbacks, initVars, gattVars, linkVars, flagVars, sendVars, BtTaskFree, BleInd, BleTypeOK
<1>2. InitOrder'
  BY BleAssumption, NoLinkFields DEF RegisterCallbacks, initVars, gattVars, linkVars, flagVars, sendVars, BtTaskFree, BleInd, BleTypeOK, InitOrder, Fresh
<1>3. CharFirst'
  BY BleAssumption, NoLinkFields DEF RegisterCallbacks, initVars, gattVars, linkVars, flagVars, sendVars, BtTaskFree, BleInd, BleTypeOK, InitOrder, CharFirst, Fresh, HasChar
<1>4. LinkKnown'
  BY BleAssumption, NoLinkFields DEF RegisterCallbacks, initVars, gattVars, linkVars, flagVars, sendVars, BtTaskFree, BleInd, BleTypeOK, InitOrder, LinkKnown, Fresh
<1>5. NoLostWakeup'
  BY BleAssumption, NoLinkFields DEF RegisterCallbacks, initVars, gattVars, linkVars, flagVars, sendVars, BtTaskFree, BleInd, BleTypeOK, InitOrder, NoLostWakeup, Fresh
<1>6. QED BY <1>1, <1>2, <1>3, <1>4, <1>5 DEF BleInd

LEMMA CreateSenderKeeps ==
  ASSUME BleInd, NEW w \in BOOLEAN, CreateSender(w)
  PROVE  BleInd'
<1>1. BleTypeOK'
  BY BleAssumption, NoLinkFields DEF CreateSender, initVars, gattVars, linkVars, flagVars, sendVars, BtTaskFree, BleInd, BleTypeOK
<1>2. InitOrder'
  BY BleAssumption, NoLinkFields DEF CreateSender, initVars, gattVars, linkVars, flagVars, sendVars, BtTaskFree, BleInd, BleTypeOK, InitOrder, Fresh
<1>3. CharFirst'
  BY BleAssumption, NoLinkFields DEF CreateSender, initVars, gattVars, linkVars, flagVars, sendVars, BtTaskFree, BleInd, BleTypeOK, InitOrder, CharFirst, Fresh, HasChar
<1>4. LinkKnown'
  BY BleAssumption, NoLinkFields DEF CreateSender, initVars, gattVars, linkVars, flagVars, sendVars, BtTaskFree, BleInd, BleTypeOK, InitOrder, LinkKnown, Fresh
<1>5. NoLostWakeup'
  BY BleAssumption, NoLinkFields DEF CreateSender, initVars, gattVars, linkVars, flagVars, sendVars, BtTaskFree, BleInd, BleTypeOK, InitOrder, NoLostWakeup, Fresh
<1>6. QED BY <1>1, <1>2, <1>3, <1>4, <1>5 DEF BleInd

LEMMA CreateSemaphoreKeeps ==
  ASSUME BleInd, NEW w \in BOOLEAN, CreateSemaphore(w)
  PROVE  BleInd'
<1>1. BleTypeOK'
  BY BleAssumption, NoLinkFields DEF CreateSemaphore, initVars, gattVars, linkVars, flagVars, sendVars, BtTaskFree, BleInd, BleTypeOK
<1>2. InitOrder'
  BY BleAssumption, NoLinkFields DEF CreateSemaphore, initVars, gattVars, linkVars, flagVars, sendVars, BtTaskFree, BleInd, BleTypeOK, InitOrder, Fresh
<1>3. CharFirst'
  BY BleAssumption, NoLinkFields DEF CreateSemaphore, initVars, gattVars, linkVars, flagVars, sendVars, BtTaskFree, BleInd, BleTypeOK, InitOrder, CharFirst, Fresh, HasChar
<1>4. LinkKnown'
  BY BleAssumption, NoLinkFields DEF CreateSemaphore, initVars, gattVars, linkVars, flagVars, sendVars, BtTaskFree, BleInd, BleTypeOK, InitOrder, LinkKnown, Fresh
<1>5. NoLostWakeup'
  BY BleAssumption, NoLinkFields DEF CreateSemaphore, initVars, gattVars, linkVars, flagVars, sendVars, BtTaskFree, BleInd, BleTypeOK, InitOrder, NoLostWakeup, Fresh
<1>6. QED BY <1>1, <1>2, <1>3, <1>4, <1>5 DEF BleInd

LEMMA ReadBeginsKeeps ==
  ASSUME BleInd, ReadBegins
  PROVE  BleInd'
BY BleAssumption
   DEF ReadBegins, BleInd, BleTypeOK, InitOrder, CharFirst, LinkKnown, NoLostWakeup, Fresh, NoLink,
       HasChar, BtTaskFree, CanBeRead, SenderGoes, Sendable, UncongestedDoes,
       UncongestedOrder, initVars, gattVars, linkVars, flagVars, sendVars

(* What a task that uses the flash does to the Bluetooth task.             *)
OnlyDisturbs ==
  Disturbs /\ UNCHANGED <<initVars, gatt, advertising, linkVars, flagVars, sendVars>>

LEMMA OnlyDisturbsKeeps ==
  ASSUME BleInd, OnlyDisturbs
  PROVE  BleInd'
<1>1. reading' \in {"no", "begun", "disturbed"}
  BY DEF OnlyDisturbs, Disturbs
<1>2. UNCHANGED <<initVars, gatt, advertising, linkVars, flagVars, sendVars>>
  BY DEF OnlyDisturbs
<1>3. QED BY <1>1, <1>2
          DEF BleInd, BleTypeOK, InitOrder, CharFirst, LinkKnown, NoLostWakeup, Fresh, HasChar,
              initVars, linkVars, flagVars, sendVars

LEMMA RegisteredKeeps ==
  ASSUME BleInd, Registered
  PROVE  BleInd'
BY BleAssumption
   DEF Registered, BleInd, BleTypeOK, InitOrder, CharFirst, LinkKnown, NoLostWakeup, Fresh, NoLink,
       HasChar, BtTaskFree, CanBeRead, SenderGoes, Sendable, UncongestedDoes,
       UncongestedOrder, initVars, gattVars, linkVars, flagVars, sendVars

LEMMA NotRegisteredKeeps ==
  ASSUME BleInd, NotRegistered
  PROVE  BleInd'
BY BleAssumption
   DEF NotRegistered, BleInd, BleTypeOK, InitOrder, CharFirst, LinkKnown, NoLostWakeup, Fresh, NoLink,
       HasChar, BtTaskFree, CanBeRead, SenderGoes, Sendable, UncongestedDoes,
       UncongestedOrder, initVars, gattVars, linkVars, flagVars, sendVars

LEMMA GattBuildsKeeps ==
  ASSUME BleInd, GattBuilds
  PROVE  BleInd'
BY BleAssumption
   DEF GattBuilds, BleInd, BleTypeOK, InitOrder, CharFirst, LinkKnown, NoLostWakeup, Fresh, NoLink,
       HasChar, BtTaskFree, CanBeRead, SenderGoes, Sendable, UncongestedDoes,
       UncongestedOrder, initVars, gattVars, linkVars, flagVars, sendVars

LEMMA DataConfirmedKeeps ==
  ASSUME BleInd, DataConfirmed
  PROVE  BleInd'
BY BleAssumption
   DEF DataConfirmed, BleInd, BleTypeOK, InitOrder, CharFirst, LinkKnown, NoLostWakeup, Fresh, NoLink,
       HasChar, BtTaskFree, CanBeRead, SenderGoes, Sendable, UncongestedDoes,
       UncongestedOrder, initVars, gattVars, linkVars, flagVars, sendVars

LEMMA ConnectsKeeps ==
  ASSUME BleInd, Connects
  PROVE  BleInd'
<1>1. BleTypeOK'
  <2>1. link \in Links
    BY DEF BleInd, BleTypeOK, Links
  <2>2. link' \in Links
    BY BleAssumption, NoLinkFields, <2>1 DEF Connects, linkVars, Links
  <2>3. QED
    BY BleAssumption, NoLinkFields, FlagThenSemaphore, <2>2
       DEF Connects, initVars, gattVars, linkVars, flagVars, sendVars, BleInd, BleTypeOK, Links
<1>2. InitOrder'
  BY BleAssumption, NoLinkFields, FlagThenSemaphore DEF Connects, initVars, gattVars, linkVars, flagVars, sendVars, BtTaskFree, BleInd, BleTypeOK, InitOrder, Fresh
<1>3. CharFirst'
  BY BleAssumption, NoLinkFields, FlagThenSemaphore DEF Connects, initVars, gattVars, linkVars, flagVars, sendVars, BtTaskFree, BleInd, BleTypeOK, InitOrder, CharFirst, Fresh, HasChar
<1>4. LinkKnown'
  BY BleAssumption, NoLinkFields, FlagThenSemaphore DEF Connects, initVars, gattVars, linkVars, flagVars, sendVars, BtTaskFree, BleInd, BleTypeOK, InitOrder, LinkKnown, Fresh
<1>5. NoLostWakeup'
  BY BleAssumption, NoLinkFields, FlagThenSemaphore DEF Connects, initVars, gattVars, linkVars, flagVars, sendVars, BtTaskFree, BleInd, BleTypeOK, InitOrder, NoLostWakeup, Fresh
<1>6. QED BY <1>1, <1>2, <1>3, <1>4, <1>5 DEF BleInd

LEMMA MtuSetKeeps ==
  ASSUME BleInd, MtuSet
  PROVE  BleInd'
<1>1. BleTypeOK'
  <2>1. link \in Links
    BY DEF BleInd, BleTypeOK, Links
  <2>2. link' \in Links
    BY BleAssumption, NoLinkFields, <2>1 DEF MtuSet, linkVars, Links
  <2>3. QED
    BY BleAssumption, NoLinkFields, FlagThenSemaphore, <2>2
       DEF MtuSet, initVars, gattVars, linkVars, flagVars, sendVars, BleInd, BleTypeOK, Links
<1>2. InitOrder'
  BY BleAssumption, NoLinkFields, FlagThenSemaphore DEF MtuSet, initVars, gattVars, linkVars, flagVars, sendVars, BtTaskFree, BleInd, BleTypeOK, InitOrder, Fresh
<1>3. CharFirst'
  BY BleAssumption, NoLinkFields, FlagThenSemaphore DEF MtuSet, initVars, gattVars, linkVars, flagVars, sendVars, BtTaskFree, BleInd, BleTypeOK, InitOrder, CharFirst, Fresh, HasChar
<1>4. LinkKnown'
  BY BleAssumption, NoLinkFields, FlagThenSemaphore DEF MtuSet, initVars, gattVars, linkVars, flagVars, sendVars, BtTaskFree, BleInd, BleTypeOK, InitOrder, LinkKnown, Fresh
<1>5. NoLostWakeup'
  BY BleAssumption, NoLinkFields, FlagThenSemaphore DEF MtuSet, initVars, gattVars, linkVars, flagVars, sendVars, BtTaskFree, BleInd, BleTypeOK, InitOrder, NoLostWakeup, Fresh
<1>6. QED BY <1>1, <1>2, <1>3, <1>4, <1>5 DEF BleInd

LEMMA LinkLostKeeps ==
  ASSUME BleInd, LinkLost
  PROVE  BleInd'
BY BleAssumption
   DEF LinkLost, BleInd, BleTypeOK, InitOrder, CharFirst, LinkKnown, NoLostWakeup, Fresh, NoLink,
       HasChar, BtTaskFree, CanBeRead, SenderGoes, Sendable, UncongestedDoes,
       UncongestedOrder, initVars, gattVars, linkVars, flagVars, sendVars

LEMMA DisconnectedKeeps ==
  ASSUME BleInd, Disconnected
  PROVE  BleInd'
<1>1. BleTypeOK'
  <2>1. link \in Links
    BY DEF BleInd, BleTypeOK, Links
  <2>2. link' \in Links
    BY BleAssumption, NoLinkFields, <2>1 DEF Disconnected, linkVars, Links
  <2>3. is_connect' \in BOOLEAN /\ can_send_notify' \in BOOLEAN /\ giving' \in BOOLEAN
        /\ gatts_semaphore' \in {"null", "taken", "given"}
    BY FlagThenSemaphore DEF Disconnected, initVars, linkVars, flagVars, BleInd, BleTypeOK
  <2>4. advertising' \in {"off", "set", "on"}
    BY DEF Disconnected, BleInd, BleTypeOK
  <2>5. UNCHANGED <<stack, initAt, gatt, reading, conn_id, sendVars>>
    BY DEF Disconnected, initVars, gattVars, linkVars
  <2>6. QED BY <2>2, <2>3, <2>4, <2>5 DEF BleInd, BleTypeOK, Links, sendVars
<1>2. InitOrder'
  BY BleAssumption, NoLinkFields, FlagThenSemaphore DEF Disconnected, initVars, gattVars, linkVars, flagVars, sendVars, BtTaskFree, BleInd, BleTypeOK, InitOrder, Fresh
<1>3. CharFirst'
  BY BleAssumption, NoLinkFields, FlagThenSemaphore DEF Disconnected, initVars, gattVars, linkVars, flagVars, sendVars, BtTaskFree, BleInd, BleTypeOK, InitOrder, CharFirst, Fresh, HasChar
<1>4. LinkKnown'
  BY BleAssumption, NoLinkFields, FlagThenSemaphore DEF Disconnected, initVars, gattVars, linkVars, flagVars, sendVars, BtTaskFree, BleInd, BleTypeOK, InitOrder, LinkKnown, Fresh
<1>5. NoLostWakeup'
  BY BleAssumption, NoLinkFields, FlagThenSemaphore DEF Disconnected, initVars, gattVars, linkVars, flagVars, sendVars, BtTaskFree, BleInd, BleTypeOK, InitOrder, NoLostWakeup, Fresh
<1>6. QED BY <1>1, <1>2, <1>3, <1>4, <1>5 DEF BleInd

LEMMA RespondsKeeps ==
  ASSUME BleInd, Responds
  PROVE  BleInd'
<1>1. /\ UNCHANGED <<initVars, gatt, advertising, conn_id, is_connect, flagVars, sendVars>>
      /\ reading' = "no" /\ HasChar
  BY DEF Responds
<1>2. link \in Links
  BY DEF BleInd, BleTypeOK, Links
<1>3. \/ link' = link
      \/ /\ link.state = "up" /\ link.sent < Buffers
         /\ link' = [link EXCEPT !.sent = @ + 1]
  BY DEF Responds
<1>4. /\ link' \in Links
      /\ link'.state = link.state /\ link'.mtu = link.mtu
      /\ link.state = "down" => link' = link
  BY <1>2, <1>3, BleAssumption DEF Links
<1>5. BleTypeOK'
  BY <1>1, <1>4 DEF BleInd, BleTypeOK, Links, initVars, flagVars, sendVars
<1>6. gatt # "none" /\ stack /\ initAt # "register"
  BY <1>1 DEF HasChar, BleInd, InitOrder, Fresh
<1>7. InitOrder'
  <2>1. link = NoLink => link' = NoLink
    BY <1>4, NoLinkFields
  <2>2. QED BY <1>1, <1>6, <2>1 DEF BleInd, InitOrder, Fresh, initVars, flagVars, sendVars
<1>8. CharFirst'
  BY <1>1 DEF CharFirst, HasChar
<1>9. LinkKnown'
  BY <1>1, <1>4 DEF BleInd, LinkKnown, initVars, flagVars, sendVars
<1>10. NoLostWakeup'
  BY <1>1 DEF BleInd, NoLostWakeup, initVars, flagVars, sendVars
<1>11. QED BY <1>5, <1>7, <1>8, <1>9, <1>10 DEF BleInd

LEMMA CongestedKeeps ==
  ASSUME BleInd, Congested
  PROVE  BleInd'
<1>1. BleTypeOK'
  <2>1. link \in Links
    BY DEF BleInd, BleTypeOK, Links
  <2>2. link' \in Links
    BY BleAssumption, NoLinkFields, <2>1 DEF Congested, linkVars, Links
  <2>3. is_connect' \in BOOLEAN /\ can_send_notify' \in BOOLEAN /\ giving' \in BOOLEAN
        /\ gatts_semaphore' \in {"null", "taken", "given"}
    BY FlagThenSemaphore DEF Congested, initVars, linkVars, flagVars, BleInd, BleTypeOK
  <2>4. advertising' \in {"off", "set", "on"}
    BY DEF Congested, BleInd, BleTypeOK
  <2>5. UNCHANGED <<stack, initAt, gatt, reading, conn_id, sendVars>>
    BY DEF Congested, initVars, gattVars, linkVars
  <2>6. QED BY <2>2, <2>3, <2>4, <2>5 DEF BleInd, BleTypeOK, Links, sendVars
<1>2. InitOrder'
  BY BleAssumption, NoLinkFields, FlagThenSemaphore DEF Congested, initVars, gattVars, linkVars, flagVars, sendVars, BtTaskFree, BleInd, BleTypeOK, InitOrder, Fresh
<1>3. CharFirst'
  BY BleAssumption, NoLinkFields, FlagThenSemaphore DEF Congested, initVars, gattVars, linkVars, flagVars, sendVars, BtTaskFree, BleInd, BleTypeOK, InitOrder, CharFirst, Fresh, HasChar
<1>4. LinkKnown'
  BY BleAssumption, NoLinkFields, FlagThenSemaphore DEF Congested, initVars, gattVars, linkVars, flagVars, sendVars, BtTaskFree, BleInd, BleTypeOK, InitOrder, LinkKnown, Fresh
<1>5. NoLostWakeup'
  BY BleAssumption, NoLinkFields, FlagThenSemaphore DEF Congested, initVars, gattVars, linkVars, flagVars, sendVars, BtTaskFree, BleInd, BleTypeOK, InitOrder, NoLostWakeup, Fresh
<1>6. QED BY <1>1, <1>2, <1>3, <1>4, <1>5 DEF BleInd

LEMMA UncongestedKeeps ==
  ASSUME BleInd, Uncongested
  PROVE  BleInd'
<1>1. BleTypeOK'
  <2>1. link \in Links
    BY DEF BleInd, BleTypeOK, Links
  <2>2. link' \in Links
    BY BleAssumption, NoLinkFields, <2>1 DEF Uncongested, linkVars, Links
  <2>3. QED
    BY BleAssumption, NoLinkFields, FlagThenSemaphore, <2>2
       DEF Uncongested, initVars, gattVars, linkVars, flagVars, sendVars, BleInd, BleTypeOK, Links
<1>2. InitOrder'
  BY BleAssumption, NoLinkFields, FlagThenSemaphore DEF Uncongested, initVars, gattVars, linkVars, flagVars, sendVars, BtTaskFree, BleInd, BleTypeOK, InitOrder, Fresh
<1>3. CharFirst'
  BY BleAssumption, NoLinkFields, FlagThenSemaphore DEF Uncongested, initVars, gattVars, linkVars, flagVars, sendVars, BtTaskFree, BleInd, BleTypeOK, InitOrder, CharFirst, Fresh, HasChar
<1>4. LinkKnown'
  BY BleAssumption, NoLinkFields, FlagThenSemaphore DEF Uncongested, initVars, gattVars, linkVars, flagVars, sendVars, BtTaskFree, BleInd, BleTypeOK, InitOrder, LinkKnown, Fresh
<1>5. NoLostWakeup'
  BY BleAssumption, NoLinkFields, FlagThenSemaphore DEF Uncongested, initVars, gattVars, linkVars, flagVars, sendVars, BtTaskFree, BleInd, BleTypeOK, InitOrder, NoLostWakeup, Fresh
<1>6. QED BY <1>1, <1>2, <1>3, <1>4, <1>5 DEF BleInd

LEMMA UncongestedEndsKeeps ==
  ASSUME BleInd, UncongestedEnds
  PROVE  BleInd'
<1>1. BleTypeOK'
  <2>1. link \in Links
    BY DEF BleInd, BleTypeOK, Links
  <2>2. link' \in Links
    BY BleAssumption, NoLinkFields, <2>1 DEF UncongestedEnds, linkVars, Links
  <2>3. is_connect' \in BOOLEAN /\ can_send_notify' \in BOOLEAN /\ giving' \in BOOLEAN
        /\ gatts_semaphore' \in {"null", "taken", "given"}
    BY FlagThenSemaphore DEF UncongestedEnds, initVars, linkVars, flagVars, BleInd, BleTypeOK
  <2>4. advertising' \in {"off", "set", "on"}
    BY DEF UncongestedEnds, BleInd, BleTypeOK
  <2>5. UNCHANGED <<stack, initAt, gatt, reading, conn_id, sendVars>>
    BY DEF UncongestedEnds, initVars, gattVars, linkVars
  <2>6. QED BY <2>2, <2>3, <2>4, <2>5 DEF BleInd, BleTypeOK, Links, sendVars
<1>2. InitOrder'
  BY BleAssumption, NoLinkFields, FlagThenSemaphore DEF UncongestedEnds, initVars, gattVars, linkVars, flagVars, sendVars, BtTaskFree, BleInd, BleTypeOK, InitOrder, Fresh
<1>3. CharFirst'
  BY BleAssumption, NoLinkFields, FlagThenSemaphore DEF UncongestedEnds, initVars, gattVars, linkVars, flagVars, sendVars, BtTaskFree, BleInd, BleTypeOK, InitOrder, CharFirst, Fresh, HasChar
<1>4. LinkKnown'
  BY BleAssumption, NoLinkFields, FlagThenSemaphore DEF UncongestedEnds, initVars, gattVars, linkVars, flagVars, sendVars, BtTaskFree, BleInd, BleTypeOK, InitOrder, LinkKnown, Fresh
<1>5. NoLostWakeup'
  BY BleAssumption, NoLinkFields, FlagThenSemaphore DEF UncongestedEnds, initVars, gattVars, linkVars, flagVars, sendVars, BtTaskFree, BleInd, BleTypeOK, InitOrder, NoLostWakeup, Fresh
<1>6. QED BY <1>1, <1>2, <1>3, <1>4, <1>5 DEF BleInd

LEMMA DrainedKeeps ==
  ASSUME BleInd, Drained
  PROVE  BleInd'
BY BleAssumption
   DEF Drained, BleInd, BleTypeOK, InitOrder, CharFirst, LinkKnown, NoLostWakeup, Fresh, NoLink,
       HasChar, BtTaskFree, CanBeRead, SenderGoes, Sendable, UncongestedDoes,
       UncongestedOrder, initVars, gattVars, linkVars, flagVars, sendVars

LEMMA SenderWakesKeeps ==
  ASSUME BleInd, SenderWakes
  PROVE  BleInd'
BY BleAssumption
   DEF SenderWakes, BleInd, BleTypeOK, InitOrder, CharFirst, LinkKnown, NoLostWakeup, Fresh, NoLink,
       HasChar, BtTaskFree, CanBeRead, SenderGoes, Sendable, UncongestedDoes,
       UncongestedOrder, initVars, gattVars, linkVars, flagVars, sendVars

LEMMA SenderChecksKeeps ==
  ASSUME BleInd, SenderChecks
  PROVE  BleInd'
BY BleAssumption
   DEF SenderChecks, BleInd, BleTypeOK, InitOrder, CharFirst, LinkKnown, NoLostWakeup, Fresh, NoLink,
       HasChar, BtTaskFree, CanBeRead, SenderGoes, Sendable, UncongestedDoes,
       UncongestedOrder, initVars, gattVars, linkVars, flagVars, sendVars

LEMMA SenderTakesKeeps ==
  ASSUME BleInd, SenderTakes
  PROVE  BleInd'
BY BleAssumption
   DEF SenderTakes, BleInd, BleTypeOK, InitOrder, CharFirst, LinkKnown, NoLostWakeup, Fresh, NoLink,
       HasChar, BtTaskFree, CanBeRead, SenderGoes, Sendable, UncongestedDoes,
       UncongestedOrder, initVars, gattVars, linkVars, flagVars, sendVars

LEMMA SenderAsksKeeps ==
  ASSUME BleInd, SenderAsks
  PROVE  BleInd'
BY BleAssumption
   DEF SenderAsks, BleInd, BleTypeOK, InitOrder, CharFirst, LinkKnown, NoLostWakeup, Fresh, NoLink,
       HasChar, BtTaskFree, CanBeRead, SenderGoes, Sendable, UncongestedDoes,
       UncongestedOrder, initVars, gattVars, linkVars, flagVars, sendVars

LEMMA SenderSendsKeeps ==
  ASSUME BleInd, SenderSends
  PROVE  BleInd'
BY BleAssumption
   DEF SenderSends, BleInd, BleTypeOK, InitOrder, CharFirst, LinkKnown, NoLostWakeup, Fresh, NoLink,
       HasChar, BtTaskFree, CanBeRead, SenderGoes, Sendable, UncongestedDoes,
       UncongestedOrder, initVars, gattVars, linkVars, flagVars, sendVars
LEMMA BleStarts == BleInit => BleInd
<1> SUFFICES ASSUME BleInit PROVE BleInd
  OBVIOUS
<1>1. /\ link = NoLink /\ link \in Links /\ conn_id = 0 /\ is_connect = FALSE
      /\ can_send_notify = FALSE /\ giving = FALSE /\ stack = FALSE
  BY NoLinkFields DEF BleInit, SendFromStart
<1>2. /\ initAt = "none" /\ gatts_semaphore = "null" /\ gatt = "none" /\ advertising = "off"
      /\ reading = "no"
      /\ sender = "none" /\ free_buff_num = 0 /\ burst = 0
  BY DEF BleInit
<1>3. BleTypeOK
  <2>1. 0 \in 0..MaxConns /\ 0 \in 0..Buffers
    BY BleAssumption
  <2>2. FALSE \in BOOLEAN
    OBVIOUS
  <2>3. QED BY <1>1, <1>2, <2>1, <2>2 DEF BleTypeOK, Links
<1>4. InitOrder /\ NoLostWakeup
  BY <1>1, <1>2 DEF InitOrder, Fresh, NoLostWakeup
<1>5. CharFirst /\ LinkKnown
  BY <1>1, <1>2, NoLinkFields DEF CharFirst, LinkKnown
<1>6. QED BY <1>3, <1>4, <1>5 DEF BleInd

LEMMA BleBootKeeps ==
  ASSUME BleInd, BleBoot
  PROVE  BleInd'
<1>1. /\ link' = NoLink /\ link' \in Links /\ conn_id' = conn_id /\ is_connect' = FALSE
      /\ can_send_notify' = FALSE /\ giving' = FALSE /\ stack' = FALSE
  BY NoLinkFields DEF BleBoot, SendFromStart
<1>2. /\ initAt' = "none" /\ gatts_semaphore' = "null" /\ gatt' = "none" /\ advertising' = "off"
      /\ reading' = "no"
      /\ sender' = "none" /\ free_buff_num' = 0 /\ burst' = 0
  BY DEF BleBoot
<1>3. conn_id \in 0..MaxConns
  BY DEF BleInd, BleTypeOK
<1>4. BleTypeOK'
  <2>1. 0 \in 0..MaxConns /\ 0 \in 0..Buffers
    BY BleAssumption
  <2>2. FALSE \in BOOLEAN
    OBVIOUS
  <2>3. QED BY <1>1, <1>2, <1>3, <2>1, <2>2 DEF BleTypeOK, Links
<1>5. InitOrder' /\ NoLostWakeup'
  BY <1>1, <1>2 DEF InitOrder, Fresh, NoLostWakeup
<1>6. CharFirst' /\ LinkKnown'
  BY <1>1, <1>2, <1>3, NoLinkFields, BleAssumption DEF CharFirst, LinkKnown
<1>7. QED BY <1>4, <1>5, <1>6 DEF BleInd

LEMMA BleStutterKeeps ==
  ASSUME BleInd, UNCHANGED bleVars
  PROVE  BleInd'
BY DEF BleInd, BleTypeOK, InitOrder, CharFirst, LinkKnown, NoLostWakeup, Fresh, HasChar,
       bleVars, initVars, gattVars, linkVars, flagVars, sendVars

LEMMA OnRegularKeeps ==
  ASSUME BleInd, OnRegular
  PROVE  BleInd'
BY DEF OnRegular, BleInd, BleTypeOK, InitOrder, CharFirst, LinkKnown, NoLostWakeup, Fresh,
       HasChar, initVars, gattVars, linkVars, flagVars, sendVars

\* The steps of CBle.
Callbacks == Registered \/ Responds \/ BtTask \/ SenderTask
InitCalls == MemRelease \/ \E works \in BOOLEAN : InitStep(works)
BleStep == InitCalls \/ Callbacks \/ OnlyDisturbs

LEMMA BleStepKeeps ==
  ASSUME BleInd, BleStep
  PROVE  BleInd'
<1>1. CASE InitCalls
  BY <1>1, MemReleaseKeeps, StartStageKeeps, RegisterCallbacksKeeps, CreateSenderKeeps,
     CreateSemaphoreKeeps DEF InitCalls, InitStep
<1>2. CASE Registered \/ Responds \/ BtTask
  BY <1>2, ReadBeginsKeeps, RegisteredKeeps, RespondsKeeps, NotRegisteredKeeps,
     GattBuildsKeeps, DataConfirmedKeeps, ConnectsKeeps, MtuSetKeeps, LinkLostKeeps,
     DisconnectedKeeps, CongestedKeeps, UncongestedKeeps, UncongestedEndsKeeps, DrainedKeeps
     DEF BtTask
<1>3. CASE SenderTask
  BY <1>3, SenderWakesKeeps, SenderChecksKeeps, SenderTakesKeeps, SenderAsksKeeps,
     SenderSendsKeeps DEF SenderTask
<1>4. CASE OnlyDisturbs
  BY <1>4, OnlyDisturbsKeeps
<1>5. QED BY <1>1, <1>2, <1>3, <1>4 DEF BleStep, Callbacks

\* What a step of the node is for CBle.
LEMMA StepKinds ==
  ASSUME [Next]_vars
  PROVE  \/ BleStep \/ OnRegular
         \/ BleBoot
         \/ UNCHANGED bleVars
<1>1. CASE UNCHANGED vars
  BY <1>1 DEF vars
<1>2. CASE Restart
  BY <1>2 DEF Restart
<1>3. CASE OnRegular \/ BleInitGoesOn
  BY <1>3 DEF BleInitGoesOn, BleStep, InitCalls
<1>4. CASE RegularEnds \/ Reconnects
  BY <1>4 DEF RegularEnds, Reconnects, BleStep, OnlyDisturbs
<1>5. CASE HandlesData
  <2>1. CASE Disturbs
    BY <1>5, <2>1 DEF HandlesData, BleStep, OnlyDisturbs
  <2>2. CASE UNCHANGED reading
    BY <1>5, <2>2 DEF HandlesData, bleVars, gattVars
  <2>3. QED BY <1>5, <2>1, <2>2 DEF HandlesData
<1>6. CASE BtTaskReads
  BY <1>6 DEF BtTaskReads, BleStep, Callbacks
<1>7. CASE Others
  BY <1>7 DEF Others, BleStep, Callbacks, OnlyDisturbs
<1>8. QED BY <1>1, <1>2, <1>3, <1>4, <1>5, <1>6, <1>7 DEF Next, SysEvt

(* The order in which c_ble is set up, and what its tasks know of each     *)
(* other, hold from the start and through every restart.                   *)
THEOREM BleInvariant == Spec => []BleInd
<1>1. Init => BleInd
  BY BleStarts DEF Init
<1>2. BleInd /\ [Next]_vars => BleInd'
  BY StepKinds, BleStepKeeps, OnRegularKeeps, BleBootKeeps, BleStutterKeeps
<1>3. QED BY <1>1, <1>2, PTL DEF Spec

(* No wakeup is lost between the congestion handler and the sending task   *)
(* (c_ble.c:287, 427), for any number of connections, buffers and          *)
(* restarts.                                                               *)
THEOREM NoWakeupIsLost == Spec => []NoLostWakeup
<1>1. BleInd => NoLostWakeup
  BY DEF BleInd
<1>2. QED BY <1>1, BleInvariant, PTL

(* Whatever throughput_server_task sends has a characteristic, and does    *)
(* not go to a connection that is new to it (c_ble.c:435).                 *)
THEOREM SendsAreAlwaysAddressed == Spec => []SendsAreAddressed
<1>1. BleInd => SendsAreAddressed
  BY DEF BleInd, BleTypeOK, CharFirst, LinkKnown, SendsAreAddressed
<1>2. QED BY <1>1, BleInvariant, PTL
-----------------------------------------------------------------------------
(* Crashes.  What the tasks rely on, as long as nothing in this boot       *)
(* deprived them of it.                                                    *)

\* While _ble_init runs sys_evt runs nothing else.
HandlerOK ==
  /\ handler \in {"idle", "regular"} /\ provoked \subseteq {"document", "memory"}
  /\ handler = "idle" => initAt \in {"none", "done", "failed"}

\* Who gives or takes the semaphore has one, and a second start leaves it alone.
SemaphoreReady ==
  gatts_semaphore = "null" =>
    /\ link.state = "down" /\ ~giving /\ sender \in {"none", "asleep"}
    /\ initAt # "failed" /\ (initAt = "release" => ~stack)

\* Who may read the document has one.
DocumentReady == handler = "regular" \/ gatt # "none" => BleContentFound

CrashInd ==
  /\ "memory" \in provoked \/ SemaphoreReady
  /\ "document" \in provoked \/ DocumentReady
  /\ reading # "no" => gatt # "none"

\* The callbacks and the sending task leave _ble_init alone.
LEMMA CallbacksKeepInit ==
  ASSUME Callbacks
  PROVE  UNCHANGED <<stack, initAt>>
<1>1. CASE Registered \/ Responds
  BY <1>1 DEF Registered, Responds, initVars
<1>2. CASE BtTask
  BY <1>2 DEF BtTask, ReadBegins, NotRegistered, GattBuilds, DataConfirmed, Connects, MtuSet,
              LinkLost, Disconnected, Congested, Uncongested, UncongestedEnds, Drained, initVars
<1>3. CASE SenderTask
  BY <1>3 DEF SenderTask, SenderWakes, SenderChecks, SenderTakes, SenderAsks, SenderSends,
              SenderGoes, initVars
<1>4. QED BY <1>1, <1>2, <1>3 DEF Callbacks

\* They read only what was registered, and register nothing.
LEMMA CallbacksKeepReads ==
  ASSUME Callbacks, reading # "no" => gatt # "none"
  PROVE  (gatt = "none" => gatt' = "none") /\ (reading' # "no" => gatt' # "none")
<1>1. CASE Registered \/ Responds
  BY <1>1 DEF Registered, Responds
<1>2. CASE BtTask
  <2>1. CASE ReadBegins \/ NotRegistered \/ GattBuilds
    BY <2>1 DEF ReadBegins, NotRegistered, GattBuilds, BtTaskFree, CanBeRead, HasChar
  <2>2. CASE UNCHANGED gattVars
    BY <2>2 DEF gattVars
  <2>3. QED BY <1>2, <2>1, <2>2 DEF BtTask, DataConfirmed, Connects, MtuSet, LinkLost,
               Disconnected, Congested, Uncongested, UncongestedEnds, Drained
<1>3. CASE SenderTask
  BY <1>3 DEF SenderTask, SenderWakes, SenderChecks, SenderTakes, SenderAsks, SenderSends,
              SenderGoes, gattVars
<1>4. QED BY <1>1, <1>2, <1>3 DEF Callbacks

LEMMA HandlerNext ==
  ASSUME HandlerOK, [Next]_vars
  PROVE  HandlerOK'
<1> USE DEF HandlerOK
<1>1. provoked' \subseteq {"document", "memory"}
  BY DEF Next, SysEvt, OnRegular, BleInitGoesOn, RegularEnds, HandlesData, Reconnects,
         BtTaskReads, Others, Restart, Provoke, Documented, vars
<1>2. handler' \in {"idle", "regular"}
  BY DEF Next, SysEvt, OnRegular, BleInitGoesOn, RegularEnds, HandlesData, Reconnects,
         BtTaskReads, Others, Restart, vars
<1>3. handler' = "idle" => initAt' \in {"none", "done", "failed"}
  <2>1. CASE OnRegular \/ BleInitGoesOn
    BY <2>1 DEF OnRegular, BleInitGoesOn
  <2>2. CASE RegularEnds \/ HandlesData \/ Reconnects
    BY <2>2 DEF RegularEnds, HandlesData, Reconnects, initVars
  <2>3. CASE BtTaskReads
    BY <2>3, CallbacksKeepInit DEF BtTaskReads, Callbacks
  <2>4. CASE Others
    BY <2>4, CallbacksKeepInit DEF Others, Callbacks, bleVars, initVars
  <2>5. CASE Restart
    BY <2>5 DEF Restart, BleBoot
  <2>6. CASE UNCHANGED vars
    BY <2>6 DEF vars, bleVars, initVars
  <2>7. QED BY <2>1, <2>2, <2>3, <2>4, <2>5, <2>6 DEF Next, SysEvt
<1>4. QED BY <1>1, <1>2, <1>3

LEMMA HandlerKept == Spec => []HandlerOK
<1>1. Init => HandlerOK
  BY DEF Init, BleInit, HandlerOK
<1>2. QED BY <1>1, HandlerNext, PTL DEF Spec

LEMMA CallbacksKeepSemaphore ==
  ASSUME BleInd, Callbacks, SemaphoreReady
  PROVE  SemaphoreReady'
<1> USE DEF SemaphoreReady
<1>0. UNCHANGED <<stack, initAt>>
  BY CallbacksKeepInit
<1>1. CASE Registered \/ Responds \/ ReadBegins \/ NotRegistered \/ GattBuilds \/ DataConfirmed
  <2>1. UNCHANGED <<gatts_semaphore, giving, sender>>
    BY <1>1 DEF Registered, Responds, ReadBegins, NotRegistered, GattBuilds, DataConfirmed,
                initVars, flagVars, sendVars
  <2>2. link.state = "down" => link' = link
    BY <1>1 DEF Registered, Responds, ReadBegins, NotRegistered, GattBuilds, DataConfirmed,
                linkVars
  <2>3. QED BY <1>0, <2>1, <2>2
<1>2. CASE Connects
  BY <1>0, <1>2 DEF Connects, initVars, flagVars, sendVars, BleInd, InitOrder
<1>3. CASE MtuSet \/ LinkLost
  BY <1>0, <1>3 DEF MtuSet, LinkLost, initVars, flagVars, sendVars
<1>4. CASE Disconnected
  BY <1>0, <1>4, NoLinkFields DEF Disconnected, initVars, flagVars, sendVars
<1>5. CASE Congested \/ Drained
  BY <1>0, <1>5 DEF Congested, Drained, initVars, flagVars, sendVars
<1>6. CASE Uncongested
  BY <1>0, <1>6, FlagThenSemaphore DEF Uncongested, sendVars
<1>7. CASE UncongestedEnds
  BY <1>7, FlagThenSemaphore DEF UncongestedEnds
<1>8. CASE SenderWakes
  BY <1>0, <1>8 DEF SenderWakes, SenderGoes, initVars, linkVars, flagVars, BleInd, InitOrder, Fresh
<1>9. CASE SenderChecks \/ SenderTakes \/ SenderAsks \/ SenderSends
  <2>1. sender \notin {"none", "asleep"}
    BY <1>9 DEF SenderChecks, SenderTakes, SenderAsks, SenderSends
  <2>2. gatts_semaphore' # "null"
    BY <1>9, <2>1 DEF SenderChecks, SenderTakes, SenderAsks, SenderSends, SenderGoes, initVars
  <2>3. QED BY <2>2
<1>10. QED BY <1>1, <1>2, <1>3, <1>4, <1>5, <1>6, <1>7, <1>8, <1>9
           DEF Callbacks, BtTask, SenderTask

\* Of what may crash the node nothing is forgotten before the restart.
LEMMA ProvokedGrows ==
  ASSUME [Next]_vars, ~Restart
  PROVE  provoked \subseteq provoked'
BY DEF Next, SysEvt, OnRegular, BleInitGoesOn, RegularEnds, HandlesData, Reconnects,
       BtTaskReads, Others, Provoke, Documented, vars

LEMMA SemaphoreNext ==
  ASSUME BleInd, HandlerOK, SemaphoreReady, [Next]_vars, "memory" \notin provoked'
  PROVE  SemaphoreReady'
<1>1. CASE OnRegular
  <2>1. /\ UNCHANGED <<stack, gatts_semaphore, link, giving, sender>> /\ initAt' = "release"
        /\ handler = "idle"
    BY <1>1 DEF OnRegular, linkVars, flagVars, sendVars
  <2>2. gatts_semaphore = "null" => initAt = "none"
    BY <2>1 DEF HandlerOK, SemaphoreReady, BleInd, InitOrder
  <2>3. initAt = "none" => ~stack
    BY DEF BleInd, InitOrder
  <2>4. QED BY <2>1, <2>2, <2>3 DEF SemaphoreReady
<1>2. CASE BleInitGoesOn
  <2>1. CASE MemRelease
    <3>1. /\ initAt = "release" /\ initAt' = IF stack THEN "failed" ELSE "start"
          /\ UNCHANGED <<stack, gatts_semaphore, link, giving, sender>>
      BY <2>1 DEF MemRelease, linkVars, flagVars, sendVars
    <3>2. QED BY <3>1 DEF SemaphoreReady
  <2>2. ASSUME NEW works \in BOOLEAN, InitStep(works),
               Provoke(IF works THEN {} ELSE {"memory"})
        PROVE  SemaphoreReady'
    <3>1. InitStep(TRUE)
      BY <2>2 DEF Provoke
    <3>2. initAt' \in {"register", "task", "semaphore", "done"}
      BY <3>1 DEF InitStep, StartStage, RegisterCallbacks, CreateSender, CreateSemaphore
    <3>3. UNCHANGED <<link, giving>> /\ sender' \in {sender, "asleep"}
          /\ gatts_semaphore' \in {gatts_semaphore, "taken"}
      BY <3>1 DEF InitStep, StartStage, RegisterCallbacks, CreateSender, CreateSemaphore,
                  linkVars, flagVars, sendVars
    <3>4. QED BY <3>2, <3>3 DEF SemaphoreReady
  <2>3. QED BY <1>2, <2>1, <2>2 DEF BleInitGoesOn
<1>3. CASE Callbacks
  BY <1>3, CallbacksKeepSemaphore
<1>4. CASE UNCHANGED <<initVars, linkVars, flagVars, sendVars>>
  BY <1>4 DEF SemaphoreReady, initVars, linkVars, flagVars, sendVars
<1>5. CASE Restart
  <2>1. link'.state = "down" /\ giving' = FALSE /\ sender' = "none" /\ initAt' = "none"
    BY <1>5, NoLinkFields DEF Restart, BleBoot
  <2>2. QED BY <2>1 DEF SemaphoreReady
<1>6. CASE RegularEnds \/ HandlesData \/ Reconnects
  BY <1>4, <1>6 DEF RegularEnds, HandlesData, Reconnects
<1>7. CASE BtTaskReads
  BY <1>3, <1>7 DEF BtTaskReads, Callbacks
<1>8. CASE Others
  BY <1>3, <1>4, <1>8 DEF Others, Callbacks, bleVars
<1>9. QED BY <1>1, <1>2, <1>4, <1>5, <1>6, <1>7, <1>8 DEF Next, SysEvt, vars, bleVars

LEMMA DocumentNext ==
  ASSUME DocumentReady, reading # "no" => gatt # "none", [Next]_vars,
         "document" \notin provoked'
  PROVE  DocumentReady'
<1> USE DEF DocumentReady, BleContentFound
<1>1. CASE OnRegular
  <2>1. UNCHANGED <<ble_content, flashOpen>> /\ ble_content' = "complete" /\ flashOpen'
    BY <1>1 DEF OnRegular, storeVars, Documented, Provoke
  <2>2. QED BY <2>1
<1>2. CASE BleInitGoesOn
  BY <1>2 DEF BleInitGoesOn, downVars, storeVars
<1>3. CASE RegularEnds \/ Reconnects
  BY <1>3 DEF RegularEnds, Reconnects, downVars, storeVars
<1>4. CASE HandlesData
  <2>1. CASE OnAnswer /\ Documented
    <3>1. ble_content' = "complete" /\ flashOpen'
      BY <2>1 DEF Documented, Provoke
    <3>2. QED BY <3>1
  <2>2. CASE OnContentUpdate \/ OnOtherUpdate \/ OnFirmware
    <3>1. UNCHANGED storeVars
      BY <2>2 DEF OnContentUpdate, OnOtherUpdate, OnFirmware
    <3>2. UNCHANGED <<handler, gatt>>
      BY <1>4 DEF HandlesData
    <3>3. QED BY <3>1, <3>2 DEF storeVars
  <2>3. QED BY <1>4, <2>1, <2>2 DEF HandlesData
<1>5. CASE Callbacks /\ UNCHANGED <<downVars, handler>>
  <2>1. gatt = "none" => gatt' = "none"
    BY <1>5, CallbacksKeepReads
  <2>2. QED BY <1>5, <2>1 DEF downVars, storeVars
<1>6. CASE BtTaskReads
  BY <1>5, <1>6 DEF BtTaskReads, Callbacks
<1>7. CASE Others
  <2>1. CASE (BtTask \/ SenderTask) /\ UNCHANGED <<downVars, handler, provoked>>
    BY <1>5, <2>1 DEF Callbacks
  <2>2. CASE Server /\ UNCHANGED <<bleVars, handler, provoked>>
    <3>1. UNCHANGED storeVars
      BY <2>2 DEF Server, ServerAnswers, ContentChanges, OthersChange
    <3>2. QED BY <2>2, <3>1 DEF bleVars, gattVars, storeVars
  <2>3. CASE Erase /\ Documented
    <3>1. flashOpen' = FALSE /\ "document" \in provoked'
      BY <2>3 DEF Erase, Documented, Provoke
    <3>2. QED BY <3>1
  <2>4. QED BY <1>7, <2>1, <2>2, <2>3 DEF Others
<1>8. CASE Restart
  BY <1>8 DEF Restart, BleBoot
<1>9. CASE UNCHANGED vars
  BY <1>9 DEF vars, bleVars, gattVars, downVars, storeVars
<1>10. QED BY <1>1, <1>2, <1>3, <1>4, <1>6, <1>7, <1>8, <1>9 DEF Next, SysEvt

LEMMA ReadsNext ==
  ASSUME reading # "no" => gatt # "none", [Next]_vars
  PROVE  reading' # "no" => gatt' # "none"
<1>1. CASE BleInitGoesOn
  BY <1>1 DEF BleInitGoesOn, MemRelease, InitStep, StartStage, RegisterCallbacks, CreateSender,
              CreateSemaphore, gattVars
<1>2. CASE OnRegular
  BY <1>2 DEF OnRegular, gattVars
<1>3. CASE Callbacks
  BY <1>3, CallbacksKeepReads
<1>4. CASE Disturbs /\ UNCHANGED gatt
  BY <1>4 DEF Disturbs
<1>5. CASE UNCHANGED gattVars
  BY <1>5 DEF gattVars
<1>6. CASE RegularEnds \/ HandlesData \/ Reconnects
  BY <1>4, <1>5, <1>6 DEF RegularEnds, HandlesData, Reconnects, gattVars
<1>7. CASE BtTaskReads
  BY <1>3, <1>7 DEF BtTaskReads, Callbacks
<1>8. CASE Others
  BY <1>3, <1>4, <1>5, <1>8 DEF Others, Callbacks, bleVars
<1>9. CASE Restart
  BY <1>9 DEF Restart, BleBoot
<1>10. QED BY <1>1, <1>2, <1>5, <1>6, <1>7, <1>8, <1>9 DEF Next, SysEvt, vars, bleVars

LEMMA CrashNext ==
  ASSUME BleInd, HandlerOK, CrashInd, [Next]_vars
  PROVE  CrashInd'
<1>1. CASE Restart
  <2>1. SemaphoreReady'
    <3>1. link'.state = "down" /\ giving' = FALSE /\ sender' = "none" /\ initAt' = "none"
      BY <1>1, NoLinkFields DEF Restart, BleBoot
    <3>2. QED BY <3>1 DEF SemaphoreReady
  <2>2. DocumentReady' /\ reading' = "no"
    BY <1>1 DEF Restart, BleBoot, DocumentReady
  <2>3. QED BY <2>1, <2>2 DEF CrashInd
<1>2. CASE ~Restart
  <2>1. provoked \subseteq provoked'
    BY <1>2, ProvokedGrows
  <2>2. "memory" \in provoked' \/ SemaphoreReady'
    BY <2>1, SemaphoreNext DEF CrashInd
  <2>3. "document" \in provoked' \/ DocumentReady'
    BY <2>1, DocumentNext DEF CrashInd
  <2>4. reading' # "no" => gatt' # "none"
    BY ReadsNext DEF CrashInd
  <2>5. QED BY <2>2, <2>3, <2>4 DEF CrashInd
<1>3. QED BY <1>1, <1>2

(* The tasks of c_ble meet no semaphore that was never created, and a      *)
(* callback that nobody disturbs reads no document that is not there,      *)
(* unless in this boot memory ran out or the document was incomplete or    *)
(* erased (ble_handler.c:15, c_ble.c:292, 428).  A read that another task  *)
(* disturbs can bring the node down all the same.                          *)
THEOREM CrashesAreProvoked == Spec => []CrashIsProvoked
<1>1. Init => CrashInd
  BY NoLinkFields DEF Init, BleInit, CrashInd, SemaphoreReady, DocumentReady
<1>2. CrashInd => CrashIsProvoked
  BY DEF CrashInd, SemaphoreReady, DocumentReady, CrashIsProvoked, GivesNull, TakesNull
<1>3. QED BY <1>1, <1>2, BleInvariant, HandlerKept, CrashNext, PTL DEF Spec
-----------------------------------------------------------------------------
(* Downlink: what a node in operation keeps of what the server sends it,   *)
(* for any number of updates, answers and restarts.                        *)

(* Types.                                                                  *)

Keys == {"nfc_content", "fw_title", "other"}

LEMMA EventsOfServer ==
  /\ \A n \in Contents, b \in BleDocuments : Answer(n, b) \in DownEvents
  /\ \A k \in Keys, n \in Contents, a \in BOOLEAN : Update(k, n, a) \in DownEvents
  /\ Regular \in DownEvents
BY DEF DownEvents, Keys

LEMMA EventFields ==
  ASSUME NEW e \in DownEvents
  PROVE  /\ e.ev = "DATA_METHOD" => e.arg.nfc \in Contents /\ e.arg.ble \in BleDocuments
         /\ e.ev = "DATA_ATTRIBUTE" => e.arg.nfc \in Contents /\ e.arg.key \in Keys
<1>1. CASE \E n \in Contents, b \in BleDocuments : e = Answer(n, b)
  BY <1>1 DEF Answer, Event
<1>2. CASE \E k \in Keys, n \in Contents, a \in BOOLEAN : e = Update(k, n, a)
  BY <1>2 DEF Update, Event
<1>3. CASE e = Regular
  BY <1>3 DEF Regular, Event
<1>4. QED BY <1>1, <1>2, <1>3 DEF DownEvents, Keys

Queues == {q \in Seq(DownEvents) : Len(q) <= QueueSize}

LEMMA PostedQueue ==
  ASSUME NEW q \in Queues, NEW e \in DownEvents
  PROVE  Post(q, e) \in Queues
BY QueueSizeAssumption DEF Post, HasRoom, Queues

LEMMA RestOfQueue ==
  ASSUME NEW q \in Queues, q # <<>>
  PROVE  /\ Tail(q) \in Queues /\ Head(q) \in DownEvents /\ Head(q) = q[1]
         /\ Len(q) \in Nat /\ Len(q) > 0 /\ Len(Tail(q)) = Len(q) - 1
         /\ \A i \in 1..Len(Tail(q)) : Tail(q)[i] = q[i + 1]
BY QueueSizeAssumption DEF Queues

DownInd ==
  /\ loop \in Queues
  /\ server \in Contents /\ updates \in 0..MaxUpdates /\ answers \in 0..MaxAnswers
  /\ server <= updates + 1
  /\ nfc_content \in Contents /\ ble_content \in BleDocuments
  /\ flashOpen \in BOOLEAN
  /\ tag \in Contents \cup {Junk}
  /\ doubt \subseteq Doubts
\* What a step of the node is for what the server sent.
DownStep ==
  \/ Server \/ OnAnswer \/ (OnContentUpdate /\ handler = "idle") \/ OnOtherUpdate
  \/ OnFirmware \/ OnRegular \/ RegularEnds \/ Erase \/ Restart

LEMMA DownStepKinds ==
  ASSUME [Next]_vars
  PROVE  \/ DownStep /\ (OnRegular \/ RegularEnds \/ Restart \/ UNCHANGED handler)
         \/ UNCHANGED <<downVars, handler>>
<1>1. CASE UNCHANGED vars
  BY <1>1 DEF vars
<1>2. CASE Restart
  BY <1>2 DEF DownStep
<1>3. CASE SysEvt
  BY <1>3 DEF SysEvt, BleInitGoesOn, HandlesData, Reconnects, DownStep
<1>4. CASE BtTaskReads \/ Others
  BY <1>4 DEF BtTaskReads, Others, DownStep
<1>5. QED BY <1>1, <1>2, <1>3, <1>4 DEF Next

LEMMA CarriesDoubts ==
  ASSUME NEW q, NEW nfc, doubt \subseteq Doubts, Carries(q, nfc)
  PROVE  doubt' \subseteq Doubts
BY DEF Carries, Doubts

LEMMA ServerTyped ==
  ASSUME DownInd, Server
  PROVE  DownInd'
<1> USE DEF DownInd
<1>1. ASSUME NEW ble \in BleDocuments, ServerAnswers(ble) PROVE DownInd'
  <2>1. loop' \in Queues
    BY <1>1, EventsOfServer, PostedQueue DEF ServerAnswers
  <2>2. doubt' \subseteq Doubts
    BY <1>1, CarriesDoubts DEF ServerAnswers
  <2>3. answers' \in 0..MaxAnswers
    BY <1>1, DownlinkAssumption DEF ServerAnswers
  <2>4. QED BY <1>1, <2>1, <2>2, <2>3 DEF ServerAnswers, storeVars
<1>2. ASSUME NEW first \in Keys, NEW array \in BOOLEAN, ContentChanges(first, array)
      PROVE  DownInd'
  <2>1. updates' \in 0..MaxUpdates /\ server' \in Contents /\ server' <= updates' + 1
    BY <1>2, DownlinkAssumption DEF ContentChanges, Contents
  <2>2. loop' \in Queues
    BY <1>2, <2>1, EventsOfServer, PostedQueue DEF ContentChanges
  <2>3. doubt' \subseteq Doubts
    BY <1>2, CarriesDoubts DEF ContentChanges, Doubts
  <2>4. QED BY <1>2, <2>1, <2>2, <2>3 DEF ContentChanges, storeVars
<1>3. ASSUME NEW first \in {"fw_title", "other"}, OthersChange(first) PROVE DownInd'
  <2>1. updates' \in 0..MaxUpdates /\ updates' = updates + 1
    BY <1>3, DownlinkAssumption DEF OthersChange
  <2>2. Update(first, 0, FALSE) \in DownEvents
    <3>1. first \in Keys /\ 0 \in Contents
      BY DownlinkAssumption DEF Keys, Contents
    <3>2. QED BY <3>1, EventsOfServer
  <2>3. loop' \in Queues
    BY <1>3, <2>2, PostedQueue DEF OthersChange
  <2>4. server' = server /\ server <= updates' + 1
    BY <1>3, <2>1, DownlinkAssumption DEF OthersChange, Contents
  <2>5. QED BY <1>3, <2>1, <2>3, <2>4 DEF OthersChange, storeVars
<1>4. QED BY <1>1, <1>2, <1>3 DEF Server, Keys

LEMMA ContentDelivered ==
  ASSUME DownInd, NEW c \in Contents \cup {Junk}, NEW works \in BOOLEAN, WritesTag(c, works)
  PROVE  tag' \in Contents \cup {Junk}
BY DEF DownInd, WritesTag

LEMMA HandlersTyped ==
  ASSUME DownInd, DownStep, ~Server
  PROVE  DownInd'
<1> USE DEF DownInd
<1>1. CASE OnAnswer
  <2> DEFINE doc == Head(loop).arg
  <2>1. loop # <<>> /\ doc.nfc \in Contents /\ doc.ble \in BleDocuments
    BY <1>1, RestOfQueue, EventFields DEF OnAnswer, IsNext
  <2>2. loop' \in Queues
    BY <1>1, <2>1, RestOfQueue, EventsOfServer, PostedQueue DEF OnAnswer
  <2>3. nfc_content' \in Contents /\ ble_content' \in BleDocuments
    BY <1>1, <2>1 DEF OnAnswer, SharedNfc, SharedBle
  <2>4. doubt' \subseteq Doubts
    BY <1>1 DEF OnAnswer, Doubts
  <2>5. QED BY <1>1, <2>2, <2>3, <2>4 DEF OnAnswer, serverVars
<1>2. CASE OnContentUpdate
  <2>1. loop # <<>> /\ Head(loop).arg.nfc \in Contents /\ loop' \in Queues
    BY <1>2, RestOfQueue, EventFields DEF OnContentUpdate, IsNext
  <2>2. tag' \in Contents \cup {Junk}
    BY <1>2, <2>1 DEF OnContentUpdate, WritesTag
  <2>3. doubt' \subseteq Doubts
    BY <1>2 DEF OnContentUpdate, Doubts
  <2>4. QED BY <1>2, <2>1, <2>2, <2>3 DEF OnContentUpdate, serverVars, storeVars
<1>3. CASE OnOtherUpdate \/ OnFirmware
  <2>1. loop' \in Queues
    BY <1>3, RestOfQueue DEF OnOtherUpdate, OnFirmware, IsNext
  <2>2. QED BY <1>3, <2>1 DEF OnOtherUpdate, OnFirmware, serverVars, storeVars
<1>4. CASE OnRegular
  <2>1. loop' \in Queues
    BY <1>4, RestOfQueue DEF OnRegular, IsNext
  <2>2. QED BY <1>4, <2>1 DEF OnRegular, serverVars, storeVars
<1>5. CASE RegularEnds
  <2>1. tag' \in Contents \cup {Junk} /\ doubt' \subseteq Doubts
    BY <1>5 DEF RegularEnds, ContentFromNvs, WritesTag, Doubts
  <2>2. QED BY <1>5, <2>1 DEF RegularEnds, serverVars, storeVars
<1>7. CASE Erase
  <2>1. 0 \in Contents /\ "incomplete" \in BleDocuments
    BY DownlinkAssumption DEF Contents, BleDocuments
  <2>2. QED BY <1>7, <2>1 DEF Erase, serverVars, Doubts
<1>8. CASE Restart
  <2>1. DownBoot(handler # "idle")
    BY <1>8 DEF Restart
  <2>2. <<>> \in Queues
    BY QueueSizeAssumption DEF Queues
  <2>3. doubt' \subseteq Doubts
    BY <2>1 DEF DownBoot, Doubts
  <2>4. QED BY <2>1, <2>2, <2>3 DEF DownBoot, serverVars
<1>9. QED BY <1>1, <1>2, <1>3, <1>4, <1>5, <1>7, <1>8 DEF DownStep

LEMMA DownStarts == Init => DownInd
<1> SUFFICES ASSUME Init PROVE DownInd
  OBVIOUS
<1>1. <<>> \in Queues
  BY QueueSizeAssumption DEF Queues
<1>2. 0 \in Contents /\ 1 \in Contents /\ 0 \in 0..MaxUpdates /\ 0 \in 0..MaxAnswers
  BY DownlinkAssumption DEF Contents
<1>3. loop = <<>> /\ server \in {0, 1} /\ updates = 0 /\ answers = 0 /\ nfc_content = 0
      /\ ble_content = "incomplete" /\ flashOpen = TRUE /\ tag = 0
      /\ doubt = {"lost", "unstored"}
  BY DEF Init, DownInit
<1>4. doubt \subseteq Doubts /\ ble_content \in BleDocuments /\ server <= updates + 1
  BY <1>3 DEF Doubts, BleDocuments
<1>5. flashOpen \in BOOLEAN
  BY <1>3
<1>6. QED BY <1>1, <1>2, <1>3, <1>4, <1>5 DEF DownInd

LEMMA DownNext ==
  ASSUME DownInd, [Next]_vars
  PROVE  DownInd'
<1>1. CASE UNCHANGED downVars
  BY <1>1 DEF DownInd, downVars, serverVars, storeVars
<1>2. CASE DownStep
  BY <1>2, ServerTyped, HandlersTyped
<1>3. QED BY <1>1, <1>2, DownStepKinds

(* What the flash, the tag and the queue may hold, by an inductive         *)
(* invariant that also bounds the content of the server by its changes.    *)
THEOREM DownInvariant == Spec => []DownInd
BY DownStarts, DownNext, PTL DEF Spec

(* Every variable of the node in operation keeps its type, and sys_evt     *)
(* does nothing else while it runs _ble_init.                              *)
THEOREM ServicesTypes == Spec => []ServicesTypeOK
<1>1. BleInd /\ DownInd /\ HandlerOK => ServicesTypeOK
  BY DEF BleInd, DownInd, HandlerOK, ServicesTypeOK, DownTypeOK, Queues
<1>2. QED BY <1>1, BleInvariant, DownInvariant, HandlerKept, PTL
-----------------------------------------------------------------------------
(* The content of the tag.                                                 *)

\* The events that change what the tag or the flash has of the content.
IsContent(e) ==
  \/ e.ev = "DATA_METHOD" /\ e.arg.nfc # 0
  \/ e.ev = "DATA_ATTRIBUTE" /\ e.arg.key = "nfc_content"

Waiting(q) == \E i \in 1..Len(q) : IsContent(q[i])

LastIs(q, c) ==
  \A i \in 1..Len(q) :
    IsContent(q[i]) /\ (\A j \in 1..Len(q) : j > i => ~IsContent(q[j])) => q[i].arg.nfc = c

\* The tag will be written from flash.
Pending == Queued(loop, "CTX_REGULAR") \/ handler = "regular"

Delivered ==
  \/ "late" \in doubt \/ "unstored" \in doubt
  \/ nfc_content = server /\ flashOpen /\ (Pending \/ "failed" \in doubt \/ tag = server)
  \/ ~Pending /\ (tag = server \/ "failed" \in doubt)

(* Unless the latest content was lost, it is the last that waits in the    *)
(* queue, or the tag has it or will get it from flash.                     *)
TagInd ==
  "lost" \notin doubt /\ server # 0 =>
    LastIs(loop, server) /\ (~Waiting(loop) => Delivered)

LEMMA AppendedContent ==
  ASSUME NEW q \in Queues, NEW e \in DownEvents, IsContent(e)
  PROVE  LastIs(Append(q, e), e.arg.nfc) /\ Waiting(Append(q, e))
<1>1. Len(Append(q, e)) = Len(q) + 1 /\ Append(q, e)[Len(q) + 1] = e /\ Len(q) \in Nat
  BY DEF Queues
<1>2. QED BY <1>1 DEF LastIs, Waiting

LEMMA AppendedOther ==
  ASSUME NEW q \in Queues, NEW e \in DownEvents, ~IsContent(e), NEW c
  PROVE  /\ LastIs(q, c) => LastIs(Append(q, e), c)
         /\ Waiting(Append(q, e)) <=> Waiting(q)
         /\ Queued(Append(q, e), "CTX_REGULAR") <=>
              Queued(q, "CTX_REGULAR") \/ e.ev = "CTX_REGULAR"
<1>1. /\ Len(Append(q, e)) = Len(q) + 1 /\ Append(q, e)[Len(q) + 1] = e /\ Len(q) \in Nat
      /\ \A i \in 1..Len(q) : Append(q, e)[i] = q[i]
  BY DEF Queues
<1> DEFINE r == Append(q, e)
<1> HIDE DEF r
<1>2. Waiting(r) <=> Waiting(q)
  BY <1>1 DEF Waiting, r
<1>3. Queued(r, "CTX_REGULAR") <=> Queued(q, "CTX_REGULAR") \/ e.ev = "CTX_REGULAR"
  BY <1>1 DEF Queued, r
<1>4. ASSUME LastIs(q, c) PROVE LastIs(r, c)
  <2> SUFFICES ASSUME NEW i \in 1..Len(r), IsContent(r[i]),
                      \A j \in 1..Len(r) : j > i => ~IsContent(r[j])
               PROVE  r[i].arg.nfc = c
    BY DEF LastIs
  <2>1. i \in 1..Len(q) /\ r[i] = q[i]
    BY <1>1 DEF r
  <2>2. \A j \in 1..Len(q) : j > i => ~IsContent(q[j])
    BY <1>1 DEF r
  <2>3. QED BY <1>4, <2>1, <2>2 DEF LastIs
<1>5. QED BY <1>2, <1>3, <1>4 DEF r

LEMMA TakenHead ==
  ASSUME NEW q \in Queues, q # <<>>, NEW c
  PROVE  /\ LastIs(q, c) => LastIs(Tail(q), c)
         /\ LastIs(q, c) /\ IsContent(Head(q)) /\ ~Waiting(Tail(q)) => Head(q).arg.nfc = c
         /\ Waiting(Tail(q)) => Waiting(q)
         /\ Waiting(q) => IsContent(Head(q)) \/ Waiting(Tail(q))
         /\ Queued(q, "CTX_REGULAR") <=>
              Head(q).ev = "CTX_REGULAR" \/ Queued(Tail(q), "CTX_REGULAR")
<1> DEFINE t == Tail(q)
<1>1. /\ Head(q) = q[1] /\ Len(q) \in Nat /\ Len(q) > 0 /\ Len(t) = Len(q) - 1
      /\ \A i \in 1..Len(t) : t[i] = q[i + 1]
  BY RestOfQueue
<1>2. \A i \in 2..Len(q) : i - 1 \in 1..Len(t) /\ t[i - 1] = q[i]
  BY <1>1
<1> HIDE DEF t
<1>3. Waiting(t) => Waiting(q)
  BY <1>1 DEF Waiting
<1>4. ASSUME Waiting(q) PROVE IsContent(Head(q)) \/ Waiting(t)
  <2>1. PICK i \in 1..Len(q) : IsContent(q[i])
    BY <1>4 DEF Waiting
  <2>2. CASE i = 1
    BY <2>1, <2>2, <1>1
  <2>3. CASE i \in 2..Len(q)
    BY <2>1, <2>3, <1>2 DEF Waiting
  <2>4. QED BY <1>1, <2>2, <2>3
<1>5. Queued(q, "CTX_REGULAR") <=> Head(q).ev = "CTX_REGULAR" \/ Queued(t, "CTX_REGULAR")
  <2>1. ASSUME Queued(q, "CTX_REGULAR")
        PROVE  Head(q).ev = "CTX_REGULAR" \/ Queued(t, "CTX_REGULAR")
    <3>1. PICK i \in 1..Len(q) : q[i].ev = "CTX_REGULAR"
      BY <2>1 DEF Queued
    <3>2. CASE i = 1
      BY <3>1, <3>2, <1>1
    <3>3. CASE i \in 2..Len(q)
      BY <3>1, <3>3, <1>2 DEF Queued
    <3>4. QED BY <1>1, <3>2, <3>3
  <2>2. Head(q).ev = "CTX_REGULAR" \/ Queued(t, "CTX_REGULAR") => Queued(q, "CTX_REGULAR")
    BY <1>1 DEF Queued
  <2>3. QED BY <2>1, <2>2
<1>6. ASSUME LastIs(q, c) PROVE LastIs(t, c)
  <2> SUFFICES ASSUME NEW i \in 1..Len(t), IsContent(t[i]),
                      \A j \in 1..Len(t) : j > i => ~IsContent(t[j])
               PROVE  t[i].arg.nfc = c
    BY DEF LastIs
  <2>1. i + 1 \in 1..Len(q) /\ t[i] = q[i + 1]
    BY <1>1
  <2>2. ASSUME NEW j \in 1..Len(q), j > i + 1 PROVE ~IsContent(q[j])
    <3>1. j - 1 \in 1..Len(t) /\ t[j - 1] = q[j] /\ j - 1 > i
      BY <1>1, <1>2, <2>2
    <3>2. QED BY <3>1
  <2>3. QED BY <1>6, <2>1, <2>2 DEF LastIs
<1>7. ASSUME LastIs(q, c), IsContent(Head(q)), ~Waiting(t) PROVE Head(q).arg.nfc = c
  <2>1. ASSUME NEW j \in 1..Len(q), j > 1 PROVE ~IsContent(q[j])
    <3>1. j \in 2..Len(q)
      BY <2>1
    <3>2. QED BY <1>2, <1>7, <3>1 DEF Waiting
  <2>2. QED BY <1>1, <1>7, <2>1 DEF LastIs
<1>8. QED BY <1>3, <1>4, <1>5, <1>6, <1>7 DEF t

LEMMA ServerKeepsTag ==
  ASSUME DownInd, TagInd, Server, UNCHANGED handler
  PROVE  TagInd'
<1> SUFFICES ASSUME "lost" \notin doubt', server' # 0
             PROVE  LastIs(loop', server') /\ (~Waiting(loop') => Delivered')
  BY DEF TagInd
<1>1. ASSUME NEW ble \in BleDocuments, ServerAnswers(ble)
      PROVE  LastIs(loop', server') /\ Waiting(loop')
  <2> DEFINE e == Answer(server, ble)
  <2>1. HasRoom(loop) /\ server' = server
    BY <1>1 DEF ServerAnswers, Carries
  <2>2. loop' = Append(loop, e)
    BY <1>1, <2>1 DEF ServerAnswers, Post
  <2>3. e \in DownEvents /\ e.arg.nfc = server /\ IsContent(e)
    <3>1. e \in DownEvents
      BY EventsOfServer DEF DownInd
    <3>2. e.arg.nfc = server /\ IsContent(e)
      BY <2>1 DEF Answer, Event, IsContent
    <3>3. QED BY <3>1, <3>2
  <2> HIDE DEF e
  <2>4. LastIs(Append(loop, e), e.arg.nfc) /\ Waiting(Append(loop, e))
    BY <2>3, AppendedContent DEF DownInd
  <2>5. QED BY <2>1, <2>2, <2>3, <2>4
<1>2. ASSUME NEW first \in Keys, NEW array \in BOOLEAN, ContentChanges(first, array)
      PROVE  LastIs(loop', server') /\ Waiting(loop')
  <2> DEFINE e == Update("nfc_content", server', array)
  <2>1. first = "nfc_content" /\ HasRoom(loop)
    BY <1>2 DEF ContentChanges, Carries
  <2>2. loop' = Append(loop, e)
    BY <1>2, <2>1 DEF ContentChanges, Post
  <2>3. e \in DownEvents /\ e.arg.nfc = server' /\ IsContent(e)
    <3>1. server' \in Contents
      BY ServerTyped DEF DownInd
    <3>2. e \in DownEvents
      BY <3>1, EventsOfServer DEF Keys
    <3>3. e.arg.nfc = server' /\ IsContent(e)
      BY DEF Update, Event, IsContent
    <3>4. QED BY <3>2, <3>3
  <2> HIDE DEF e
  <2>4. LastIs(Append(loop, e), e.arg.nfc) /\ Waiting(Append(loop, e))
    BY <2>3, AppendedContent DEF DownInd
  <2>5. QED BY <2>2, <2>3, <2>4
<1>3. ASSUME NEW first \in {"fw_title", "other"}, OthersChange(first)
      PROVE  LastIs(loop', server') /\ (~Waiting(loop') => Delivered')
  <2> DEFINE e == Update(first, 0, FALSE)
  <2>1. UNCHANGED <<server, nfc_content, flashOpen, tag, doubt>>
    BY <1>3 DEF OthersChange, storeVars
  <2>2. e \in DownEvents
    <3>1. first \in Keys /\ 0 \in Contents
      BY DownlinkAssumption DEF Keys, Contents
    <3>2. QED BY <3>1, EventsOfServer
  <2>3. ~IsContent(e) /\ e.ev # "CTX_REGULAR"
    BY DEF Update, Event, IsContent
  <2>4. loop' = loop \/ loop' = Append(loop, e)
    BY <1>3 DEF OthersChange, Post
  <2> HIDE DEF e
  <2>5. /\ LastIs(loop, server) => LastIs(loop', server)
        /\ Waiting(loop') <=> Waiting(loop)
        /\ Queued(loop', "CTX_REGULAR") <=> Queued(loop, "CTX_REGULAR")
    <3>1. /\ LastIs(loop, server) => LastIs(Append(loop, e), server)
          /\ Waiting(Append(loop, e)) <=> Waiting(loop)
          /\ Queued(Append(loop, e), "CTX_REGULAR") <=>
               Queued(loop, "CTX_REGULAR") \/ e.ev = "CTX_REGULAR"
      BY <2>2, <2>3, AppendedOther DEF DownInd
    <3>2. QED BY <2>3, <2>4, <3>1
  <2>6. LastIs(loop, server) /\ (~Waiting(loop) => Delivered)
    BY <2>1 DEF TagInd
  <2>7. QED BY <2>1, <2>5, <2>6 DEF Delivered, Pending
<1>4. QED BY <1>1, <1>2, <1>3 DEF Server, Keys

\* An event without a content is taken from the queue.
LEMMA OtherEventTaken ==
  ASSUME DownInd, TagInd, loop # <<>>, ~IsContent(Head(loop)), loop' = Tail(loop),
         UNCHANGED <<server, nfc_content, flashOpen, tag, doubt>>,
         Pending' <=> Pending
  PROVE  TagInd'
<1>1. /\ LastIs(loop, server) => LastIs(loop', server)
      /\ Waiting(loop) <=> Waiting(loop')
  BY TakenHead DEF DownInd
<1>2. QED BY <1>1 DEF TagInd, Delivered

LEMMA AnswerKeepsTag ==
  ASSUME DownInd, TagInd, OnAnswer, UNCHANGED handler
  PROVE  TagInd'
<1> SUFFICES ASSUME "lost" \notin doubt', server' # 0
             PROVE  LastIs(loop', server') /\ (~Waiting(loop') => Delivered')
  BY DEF TagInd
<1> DEFINE doc == Head(loop).arg
<1>1. loop # <<>> /\ Head(loop).ev = "DATA_METHOD" /\ server' = server
  BY DEF OnAnswer, IsNext, serverVars
<1>2. "lost" \notin doubt /\ LastIs(loop, server)
  BY <1>1 DEF OnAnswer, TagInd
<1>3. Tail(loop) \in Queues /\ HasRoom(Tail(loop))
  BY <1>1, RestOfQueue, QueueSizeAssumption DEF DownInd, HasRoom, Queues
<1>4. loop' = Append(Tail(loop), Regular)
  BY <1>3 DEF OnAnswer, Post
<1>5. Regular \in DownEvents /\ Regular.ev = "CTX_REGULAR" /\ ~IsContent(Regular)
  BY EventsOfServer DEF Regular, Event, IsContent
<1>6. LastIs(Tail(loop), server)
  BY <1>1, <1>2, TakenHead DEF DownInd
<1>7. LastIs(loop', server) /\ (Waiting(loop') <=> Waiting(Tail(loop))) /\ Pending'
  BY <1>3, <1>4, <1>5, <1>6, AppendedOther DEF Pending
<1>8. ASSUME ~Waiting(loop') PROVE Delivered'
  <2>1. CASE "unstored" \in doubt'
    BY <2>1 DEF Delivered
  <2>2. CASE "unstored" \notin doubt'
    <3>1. PICK okNfc \in Stores :
            /\ nfc_content' = SharedNfc(doc.nfc, okNfc)
            /\ doc.nfc # 0 /\ okNfc
      BY <2>2 DEF OnAnswer
    <3>2. doc.nfc = server
      <4>1. IsContent(Head(loop))
        BY <1>1, <3>1 DEF IsContent
      <4>2. QED BY <1>1, <1>2, <1>7, <1>8, <4>1, TakenHead DEF DownInd
    <3>3. nfc_content' = server'
      BY <1>1, <3>1, <3>2 DEF SharedNfc
    <3>4. flashOpen' = flashOpen /\ flashOpen
      BY <3>1 DEF OnAnswer, Stores
    <3>5. QED BY <1>7, <3>3, <3>4 DEF Delivered
  <2>3. QED BY <2>1, <2>2
<1>9. QED BY <1>1, <1>7, <1>8

LEMMA UpdateKeepsTag ==
  ASSUME DownInd, TagInd, OnContentUpdate, handler = "idle", UNCHANGED handler
  PROVE  TagInd'
<1> SUFFICES ASSUME "lost" \notin doubt', server' # 0
             PROVE  LastIs(loop', server') /\ (~Waiting(loop') => Delivered')
  BY DEF TagInd
<1>1. /\ loop # <<>> /\ Head(loop).ev = "DATA_ATTRIBUTE" /\ loop' = Tail(loop)
      /\ Head(loop).arg.key = "nfc_content" /\ server' = server
  BY DEF OnContentUpdate, IsNext, serverVars
<1>2. IsContent(Head(loop))
  BY <1>1 DEF IsContent
<1>3. "lost" \notin doubt /\ LastIs(loop, server)
  BY <1>1 DEF OnContentUpdate, TagInd
<1>4. LastIs(loop', server)
  BY <1>1, <1>3, TakenHead DEF DownInd
<1>5. ASSUME ~Waiting(loop') PROVE Delivered'
  <2>1. Head(loop).arg.nfc = server
    BY <1>1, <1>2, <1>3, <1>5, TakenHead DEF DownInd
  <2>2. tag' = server' \/ "failed" \in doubt'
    BY <1>1, <2>1 DEF OnContentUpdate, WritesTag
  <2>3. "late" \in doubt' \/ ~Queued(loop', "CTX_REGULAR")
    BY <1>1 DEF OnContentUpdate
  <2>4. QED BY <2>2, <2>3 DEF Delivered, Pending
<1>6. QED BY <1>1, <1>4, <1>5

LEMMA RegularKeepsTag ==
  ASSUME DownInd, TagInd, OnRegular
  PROVE  TagInd'
<1>1. /\ loop # <<>> /\ Head(loop).ev = "CTX_REGULAR" /\ loop' = Tail(loop)
      /\ UNCHANGED <<server, nfc_content, flashOpen, tag, doubt>> /\ handler' = "regular"
  BY DEF OnRegular, IsNext, serverVars, storeVars
<1>2. ~IsContent(Head(loop))
  BY <1>1 DEF IsContent
<1>3. Pending /\ Pending'
  BY <1>1, TakenHead DEF Pending, DownInd
<1>4. QED BY <1>1, <1>2, <1>3, OtherEventTaken

LEMMA RegularEndKeepsTag ==
  ASSUME DownInd, TagInd, RegularEnds
  PROVE  TagInd'
<1> SUFFICES ASSUME "lost" \notin doubt', server' # 0
             PROVE  LastIs(loop', server') /\ (~Waiting(loop') => Delivered')
  BY DEF TagInd
<1>1. UNCHANGED <<loop, server, nfc_content, flashOpen>> /\ Pending
  BY DEF RegularEnds, serverVars, storeVars, Pending
<1>2. "lost" \notin doubt /\ LastIs(loop, server) /\ (~Waiting(loop) => Delivered)
  BY <1>1 DEF RegularEnds, ContentFromNvs, TagInd
<1>3. /\ "late" \in doubt => "late" \in doubt'
      /\ "unstored" \in doubt => "unstored" \in doubt'
      /\ nfc_content = server /\ flashOpen => tag' = server \/ "failed" \in doubt'
  BY <1>1 DEF RegularEnds, ContentFromNvs, WritesTag
<1>4. ~Waiting(loop) => Delivered'
  BY <1>1, <1>2, <1>3 DEF Delivered
<1>5. QED BY <1>1, <1>2, <1>4

LEMMA TagStarts == Init => TagInd
BY DEF Init, DownInit, TagInd

LEMMA TagNext ==
  ASSUME DownInd, TagInd, [Next]_vars
  PROVE  TagInd'
<1>1. CASE OnRegular
  BY <1>1, RegularKeepsTag
<1>2. CASE RegularEnds
  BY <1>2, RegularEndKeepsTag
<1>3. CASE Restart
  <2>1. DownBoot(handler # "idle") /\ handler' = "idle"
    BY <1>3 DEF Restart
  <2> SUFFICES ASSUME "lost" \notin doubt', server' # 0
               PROVE  LastIs(loop', server') /\ (~Waiting(loop') => Delivered')
    BY DEF TagInd
  <2>2. /\ handler = "idle" /\ loop = <<>> /\ loop' = <<>> /\ flashOpen' = TRUE
        /\ UNCHANGED <<doubt, server, nfc_content, tag>>
    BY <2>1 DEF DownBoot, serverVars
  <2>3. LastIs(loop, server) /\ (~Waiting(loop) => Delivered)
    BY <2>2 DEF TagInd
  <2>4. Pending' <=> Pending
    BY <2>1, <2>2 DEF Pending
  <2>5. QED BY <2>2, <2>3, <2>4 DEF Delivered
<1>4. CASE UNCHANGED <<downVars, handler>>
  <2>1. UNCHANGED <<loop, server, nfc_content, flashOpen, tag, doubt, handler>>
    BY <1>4 DEF downVars, serverVars, storeVars
  <2>2. QED BY <2>1 DEF TagInd, Delivered, Pending
<1>5. CASE DownStep /\ UNCHANGED handler /\ ~OnRegular /\ ~RegularEnds /\ ~Restart
  <2>1. CASE Server
    BY <1>5, <2>1, ServerKeepsTag
  <2>2. CASE OnAnswer
    BY <1>5, <2>2, AnswerKeepsTag
  <2>3. CASE OnContentUpdate /\ handler = "idle"
    BY <1>5, <2>3, UpdateKeepsTag
  <2>4. CASE OnOtherUpdate \/ OnFirmware
    <3>1. /\ loop # <<>> /\ ~IsContent(Head(loop)) /\ Head(loop).ev # "CTX_REGULAR"
          /\ loop' = Tail(loop)
          /\ UNCHANGED <<server, nfc_content, flashOpen, tag, doubt>>
      BY <2>4 DEF OnOtherUpdate, OnFirmware, IsNext, IsContent, serverVars, storeVars
    <3>2. Pending' <=> Pending
      BY <1>5, <3>1, TakenHead DEF Pending, DownInd
    <3>3. QED BY <3>1, <3>2, OtherEventTaken
  <2>6. CASE Erase
    BY <1>5, <2>6 DEF Erase, serverVars, TagInd, Delivered
  <2>7. QED BY <1>5, <2>1, <2>2, <2>3, <2>4, <2>6 DEF DownStep
<1>6. QED BY <1>1, <1>2, <1>3, <1>4, <1>5, DownStepKinds

(* The tag of a node at rest has the content the server has, unless its    *)
(* event was lost, a write failed or a change overtook an answer: for any  *)
(* queue, any number of changes and answers, and restarts at any point.    *)
THEOREM LatestContentReachesTag == Spec => []TagHasLatestContent
<1>1. DownInd /\ TagInd => TagHasLatestContent
  <2> SUFFICES ASSUME DownInd, TagInd, Quiet, server # 0, doubt = {} PROVE tag = server
    BY DEF TagHasLatestContent
  <2>1. ~Waiting(loop) /\ ~Pending
    BY DEF Quiet, Waiting, Pending, Queued
  <2>2. QED BY <2>1 DEF TagInd, Delivered
<1>2. DownInd /\ TagInd /\ [Next]_vars => TagInd'
  BY TagNext
<1>3. QED BY <1>1, <1>2, TagStarts, DownInvariant, PTL DEF Spec
=============================================================================
