------------------------------ MODULE EventLoop ------------------------------
(***************************************************************************)
(* The default event loop of ESP-IDF, as this firmware uses it: one queue  *)
(* of CONFIG_ESP_SYSTEM_EVENT_QUEUE_SIZE entries, drained by the single    *)
(* task sys_evt, which runs every handler registered for an event before   *)
(* it takes the next.  Every esp_event_post of the firmware passes a       *)
(* timeout of 0 ticks and ignores the result, so an event posted to a full *)
(* queue is lost without a trace.  The loop itself is outside src/.        *)
(***************************************************************************)
EXTENDS Integers, Sequences

CONSTANT QueueSize   \* CONFIG_ESP_SYSTEM_EVENT_QUEUE_SIZE

ASSUME QueueSizeAssumption == QueueSize \in Nat \ {0}

\* An event: its identifier and its payload, a function (<<>> when it has none).
Event(ev, arg) == [ev |-> ev, arg |-> arg]

HasRoom(q) == Len(q) < QueueSize

\* esp_event_post(base, id, data, size, 0).
PostAnyway(q, e) == Append(q, e)
Post(q, e) == IF HasRoom(q) THEN Append(q, e) ELSE q

Queued(q, ev) == \E i \in 1..Len(q) : q[i].ev = ev
=============================================================================
