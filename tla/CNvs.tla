-------------------------------- MODULE CNvs --------------------------------
(***************************************************************************)
(* components/c_nvs/c_nvs.c: strings in flash, for any number of tasks.    *)
(*                                                                         *)
(* Every call opens a handle, uses it in one or two calls of the NVS       *)
(* library and closes it.  The handle is one static variable, nothing is   *)
(* locked: sys_evt writes and reads, the Bluetooth task reads ble_content  *)
(* whenever a client reads the characteristic, the timer task erases.      *)
(*                                                                         *)
(* The NVS library is outside src/: its calls are atomic (it has a lock of *)
(* its own), a handle is never given twice, and erasing the flash makes    *)
(* every handle invalid.                                                   *)
(***************************************************************************)
EXTENDS Naturals

CONSTANTS
  NULL,
  Tasks, Writers,   \* those that call at all, those that write
  Keys, Values,
  Long,             \* the values that do not fit where the others do
  Empty,            \* those without a character
  Handles           \* bound: how many handles the heap has room for, and one

ASSUME NvsAssumption ==
  /\ Writers \subseteq Tasks
  /\ NULL \notin Values /\ Long \subseteq Values /\ Empty \subseteq Values \ Long

VARIABLES
  flash,
  ready,        \* FALSE from nvs_flash_erase to the restart
  handle,       \* _nvs_handle
  open,         \* the handles that are open
  call,         \* of each task, the call it is in or was in last
  seen,         \* history: what its key has held since the call began
  alone,        \* history: whether no other call overlapped it
  overlaps      \* history: whether any two did in this boot

vars == <<flash, ready, handle, open, call, seen, alone, overlaps>>

Results == {"NVS_OK", "NVS_ERR", "NVS_KEY_NOT_FOUND"}

\* buf: what is to be written, or what was read; NULL is whatever the buffer of
\* the caller held before.
NoCall == [fn |-> "none", step |-> "returned", key |-> NULL, buf |-> NULL, len |-> 0,
           result |-> "NVS_OK"]

Length(v) == IF v \in Empty THEN 0 ELSE IF v \in Long THEN 2 ELSE 1

Booted ==
  /\ ready' = TRUE /\ handle' = NULL /\ open' = {}
  /\ call' = [t \in Tasks |-> NoCall]
  /\ seen' = [t \in Tasks |-> {}]
  /\ alone' = [t \in Tasks |-> TRUE] /\ overlaps' = FALSE

Init ==
  /\ flash \in [Keys -> Values \cup {NULL}]
  /\ ready = TRUE /\ handle = NULL /\ open = {}
  /\ call = [t \in Tasks |-> NoCall]
  /\ seen = [t \in Tasks |-> {}]
  /\ alone = [t \in Tasks |-> TRUE] /\ overlaps = FALSE

-----------------------------------------------------------------------------
Busy(t) == call[t].step # "returned"
At(t, fn, step) == call[t].fn = fn /\ call[t].step = step

Valid == handle \in open

Goto(t, step) == call' = [call EXCEPT ![t].step = step]
CloseWith(t, result) ==
  call' = [call EXCEPT ![t].step = "close", ![t].result = result]

Others == <<seen, alone, overlaps>>

Begin(t, fn, k, v) ==
  /\ ~Busy(t)
  /\ call' = [call EXCEPT ![t] = [fn |-> fn, step |-> "open", key |-> k, buf |-> v,
                                  len |-> 0, result |-> "NVS_OK"]]
  /\ seen' = [seen EXCEPT ![t] = {flash[k]}]
  /\ LET with == {u \in Tasks \ {t} : Busy(u)}
     IN /\ alone' = [u \in Tasks |-> IF u = t THEN with = {}
                                     ELSE alone[u] /\ u \notin with]
        /\ overlaps' = (overlaps \/ with # {})
  /\ UNCHANGED <<flash, ready, handle, open>>

BeginRead(t, k) == Begin(t, "read", k, NULL)
BeginWrite(t, k, v) == t \in Writers /\ Begin(t, "write", k, v)

(* _nvs_open_storage.  When it fails this is logged, and the call goes on  *)
(* with the handle that happens to be there.                               *)
Opened(t) ==
  \/ /\ ready
     /\ \E h \in Handles \ (open \cup {handle}) : handle' = h /\ open' = open \cup {h}
  \/ /\ ~ready \/ Handles \subseteq open \cup {handle}
     /\ UNCHANGED <<handle, open>>

Open(t) ==
  /\ call[t].step = "open"
  /\ Opened(t)
  /\ Goto(t, IF call[t].fn = "read" THEN "size" ELSE "set")
  /\ UNCHANGED <<flash, ready, Others>>

SizeReturnsEarly(t) ==
  /\ At(t, "read", "size")
  /\ Valid /\ flash[call[t].key] = NULL
  /\ call' = [call EXCEPT ![t].step = "returned", ![t].result = "NVS_KEY_NOT_FOUND"]
  /\ UNCHANGED <<flash, ready, handle, open, Others>>

SizeRawError(t) ==
  /\ At(t, "read", "size")
  /\ ~Valid
  /\ CloseWith(t, "ESP_ERR_NVS_INVALID_HANDLE")
  /\ UNCHANGED <<flash, ready, handle, open, Others>>

\* The first nvs_get_blob asks for the length; there may be no buffer.
Size(t) ==
  /\ At(t, "read", "size")
  /\ LET v == flash[call[t].key]
     IN CASE ~Valid             -> CloseWith(t, "NVS_ERR")
          [] Valid /\ v = NULL  -> CloseWith(t, "NVS_KEY_NOT_FOUND")
          [] OTHER -> \/ CloseWith(t, "NVS_ERR")
                      \/ call' = [call EXCEPT ![t].len = Length(v),
                           ![t].step = IF Length(v) > 0 THEN "fill" ELSE "close"]
  /\ UNCHANGED <<flash, ready, handle, open, Others>>

FillOneShort(t) ==
  /\ At(t, "read", "fill")
  /\ LET v == flash[call[t].key]
         filled == Valid /\ v # NULL /\ Length(v) < call[t].len
     IN call' = [call EXCEPT ![t].step = "close",
                             ![t].buf = IF filled THEN v ELSE @]
  /\ UNCHANGED <<flash, ready, handle, open, Others>>

(* The second fills the buffer, if the handle is still good and the value  *)
(* still there and no longer than it was.  Its result is not looked at.    *)
Fill(t) ==
  /\ At(t, "read", "fill")
  /\ LET v == flash[call[t].key]
         filled == Valid /\ v # NULL /\ Length(v) <= call[t].len
     IN call' = [call EXCEPT ![t].step = "close",
                             ![t].buf = IF filled THEN v ELSE @]
  /\ UNCHANGED <<flash, ready, handle, open, Others>>

SetGoesOn(t) ==
  /\ At(t, "write", "set")
  /\ Goto(t, "commit")
  /\ UNCHANGED <<flash, ready, handle, open, Others>>

\* nvs_set_blob; it may find the flash full.
Set(t) ==
  /\ At(t, "write", "set")
  /\ \/ /\ Valid
        /\ flash' = [flash EXCEPT ![call[t].key] = call[t].buf]
        /\ Goto(t, "commit")
        /\ seen' = [u \in Tasks |-> seen[u] \cup
                      IF Busy(u) /\ call[u].key = call[t].key THEN {call[t].buf} ELSE {}]
     \/ CloseWith(t, "NVS_ERR") /\ UNCHANGED <<flash, seen>>
  /\ UNCHANGED <<ready, handle, open, alone, overlaps>>

Commit(t) ==
  /\ At(t, "write", "commit")
  /\ CloseWith(t, IF Valid THEN "NVS_OK" ELSE "NVS_ERR")
  /\ UNCHANGED <<flash, ready, handle, open, Others>>

\* nvs_close, of whatever handle is there now.
Close(t) ==
  /\ call[t].step = "close"
  /\ open' = open \ {handle}
  /\ Goto(t, "returned")
  /\ UNCHANGED <<flash, ready, handle, Others>>

\* What the partition has left of the keys.
Erases(kept) ==
  /\ flash' = [k \in Keys |-> IF k \in kept THEN flash[k] ELSE NULL]
  /\ seen' = [t \in Tasks |-> IF Busy(t) THEN seen[t] \cup {flash'[call[t].key]} ELSE seen[t]]
  /\ UNCHANGED <<handle, call, alone, overlaps>>

EraseNamespace ==
  /\ ready /\ ready' = FALSE
  /\ \E kept \in SUBSET Keys : Erases(kept)
  /\ UNCHANGED open

(* _nvs_delete_all.  The library closes the storage and every handle       *)
(* before it erases; when that fails some of the keys are left, or all.    *)
Erase ==
  /\ ready /\ ready' = FALSE
  /\ \E kept \in SUBSET Keys : Erases(kept)
  /\ open' = {}

Restart == Booted /\ UNCHANGED flash

Next ==
  \/ \E t \in Tasks :
       \/ \E k \in Keys : BeginRead(t, k) \/ \E v \in Values : BeginWrite(t, k, v)
       \/ Open(t) \/ Size(t) \/ Fill(t) \/ Set(t) \/ Commit(t) \/ Close(t)
  \/ Erase \/ Restart

Spec == Init /\ [][Next]_vars

-----------------------------------------------------------------------------
Fns == {"none", "read", "write"}
CallSteps == {"open", "size", "fill", "set", "commit", "close", "returned"}

\* Every variable has its type.
TypeOK ==
  /\ flash \in [Keys -> Values \cup {NULL}]
  /\ ready \in BOOLEAN
  /\ handle \in Handles \cup {NULL}
  /\ open \subseteq Handles
  /\ call \in [Tasks -> [fn : Fns, step : CallSteps, key : Keys \cup {NULL},
                         buf : Values \cup {NULL}, len : 0..2, result : Results]]
  /\ seen \in [Tasks -> SUBSET (Values \cup {NULL})]
  /\ alone \in [Tasks -> BOOLEAN]
  /\ overlaps \in BOOLEAN

Returned(t, fn, result) ==
  call[t].fn = fn /\ ~Busy(t) /\ call[t].result = result

(* Whatever the other tasks do to the handle meanwhile, a call that says   *)
(* OK has stored its value, or found one, and one that says KEY_NOT_FOUND  *)
(* found none, at some moment of the call (c_nvs.c:47-102).                *)
ResultsAreEarned ==
  \A t \in Tasks :
    /\ Returned(t, "write", "NVS_OK") => call[t].buf \in seen[t]
    /\ Returned(t, "read", "NVS_OK") => seen[t] # {NULL}
    /\ Returned(t, "read", "NVS_KEY_NOT_FOUND") => NULL \in seen[t]

(* "Read the value associated with key and store it in str" (c_nvs.h:22).  *)
ReadDelivers ==
  \A t \in Tasks :
    Returned(t, "read", "NVS_OK") /\ ready => call[t].buf \in seen[t] \ {NULL}

(* It does when no other call and no erasure came in between: the handle   *)
(* and the length are still those of the first half (c_nvs.c:76-85).  Only  *)
(* an empty value leaves in the buffer what was there.                     *)
ReadDeliversAlone ==
  \A t \in Tasks :
    Returned(t, "read", "NVS_OK") /\ alone[t] /\ ready =>
      \/ call[t].buf \in seen[t] \ {NULL}
      \/ call[t].buf = NULL /\ seen[t] \subseteq Empty

(* The erasure is final, whether all was erased or not: a call that it     *)
(* caught half-way, or that starts before the restart, writes nothing to   *)
(* what is left (c_nvs.c:129-135).                                         *)
EraseIsFinal == [][~ready => UNCHANGED flash]_vars

(* Handles are left open only by calls that overlap; without that every    *)
(* call closes the one it opened, however it ends (c_nvs.c:66, 100).       *)
LeaksOnlyByOverlap ==
  ~overlaps /\ (\A t \in Tasks : ~Busy(t)) => open = {}
=============================================================================
