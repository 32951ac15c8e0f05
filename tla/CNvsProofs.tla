----------------------------- MODULE CNvsProofs -----------------------------
(***************************************************************************)
(* What c_nvs keeps however its calls interleave, for any tasks, keys and  *)
(* values, and however few handles there are.                              *)
(***************************************************************************)
EXTENDS CNvs, TLAPS

-----------------------------------------------------------------------------
(* The inductive invariant: what a task knows at each step of its call.    *)

\* A call goes only through the steps it has, and nothing has gone wrong before
\* the last.
StepsFit(t) ==
  /\ Busy(t) => call[t].key \in Keys
  /\ call[t].fn = "none" => ~Busy(t)
  /\ call[t].step \in {"size", "fill"} => call[t].fn = "read"
  /\ call[t].step \in {"set", "commit"} => call[t].fn = "write"
  /\ call[t].step \notin {"close", "returned"} => call[t].result = "NVS_OK"

Over(t) == call[t].step \in {"close", "returned"}

\* seen goes with the flash, and vouches for the result.
SeenKnows(t) ==
  /\ Busy(t) => flash[call[t].key] \in seen[t]
  /\ call[t].step = "commit" => call[t].buf \in seen[t]
  /\ call[t].step = "fill" => seen[t] # {NULL}
  /\ Over(t) /\ call[t].fn = "write" /\ call[t].result = "NVS_OK" => call[t].buf \in seen[t]
  /\ Over(t) /\ call[t].fn = "read" /\ call[t].result = "NVS_OK" => seen[t] # {NULL}
  /\ Over(t) /\ call[t].fn = "read" /\ call[t].result = "NVS_KEY_NOT_FOUND" =>
       NULL \in seen[t]

Delivered(t) ==
  \/ call[t].buf \in seen[t] \ {NULL}
  \/ call[t].buf = NULL /\ seen[t] \subseteq Empty

\* While a task is alone the flash and the handle do not change under it.
AloneKnows(t) ==
  /\ alone[t] /\ Busy(t) => \A u \in Tasks : Busy(u) => u = t
  /\ alone[t] /\ ready /\ call[t].fn = "read" =>
       /\ ~Over(t) => seen[t] = {flash[call[t].key]} /\ call[t].buf = NULL
       /\ call[t].step = "fill" =>
            /\ Valid /\ flash[call[t].key] # NULL
            /\ call[t].len = Length(flash[call[t].key])
       /\ Over(t) /\ call[t].result = "NVS_OK" => Delivered(t)

\* Without overlap there is one handle at most, that of the call under way.
OverlapKnows ==
  ~overlaps =>
    /\ \A t, u \in Tasks : Busy(t) /\ Busy(u) => t = u
    /\ open \subseteq {handle}
    /\ (\A t \in Tasks : call[t].step \in {"open", "returned"}) => open = {}

EraseKnows == ~ready => open = {}

NvsInd ==
  /\ TypeOK
  /\ \A t \in Tasks : StepsFit(t) /\ SeenKnows(t) /\ AloneKnows(t)
  /\ OverlapKnows
  /\ EraseKnows

-----------------------------------------------------------------------------
Calls == [fn : Fns, step : CallSteps, key : Keys \cup {NULL}, buf : Values \cup {NULL},
          len : 0..2, result : Results]

LEMMA NoCallTyped == NoCall \in Calls
  BY DEF NoCall, Calls, Fns, CallSteps, Results

LEMMA InitInd == Init => NvsInd
<1> SUFFICES ASSUME Init PROVE NvsInd
  OBVIOUS
<1>1. TypeOK
  BY NoCallTyped DEF Init, TypeOK, Calls
<1>2. \A t \in Tasks : StepsFit(t) /\ SeenKnows(t) /\ AloneKnows(t)
  BY DEF Init, NoCall, StepsFit, SeenKnows, Busy, AloneKnows, Over
<1>3. OverlapKnows /\ EraseKnows
  BY DEF Init, NoCall, OverlapKnows, EraseKnows, Busy
<1> QED
  BY <1>1, <1>2, <1>3 DEF NvsInd

LEMMA RestartInd ==
  ASSUME NvsInd, Restart
  PROVE  NvsInd'
<1>1. TypeOK'
  BY NoCallTyped DEF NvsInd, Restart, Booted, TypeOK, Calls
<1>2. \A t \in Tasks : (StepsFit(t) /\ SeenKnows(t) /\ AloneKnows(t))'
  BY DEF Restart, Booted, NoCall, StepsFit, SeenKnows, Busy, AloneKnows, Over
<1>3. OverlapKnows' /\ EraseKnows'
  BY DEF Restart, Booted, NoCall, OverlapKnows, EraseKnows, Busy
<1> QED
  BY <1>1, <1>2, <1>3 DEF NvsInd

LEMMA BeginInd ==
  ASSUME NvsInd, NEW t \in Tasks, NEW fn \in {"read", "write"}, NEW k \in Keys,
         NEW v \in Values \cup {NULL}, fn = "read" => v = NULL, Begin(t, fn, k, v)
  PROVE  NvsInd'
<1>1. TypeOK'
  <2>1. call' \in [Tasks -> [fn : Fns, step : CallSteps, key : Keys \cup {NULL},
                            buf : Values \cup {NULL}, len : 0..2, result : Results]]
    <3>1. [fn |-> fn, step |-> "open", key |-> k, buf |-> v, len |-> 0,
           result |-> "NVS_OK"] \in Calls
      BY DEF Calls, Fns, CallSteps, Results
    <3> QED
      BY <3>1 DEF NvsInd, TypeOK, Begin, Calls
  <2>2. /\ seen' \in [Tasks -> SUBSET (Values \cup {NULL})]
        /\ alone' \in [Tasks -> BOOLEAN]
        /\ overlaps' \in BOOLEAN
    BY DEF NvsInd, TypeOK, Begin
  <2> QED
    BY <2>1, <2>2 DEF NvsInd, TypeOK, Begin
<1>2. /\ call'[t] = [fn |-> fn, step |-> "open", key |-> k, buf |-> v, len |-> 0,
                     result |-> "NVS_OK"]
      /\ \A u \in Tasks \ {t} : call'[u] = call[u] /\ seen'[u] = seen[u]
      /\ seen'[t] = {flash[k]}
  BY DEF NvsInd, TypeOK, Begin
<1>3. /\ alone'[t] => \A u \in Tasks \ {t} : ~Busy(u)
      /\ \A u \in Tasks \ {t} : alone'[u] => alone[u] /\ ~Busy(u)
      /\ ~overlaps' => ~overlaps /\ \A u \in Tasks \ {t} : ~Busy(u)
  BY DEF NvsInd, TypeOK, Begin, Busy
<1>4. \A u \in Tasks : (StepsFit(u) /\ SeenKnows(u) /\ AloneKnows(u))'
  BY <1>2, <1>3 DEF NvsInd, Begin, StepsFit, SeenKnows, AloneKnows, Over, Delivered, Busy, Valid
<1>5. OverlapKnows' /\ EraseKnows'
  BY <1>2, <1>3 DEF NvsInd, Begin, OverlapKnows, EraseKnows, Busy
<1> QED
  BY <1>1, <1>4, <1>5 DEF NvsInd

LEMMA OpenInd ==
  ASSUME NvsInd, NEW t \in Tasks, Open(t)
  PROVE  NvsInd'
<1>1. TypeOK'
  BY DEF NvsInd, TypeOK, Open, Opened, Goto, Others, CallSteps
<1>2. /\ call'[t] = [call[t] EXCEPT !.step = IF call[t].fn = "read" THEN "size" ELSE "set"]
      /\ \A u \in Tasks \ {t} : call'[u] = call[u]
  BY DEF NvsInd, TypeOK, Open, Goto
<1>3. \A u \in Tasks : (StepsFit(u) /\ SeenKnows(u))'
  BY <1>2 DEF NvsInd, TypeOK, Fns, Open, Others, StepsFit, SeenKnows, Over, Busy
<1>4. \A u \in Tasks : AloneKnows(u)'
  BY <1>2 DEF NvsInd, TypeOK, Open, Others, StepsFit, AloneKnows, Over, Delivered, Busy, Valid
<1>5. OverlapKnows' /\ EraseKnows'
  <2>1. CASE ready /\ \E h \in Handles \ (open \cup {handle}) :
                        handle' = h /\ open' = open \cup {h}
    BY <1>2, <2>1 DEF NvsInd, TypeOK, Open, Others, OverlapKnows, EraseKnows, Busy
  <2>2. CASE UNCHANGED <<handle, open>>
    BY <1>2, <2>2 DEF NvsInd, TypeOK, Open, Others, OverlapKnows, EraseKnows, Busy
  <2> QED
    BY <2>1, <2>2 DEF Open, Opened
<1> QED
  BY <1>1, <1>3, <1>4, <1>5 DEF NvsInd

\* The steps in the middle of a call change this task's call and leave the handle.
Middle(t) ==
  /\ \A u \in Tasks \ {t} : call'[u] = call[u]
  /\ call'[t].fn = call[t].fn /\ call'[t].key = call[t].key
  /\ call[t].step \in CallSteps \ {"open", "close", "returned"}
  /\ call'[t].step \in CallSteps \ {"open", "returned"}
  /\ UNCHANGED <<ready, handle, open, alone, overlaps>>

LEMMA MiddleKeepsOverlap ==
  ASSUME NvsInd, NEW t \in Tasks, Middle(t)
  PROVE  OverlapKnows'
  BY DEF NvsInd, OverlapKnows, Middle, Busy

\* The result of a closing call, with the rest of the call.
LEMMA CloseWithEffect ==
  ASSUME NvsInd, NEW t \in Tasks, NEW r \in Results, CloseWith(t, r)
  PROVE  /\ call' \in [Tasks -> Calls]
         /\ call'[t] = [call[t] EXCEPT !.step = "close", !.result = r]
         /\ \A u \in Tasks \ {t} : call'[u] = call[u]
  BY DEF NvsInd, TypeOK, CloseWith, Calls, CallSteps

LEMMA LengthBound == \A v : Length(v) \in 0..2
  BY DEF Length

LEMMA MiddleInd ==
  ASSUME NvsInd, NEW t \in Tasks, Middle(t), call' \in [Tasks -> Calls],
         UNCHANGED <<flash, seen>>, (StepsFit(t) /\ SeenKnows(t) /\ AloneKnows(t))'
  PROVE  NvsInd'
<1>1. TypeOK' /\ EraseKnows'
  BY DEF NvsInd, TypeOK, Middle, Calls, EraseKnows
<1>2. \A u \in Tasks \ {t} : (StepsFit(u) /\ SeenKnows(u) /\ AloneKnows(u))'
  BY DEF NvsInd, Middle, StepsFit, SeenKnows, AloneKnows, Over, Delivered, Busy, Valid
<1> QED
  BY <1>1, <1>2, MiddleKeepsOverlap DEF NvsInd

\* A call that has failed.
LEMMA FailInd ==
  ASSUME NvsInd, NEW t \in Tasks, CloseWith(t, "NVS_ERR"),
         call[t].step \in CallSteps \ {"open", "close", "returned"},
         UNCHANGED <<flash, ready, handle, open, Others>>
  PROVE  NvsInd'
<1>1. /\ call' \in [Tasks -> Calls]
      /\ call'[t] = [call[t] EXCEPT !.step = "close", !.result = "NVS_ERR"]
      /\ \A u \in Tasks \ {t} : call'[u] = call[u]
  BY CloseWithEffect DEF Results
<1>2. Middle(t) /\ UNCHANGED <<flash, seen>>
  BY <1>1 DEF Middle, Others, CallSteps, NvsInd, TypeOK
<1>3. (StepsFit(t) /\ SeenKnows(t) /\ AloneKnows(t))'
  BY <1>1, <1>2 DEF NvsInd, TypeOK, CallSteps, Middle, StepsFit, SeenKnows, AloneKnows, Over, Busy
<1> QED
  BY <1>1, <1>2, <1>3, MiddleInd

LEMMA SizeInd ==
  ASSUME NvsInd, NEW t \in Tasks, Size(t)
  PROVE  NvsInd'
<1> DEFINE v == flash[call[t].key]
<1>1. /\ Busy(t) /\ ~Over(t) /\ call[t].step = "size" /\ call[t].fn = "read"
      /\ call[t].key \in Keys /\ call[t].result = "NVS_OK" /\ v \in seen[t]
      /\ call[t] \in Calls
      /\ UNCHANGED <<flash, ready, handle, open, Others>>
  BY DEF NvsInd, TypeOK, Calls, StepsFit, SeenKnows, Size, At, Busy, Over
<1>2. CASE CloseWith(t, "NVS_ERR")
  BY <1>1, <1>2, FailInd DEF CallSteps
<1>3. CASE v = NULL /\ CloseWith(t, "NVS_KEY_NOT_FOUND")
  <2>1. /\ call' \in [Tasks -> Calls]
        /\ call'[t] = [call[t] EXCEPT !.step = "close", !.result = "NVS_KEY_NOT_FOUND"]
        /\ \A u \in Tasks \ {t} : call'[u] = call[u]
    BY <1>3, CloseWithEffect DEF Results
  <2>2. Middle(t) /\ UNCHANGED <<flash, seen>>
    BY <1>1, <2>1 DEF Middle, Others, CallSteps, Calls
  <2>3. (StepsFit(t) /\ SeenKnows(t) /\ AloneKnows(t))'
    BY <1>1, <1>3, <2>1, <2>2
    DEF NvsInd, Calls, Middle, StepsFit, SeenKnows, AloneKnows, Over, Busy
  <2> QED
    BY <2>1, <2>2, <2>3, MiddleInd
<1>4. CASE /\ Valid /\ v # NULL
           /\ call' = [call EXCEPT ![t].len = Length(v),
                        ![t].step = IF Length(v) > 0 THEN "fill" ELSE "close"]
  <2>1. /\ call' \in [Tasks -> Calls]
        /\ call'[t] = [call[t] EXCEPT !.len = Length(v),
                         !.step = IF Length(v) > 0 THEN "fill" ELSE "close"]
        /\ \A u \in Tasks \ {t} : call'[u] = call[u]
    <3> DEFINE len == Length(v)
               step == IF Length(v) > 0 THEN "fill" ELSE "close"
    <3>1. len \in 0..2 /\ step \in CallSteps
      BY LengthBound DEF CallSteps
    <3>2. call' = [call EXCEPT ![t].len = len, ![t].step = step]
      BY <1>4
    <3>3. call \in [Tasks -> Calls]
      BY DEF NvsInd, TypeOK, Calls
    <3> HIDE DEF len, step
    <3>4. /\ call' \in [Tasks -> Calls]
          /\ call'[t] = [call[t] EXCEPT !.len = len, !.step = step]
          /\ \A u \in Tasks \ {t} : call'[u] = call[u]
      BY <3>1, <3>2, <3>3 DEF Calls
    <3> QED
      BY <3>4 DEF len, step
  <2>2. Middle(t) /\ UNCHANGED <<flash, seen>>
    BY <1>1, <2>1 DEF Middle, Others, CallSteps, Calls
  <2>3. (StepsFit(t) /\ SeenKnows(t))'
    BY <1>1, <1>4, <2>1, <2>2 DEF NvsInd, Calls, Middle, StepsFit, SeenKnows, Over, Busy
  <2>4. Length(v) = 0 <=> v \in Empty
    BY DEF Length
  <2>5. AloneKnows(t)'
    BY <1>1, <1>4, <2>1, <2>2, <2>4, LengthBound
    DEF NvsInd, Calls, Middle, AloneKnows, Over, Busy, Valid, Delivered, Length
  <2> QED
    BY <2>1, <2>2, <2>3, <2>5, MiddleInd
<1> QED
  BY <1>2, <1>3, <1>4 DEF Size

LEMMA FillInd ==
  ASSUME NvsInd, NEW t \in Tasks, Fill(t)
  PROVE  NvsInd'
<1> DEFINE v == flash[call[t].key]
           filled == Valid /\ v # NULL /\ Length(v) <= call[t].len
<1>1. /\ Busy(t) /\ ~Over(t) /\ call[t].step = "fill" /\ call[t].fn = "read"
      /\ call[t].key \in Keys /\ call[t].result = "NVS_OK" /\ v \in seen[t]
      /\ call[t] \in Calls /\ v \in Values \cup {NULL}
      /\ UNCHANGED <<flash, ready, handle, open, Others>>
  BY DEF NvsInd, TypeOK, Calls, StepsFit, SeenKnows, Fill, At, Busy, Over
<1>2. /\ call' \in [Tasks -> Calls]
      /\ call'[t] = [call[t] EXCEPT !.step = "close", !.buf = IF filled THEN v ELSE @]
      /\ \A u \in Tasks \ {t} : call'[u] = call[u]
  BY <1>1 DEF Fill, NvsInd, TypeOK, Calls, CallSteps
<1>3. Middle(t) /\ UNCHANGED <<flash, seen>>
  BY <1>1, <1>2 DEF Middle, Others, CallSteps, Calls
<1>4. (StepsFit(t) /\ SeenKnows(t))'
  BY <1>1, <1>2, <1>3 DEF NvsInd, Calls, Middle, StepsFit, SeenKnows, Over, Busy
<1>5. AloneKnows(t)'
  <2>1. alone[t] /\ ready => Valid /\ v # NULL /\ call[t].len = Length(v)
    BY <1>1 DEF NvsInd, AloneKnows
  <2>2. alone[t] /\ ready => call'[t].buf = v
    BY <1>1, <1>2, <2>1, LengthBound DEF Calls
  <2> QED
    BY <1>1, <1>2, <1>3, <2>1, <2>2
    DEF NvsInd, Calls, Middle, AloneKnows, Over, Busy, Delivered
<1> QED
  BY <1>2, <1>3, <1>4, <1>5, MiddleInd

LEMMA SetInd ==
  ASSUME NvsInd, NEW t \in Tasks, Set(t)
  PROVE  NvsInd'
<1>1. /\ Busy(t) /\ call[t].step = "set" /\ call[t].fn = "write"
      /\ call[t].key \in Keys /\ call[t].result = "NVS_OK"
      /\ call[t] \in Calls
  BY DEF NvsInd, TypeOK, Calls, StepsFit, Set, At, Busy
<1>2. CASE CloseWith(t, "NVS_ERR") /\ UNCHANGED <<flash, seen>>
  BY <1>1, <1>2, FailInd DEF CallSteps, Set, Others
<1>3. CASE /\ Valid
           /\ flash' = [flash EXCEPT ![call[t].key] = call[t].buf]
           /\ Goto(t, "commit")
           /\ seen' = [u \in Tasks |-> seen[u] \cup
                IF Busy(u) /\ call[u].key = call[t].key THEN {call[t].buf} ELSE {}]
  <2>1. /\ call' \in [Tasks -> Calls]
        /\ call'[t] = [call[t] EXCEPT !.step = "commit"]
        /\ \A u \in Tasks \ {t} : call'[u] = call[u]
    BY <1>3 DEF Goto, NvsInd, TypeOK, Calls, CallSteps
  <2>2. Middle(t)
    BY <1>1, <2>1 DEF Set, Middle, CallSteps, Calls
  <2>3. /\ flash' \in [Keys -> Values \cup {NULL}]
        /\ seen' \in [Tasks -> SUBSET (Values \cup {NULL})]
    BY <1>1, <1>3 DEF NvsInd, TypeOK, Calls
  <2>4. /\ \A k \in Keys \ {call[t].key} : flash'[k] = flash[k]
        /\ flash'[call[t].key] = call[t].buf
        /\ \A u \in Tasks : seen[u] \subseteq seen'[u]
        /\ \A u \in Tasks : Busy(u) /\ call[u].key = call[t].key => call[t].buf \in seen'[u]
        /\ \A u \in Tasks : ~Busy(u) => seen'[u] = seen[u]
    BY <1>1, <1>3 DEF NvsInd, TypeOK
  <2>5. TypeOK' /\ EraseKnows'
    BY <1>3, <2>1, <2>2, <2>3 DEF NvsInd, TypeOK, Middle, Calls, EraseKnows, Valid
  <2>6. \A u \in Tasks : StepsFit(u)'
    BY <1>1, <2>1 DEF NvsInd, Calls, StepsFit, Busy
  <2>7. \A u \in Tasks : SeenKnows(u)'
    <3> TAKE u \in Tasks
    <3>1. Busy(u) => flash'[call[u].key] \in seen'[u] /\ call[u].key \in Keys
      BY <1>1, <2>4 DEF NvsInd, StepsFit, SeenKnows
    <3>2. CASE u = t
      BY <1>1, <2>1, <2>4, <3>1, <3>2 DEF Calls, SeenKnows, Over, Busy
    <3>3. CASE u # t
      <4>1. call'[u] = call[u]
        BY <2>1, <3>3
      <4>2. seen[u] # {NULL} /\ flash[call[u].key] \in seen[u] => seen'[u] # {NULL}
        BY <2>4
      <4>3. ~Busy(u) \/ flash[call[u].key] \in seen[u]
        BY DEF NvsInd, SeenKnows
      <4> QED
        BY <2>4, <3>1, <4>1, <4>2, <4>3 DEF NvsInd, SeenKnows, Over, Busy
    <3> QED
      BY <3>2, <3>3
  <2>8. \A u \in Tasks : AloneKnows(u)'
    BY <1>1, <2>1, <2>2, <2>4
    DEF NvsInd, Calls, Middle, AloneKnows, Over, Busy, Delivered
  <2> QED
    BY <2>2, <2>5, <2>6, <2>7, <2>8, MiddleKeepsOverlap DEF NvsInd
<1> QED
  BY <1>2, <1>3 DEF Set

LEMMA CommitInd ==
  ASSUME NvsInd, NEW t \in Tasks, Commit(t)
  PROVE  NvsInd'
<1>1. /\ call[t].step = "commit" /\ call[t].fn = "write" /\ call[t].key \in Keys
      /\ call[t].buf \in seen[t] /\ flash[call[t].key] \in seen[t] /\ call[t] \in Calls
      /\ UNCHANGED <<flash, ready, handle, open, Others>>
  BY DEF NvsInd, TypeOK, Calls, StepsFit, SeenKnows, Commit, At, Busy
<1>2. CASE ~Valid
  BY <1>1, <1>2, FailInd DEF CallSteps, Commit
<1>3. CASE Valid
  <2>1. /\ call' \in [Tasks -> Calls]
        /\ call'[t] = [call[t] EXCEPT !.step = "close", !.result = "NVS_OK"]
        /\ \A u \in Tasks \ {t} : call'[u] = call[u]
    BY <1>3, CloseWithEffect DEF Commit, Results
  <2>2. Middle(t) /\ UNCHANGED <<flash, seen>>
    BY <1>1, <2>1 DEF Middle, Others, CallSteps, Calls
  <2>3. (StepsFit(t) /\ SeenKnows(t) /\ AloneKnows(t))'
    BY <1>1, <2>1, <2>2
    DEF NvsInd, Calls, Middle, StepsFit, SeenKnows, AloneKnows, Over, Busy
  <2> QED
    BY <2>1, <2>2, <2>3, MiddleInd
<1> QED
  BY <1>2, <1>3

LEMMA CloseInd ==
  ASSUME NvsInd, NEW t \in Tasks, Close(t)
  PROVE  NvsInd'
<1>1. /\ call[t].step = "close" /\ call[t] \in Calls /\ call[t].key \in Keys
      /\ open' = open \ {handle}
      /\ UNCHANGED <<flash, ready, handle, Others>>
  BY DEF NvsInd, TypeOK, Calls, StepsFit, Close, Busy
<1>2. /\ call' \in [Tasks -> Calls]
      /\ call'[t] = [call[t] EXCEPT !.step = "returned"]
      /\ \A u \in Tasks \ {t} : call'[u] = call[u]
  BY DEF Close, Goto, NvsInd, TypeOK, Calls, CallSteps
<1>3. TypeOK' /\ EraseKnows'
  BY <1>1, <1>2 DEF NvsInd, TypeOK, Calls, EraseKnows, Others
<1>4. \A u \in Tasks : (StepsFit(u) /\ SeenKnows(u))'
  BY <1>1, <1>2 DEF NvsInd, Calls, Others, StepsFit, SeenKnows, Over, Busy
<1>5. AloneKnows(t)'
  BY <1>1, <1>2 DEF NvsInd, Calls, Others, AloneKnows, Over, Busy, Delivered
<1>6. ASSUME NEW u \in Tasks \ {t}
      PROVE  AloneKnows(u)'
  <2>1. ~(alone[u] /\ Busy(u))
    BY <1>1, <1>6 DEF NvsInd, AloneKnows, Busy
  <2>2. AloneKnows(u)
    BY <1>6 DEF NvsInd
  <2> QED
    BY <1>1, <1>2, <1>6, <2>1, <2>2 DEF Others, AloneKnows, Over, Busy, Delivered
<1>7. OverlapKnows'
  BY <1>1, <1>2 DEF NvsInd, Calls, Others, OverlapKnows, Busy
<1> QED
  BY <1>3, <1>4, <1>5, <1>6, <1>7 DEF NvsInd

LEMMA EraseInd ==
  ASSUME NvsInd, Erase
  PROVE  NvsInd'
<1>0. PICK kept \in SUBSET Keys : Erases(kept)
  BY DEF Erase
<1>1. /\ ready' = FALSE /\ open' = {}
      /\ \A u \in Tasks : /\ seen[u] \subseteq seen'[u]
                          /\ Busy(u) => flash'[call[u].key] \in seen'[u]
                          /\ ~Busy(u) => seen'[u] = seen[u]
      /\ UNCHANGED <<handle, call, alone, overlaps>>
  BY <1>0 DEF Erase, Erases, NvsInd, TypeOK
<1>2. TypeOK'
  <2>1. flash' \in [Keys -> Values \cup {NULL}]
    BY <1>0 DEF Erases, NvsInd, TypeOK
  <2>2. \A u \in Tasks : Busy(u) => flash'[call[u].key] \in Values \cup {NULL}
    BY <2>1 DEF NvsInd, StepsFit
  <2>3. seen' \in [Tasks -> SUBSET (Values \cup {NULL})]
    BY <1>0, <2>2 DEF Erases, NvsInd, TypeOK
  <2> QED
    BY <1>1, <2>1, <2>3 DEF NvsInd, TypeOK
<1>3. \A u \in Tasks : (StepsFit(u) /\ AloneKnows(u))'
  BY <1>1 DEF NvsInd, StepsFit, AloneKnows, Busy
<1>4. \A u \in Tasks : SeenKnows(u)'
  <2> TAKE u \in Tasks
  <2>1. Busy(u) => flash'[call[u].key] \in seen'[u] /\ call[u].key \in Keys
    BY <1>1 DEF NvsInd, StepsFit
  <2>2. seen[u] # {NULL} /\ flash[call[u].key] \in seen[u] => seen'[u] # {NULL}
    BY <1>1
  <2>3. ~Busy(u) \/ flash[call[u].key] \in seen[u]
    BY DEF NvsInd, SeenKnows
  <2> QED
    BY <1>1, <2>1, <2>2, <2>3 DEF NvsInd, SeenKnows, Over, Busy
<1>5. OverlapKnows' /\ EraseKnows'
  BY <1>1 DEF NvsInd, OverlapKnows, EraseKnows, Busy
<1> QED
  BY <1>2, <1>3, <1>4, <1>5 DEF NvsInd

-----------------------------------------------------------------------------
LEMMA StepInd == NvsInd /\ [Next]_vars => NvsInd'
<1> SUFFICES ASSUME NvsInd, [Next]_vars
             PROVE  NvsInd'
  OBVIOUS
<1>1. ASSUME NEW t \in Tasks, NEW k \in Keys, BeginRead(t, k)
      PROVE  NvsInd'
  BY <1>1, BeginInd DEF BeginRead
<1>2. ASSUME NEW t \in Tasks, NEW k \in Keys, NEW v \in Values, BeginWrite(t, k, v)
      PROVE  NvsInd'
  BY <1>2, BeginInd DEF BeginWrite
<1>3. CASE Restart
  BY <1>3, RestartInd
<1>4. CASE UNCHANGED vars
  BY <1>4 DEF vars, NvsInd, TypeOK, StepsFit, SeenKnows, AloneKnows, OverlapKnows,
              EraseKnows, Over, Delivered, Busy, Valid
<1> QED
  BY <1>1, <1>2, <1>3, <1>4, OpenInd, SizeInd, FillInd, SetInd, CommitInd, CloseInd, EraseInd
  DEF Next

LEMMA NvsInductive == Spec => []NvsInd
  BY InitInd, StepInd, PTL DEF Spec

\* The variables of c_nvs keep their types.
THEOREM NvsTypeCorrect == Spec => []TypeOK
<1>1. NvsInd => TypeOK
  BY DEF NvsInd
<1> QED
  BY <1>1, NvsInductive, PTL

\* A result is true of some moment of the call that returns it (c_nvs.c:47-102).
THEOREM NoFalseResult == Spec => []ResultsAreEarned
<1>1. NvsInd => ResultsAreEarned
  BY DEF NvsInd, SeenKnows, ResultsAreEarned, Returned, Over, Busy
<1> QED
  BY <1>1, NvsInductive, PTL

\* A read that nothing overlaps delivers its value (c_nvs.c:76-85).
THEOREM UndisturbedRead == Spec => []ReadDeliversAlone
<1>1. NvsInd => ReadDeliversAlone
  BY DEF NvsInd, AloneKnows, Delivered, ReadDeliversAlone, Returned, Over, Busy
<1> QED
  BY <1>1, NvsInductive, PTL

LEMMA NothingWrittenOnceErased ==
  ASSUME NvsInd, [Next]_vars, ~ready
  PROVE  UNCHANGED flash
<1>1. ASSUME NEW t \in Tasks, NEW k \in Keys, NEW v \in Values,
             BeginRead(t, k) \/ BeginWrite(t, k, v)
      PROVE  UNCHANGED flash
  BY <1>1 DEF BeginRead, BeginWrite, Begin
<1>2. ASSUME NEW t \in Tasks, Open(t) \/ Size(t) \/ Fill(t) \/ Commit(t) \/ Close(t)
      PROVE  UNCHANGED flash
  BY <1>2 DEF Open, Size, Fill, Commit, Close
<1>3. ASSUME NEW t \in Tasks, Set(t) PROVE UNCHANGED flash
  BY <1>3 DEF Set, Valid, NvsInd, EraseKnows
<1>4. ASSUME NEW t \in Tasks, NEW k \in Keys, BeginRead(t, k) PROVE UNCHANGED flash
  BY <1>4 DEF BeginRead, Begin
<1>5. CASE Restart \/ UNCHANGED vars
  BY <1>5 DEF Restart, vars
<1> QED
  BY <1>1, <1>2, <1>3, <1>4, <1>5 DEF Next, Erase

(* Nothing is written between the erasure and the restart, whatever the    *)
(* erasure has left (c_nvs.c:129-135).                                     *)
THEOREM ErasedForGood == Spec => EraseIsFinal
<1>1. NvsInd /\ [Next]_vars => [~ready => UNCHANGED flash]_vars
  BY NothingWrittenOnceErased
<1> QED
  BY <1>1, NvsInductive, PTL DEF Spec, EraseIsFinal

\* As long as no two calls overlap every handle is closed again (c_nvs.c:66, 100).
THEOREM NoLeakAlone == Spec => []LeaksOnlyByOverlap
<1>1. NvsInd => LeaksOnlyByOverlap
  BY DEF NvsInd, OverlapKnows, LeaksOnlyByOverlap, Busy
<1> QED
  BY <1>1, NvsInductive, PTL
=============================================================================
