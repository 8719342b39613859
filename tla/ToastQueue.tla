----------------------------- MODULE ToastQueue -----------------------------
(***************************************************************************)
(* The moderator's toast queue (moderator/src/toast-queue.ts): one worker  *)
(* shows the toasts of every session one after the other, each for its own *)
(* duration, from a bounded list that drops its oldest entry.              *)
(*                                                                         *)
(* A step is what runs between two awaits of the worker.  An entry is its  *)
(* session and its place in the order of pushes.                           *)
(***************************************************************************)
EXTENDS Integers, Sequences

CONSTANTS
  Session,
  NoEntry,
  MAX_PENDING_TOASTS,   \* sixteen in the code
  MaxPushes             \* bound on pushes

VARIABLES
  pending,   \* the waiting entries
  worker,    \* active: none, show, pause, or end when run returned but its
             \* finally has not run
  visible,   \* the entry the worker shows, or NoEntry
  pushed     \* how many entries were pushed

toastVars == <<pending, worker, visible, pushed>>

Entry == [sessionID : Session, number : 1..MaxPushes]

ASSUME QueueAssumption ==
  /\ MAX_PENDING_TOASTS \in Nat \ {0}
  /\ MaxPushes \in Nat
  /\ NoEntry \notin Entry

ToastInit == pending = <<>> /\ worker = "none" /\ visible = NoEntry /\ pushed = 0

\* Mutation: the loop of run takes the newest entry.
runNewest(q) ==
  IF q = <<>>
  THEN pending' = q /\ worker' = "end" /\ visible' = NoEntry
  ELSE pending' = SubSeq(q, 1, Len(q) - 1) /\ worker' = "show" /\ visible' = q[Len(q)]

\* The loop of run up to its next await.
run(q) ==
  IF q = <<>>
  THEN pending' = q /\ worker' = "end" /\ visible' = NoEntry
  ELSE pending' = Tail(q) /\ worker' = "show" /\ visible' = Head(q)

\* start does nothing while a worker is active.
start(q) ==
  IF worker = "none" THEN run(q) ELSE pending' = q /\ UNCHANGED <<worker, visible>>

\* Mutation: a full list refuses the new entry.
addUnlessFull(entry) ==
  IF Len(pending) >= MAX_PENDING_TOASTS THEN pending ELSE Append(pending, entry)

\* The waiting entries after a push.
add(entry) ==
  LET q == Append(pending, entry)
  IN  IF Len(q) > MAX_PENDING_TOASTS THEN Tail(q) ELSE q

push(s) ==
  /\ pushed < MaxPushes
  /\ pushed' = pushed + 1
  /\ start(add([sessionID |-> s, number |-> pushed + 1]))

\* The entries of the other sessions stay, in their order: at lists their places.
removeSession(s) ==
  /\ LET kept == {i \in DOMAIN pending : pending[i].sessionID # s}
     IN  \E n \in 0..Len(pending) : \E at \in [1..n -> kept] :
           /\ \A i, j \in 1..n : i < j => at[i] < at[j]
           /\ \A k \in kept : \E i \in 1..n : at[i] = k
           /\ pending' = [i \in 1..n |-> pending[at[i]]]
  /\ UNCHANGED <<worker, visible, pushed>>

ShowReturns ==
  /\ worker = "show"
  /\ worker' = "pause"
  /\ UNCHANGED <<pending, visible, pushed>>

\* show or the pause fails: the error is reported and the loop goes on.
Fails ==
  /\ worker \in {"show", "pause"}
  /\ run(pending)
  /\ UNCHANGED pushed

PauseEnds ==
  /\ worker = "pause"
  /\ run(pending)
  /\ UNCHANGED pushed

\* Mutation: what was pushed since the loop ended is not looked at.
FinishesForGood ==
  /\ worker = "end"
  /\ worker' = "none"
  /\ UNCHANGED <<pending, visible, pushed>>

\* The finally of run: the worker is gone, and starts again if entries came.
Finishes ==
  /\ worker = "end"
  /\ IF pending = <<>>
     THEN worker' = "none" /\ UNCHANGED <<pending, visible>>
     ELSE run(pending)
  /\ UNCHANGED pushed

WorkerStep == ShowReturns \/ Fails \/ PauseEnds \/ Finishes

ToastNext == WorkerStep \/ \E s \in Session : push(s) \/ removeSession(s)

ToastSpec == ToastInit /\ [][ToastNext]_toastVars

\* showToast and the timer return or fail, and promise callbacks run.
ToastFairness == WF_toastVars(WorkerStep)

-----------------------------------------------------------------------------

\* No lost wake-up: entries wait only while a worker is active, also when one is
\* pushed between the end of the worker's loop and its finally
\* (toast-queue.ts:38-44).
WorkerForPending == pending # <<>> => worker # "none"

\* First in, first out over all sessions: what waits is in the order it was
\* pushed and younger than what is shown, and no younger toast is ever shown
\* before an older one that still waits.
FirstInFirstOut ==
  /\ \A i, j \in DOMAIN pending : i < j => pending[i].number < pending[j].number
  /\ visible # NoEntry => \A i \in DOMAIN pending : visible.number < pending[i].number

\* An entry leaves the list only to be shown, with its session, or as the oldest
\* of a full list that took a new one; the new one always gets in
\* (toast-queue.ts:47-56).
Waiting == {pending[i] : i \in DOMAIN pending}
Present(n) ==
  \/ \E e \in Waiting : e.number = n
  \/ visible # NoEntry /\ visible.number = n
DropsOnlyOldest ==
  [][/\ \A e \in Waiting \ Waiting' :
          \/ visible' = e
          \/ \E s \in Session : removeSession(s) /\ e.sessionID = s
          \/ /\ Len(pending) = MAX_PENDING_TOASTS
             /\ pushed' = pushed + 1
             /\ e = Head(pending)
     /\ pushed' # pushed => Present(pushed)']_toastVars

\* Every toast gets its turn: whatever is pushed is shown, removed with its
\* session or dropped at the bound; nothing waits for ever.
EveryToastLeaves ==
  \A n \in 1..MaxPushes :
    (\E e \in Waiting : e.number = n) ~> ~(\E e \in Waiting : e.number = n)
=============================================================================
