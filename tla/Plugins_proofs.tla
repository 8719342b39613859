---------------------------- MODULE Plugins_proofs ----------------------------
(***************************************************************************)
(* The parts of the moderator that stand beside its sessions, and the      *)
(* hooks of AgentCI, for every value of their constants: the list of       *)
(* models stays one the plugin will take, the toast queue loses no toast   *)
(* and shows none out of turn, one classification gives the verdict of a   *)
(* call it awaited or has tried all there were, and the hooks apply the    *)
(* policies meant for their calls, each once and in order.                 *)
(*                                                                         *)
(* FileUsable is not inductive: a pick puts its selector in front of the   *)
(* rest of the list it has read, so that list has to be usable too.  Nor   *)
(* is FirstInFirstOut: a new toast is the youngest only if no number above *)
(* that of the last push waits or is shown.  The argument about the        *)
(* classifier is one count: the calls made are those of the whole cycles   *)
(* that went before, those of this cycle, and the one that is awaited.     *)
(* EveryPolicyApplied speaks of hooks that have ended; its invariant says  *)
(* of one that is under way that it has pushed the policies meant for its  *)
(* call up to the place it has reached, and of the evidence that it names  *)
(* the hooks that ended well, once each.                                   *)
(***************************************************************************)
EXTENDS ModelSource, ToastQueue, Classifier, AgentCI, FiniteSetTheorems, TLAPS

\* The list of models.  A list whose fallbacks have all been checked against the config,
\* or are those of the template.
Usable(models) ==
  /\ models \in Seq(Selector)
  /\ models # <<>>
  /\ IsInjective(models)
  /\ ToSet(Tail(models)) \subseteq Configured \/ Tail(models) = Tail(Template)

Picks == [top : Selector, models : {models \in Seq(Selector) : Usable(models)}]

\* What file and pickers hold.
SourceInv ==
  /\ file # Missing => Usable(file)
  /\ picking \in [Picker -> Picks \union {Missing}]

\* The list a user types is a sequence of selectors that names none twice and
\* only configured ones, if it is written.
LEMMA TypedIsUsable ==
  ASSUME NEW models \in Typed, writeModels(models), validateAgainstConfig(models)
  PROVE  Usable(models)
<1>1. PICK n \in 1..MaxLength : models \in [1..n -> Selector]
  BY SourceAssumption DEF Typed
<1>2. n \in Nat /\ models \in Seq(Selector) /\ Len(models) = n
  BY <1>1, SourceAssumption
<1>3. ToSet(Tail(models)) \subseteq ToSet(models)
  BY <1>1, <1>2 DEF ToSet, Range
<1>4. ToSet(models) \subseteq Configured
  BY DEF validateAgainstConfig
<1> QED
  BY <1>2, <1>3, <1>4 DEF Usable, writeModels, distinct

\* The list a pick writes keeps the fallbacks of the one it has read.
LEMMA PickedIsUsable ==
  ASSUME NEW top \in Selector, NEW models, Usable(models),
         writeModels(<<top>> \o Tail(models))
  PROVE  Usable(<<top>> \o Tail(models))
<1> DEFINE next == <<top>> \o Tail(models)
<1>1. models \in Seq(Selector) /\ models # <<>>
  BY DEF Usable
<1>2. Tail(models) \in Seq(Selector)
  BY <1>1
<1>3. next \in Seq(Selector) /\ next # <<>> /\ Tail(next) = Tail(models)
  BY <1>2
<1> QED
  BY <1>3 DEF Usable, writeModels, distinct

LEMMA SourceInitInv == SourceInit => SourceInv
BY DEF SourceInit, SourceInv

LEMMA SourceStepInv == SourceInv /\ [SourceNext]_sourceVars => SourceInv'
<1> SUFFICES ASSUME SourceInv, [SourceNext]_sourceVars PROVE SourceInv'
  OBVIOUS
<1>1. ASSUME NEW models \in Typed, ModelsSet(models) PROVE SourceInv'
  <2>1. file' # Missing => Usable(file')
    BY <1>1, TypedIsUsable DEF ModelsSet, SourceInv
  <2> QED
    BY <1>1, <2>1 DEF ModelsSet, SourceInv
<1>2. ASSUME NEW p \in Picker, NEW s \in Exposed, PickReads(p, s) PROVE SourceInv'
  <2>1. file # Missing /\ Usable(file) /\ s \in Selector
    BY <1>2, SourceAssumption DEF PickReads, readModels, SourceInv
  <2>2. [top |-> s, models |-> file] \in Picks
    BY <2>1 DEF Picks, Usable
  <2> QED
    BY <1>2, <2>2 DEF PickReads, SourceInv
<1>3. ASSUME NEW p \in Picker, replaceTopModel(p) PROVE SourceInv'
  <2>1. picking[p] \in Picks
    BY <1>3 DEF replaceTopModel, SourceInv
  <2>2. picking[p].top \in Selector /\ Usable(picking[p].models)
    BY <2>1 DEF Picks
  <2>3. file' # Missing => Usable(file')
    BY <1>3, <2>2, PickedIsUsable DEF replaceTopModel, SourceInv
  <2> QED
    BY <1>3, <2>3 DEF replaceTopModel, SourceInv
<1>4. CASE PluginStarts
  BY <1>4 DEF PluginStarts, SourceInv
<1>5. CASE UNCHANGED sourceVars
  BY <1>5 DEF sourceVars, SourceInv
<1>6. CASE SeedModels
  <2>1. Usable(Template)
    BY SourceAssumption DEF Usable
  <2> QED
    BY <1>6, <2>1 DEF SeedModels, SourceInv
<1> QED
  BY <1>1, <1>2, <1>3, <1>4, <1>5, <1>6 DEF SourceNext

\* However the installer, commands and pickers interleave, models.json is a list
\* the plugin will take and its fallbacks were checked against the config, or are
\* those of the template (model-select.ts writeModels, replaceTopModel,
\* scripts/install-moderator).
THEOREM FileStaysUsable == SourceSpec => []FileUsable
<1>1. SourceInv => FileUsable
  BY DEF SourceInv, Usable, FileUsable
<1> QED
  BY <1>1, SourceInitInv, SourceStepInv, PTL DEF SourceSpec

-----------------------------------------------------------------------------

\* The toast queue.  Entries in the order of their pushes, the last the n-th or
\* an earlier one.
Ordered(q, n) ==
  /\ q \in Seq(Entry)
  /\ \A i, j \in DOMAIN q : i < j => q[i].number < q[j].number
  /\ \A i \in DOMAIN q : q[i].number <= n

\* What is shown was pushed before all that waits, and not after the n-th push.
Shown(v, q, n) ==
  /\ v \in Entry \union {NoEntry}
  /\ v # NoEntry =>
       /\ v.number <= n
       /\ \A i \in DOMAIN q : v.number < q[i].number

ToastInv ==
  /\ Ordered(pending, pushed)
  /\ Len(pending) <= MAX_PENDING_TOASTS
  /\ Shown(visible, pending, pushed)
  /\ worker \in {"none", "show", "pause", "end"}
  /\ pushed \in 0..MaxPushes
  /\ WorkerForPending

\* Tail shifts places by one.
LEMMA TailPlaces ==
  ASSUME NEW S, NEW q \in Seq(S), q # <<>>
  PROVE  /\ Head(q) = q[1] /\ 1 \in DOMAIN q /\ Tail(q) \in Seq(S)
         /\ Len(Tail(q)) = Len(q) - 1
         /\ \A i \in DOMAIN Tail(q) : i + 1 \in DOMAIN q /\ Tail(q)[i] = q[i + 1]
         /\ \A i \in DOMAIN q : i # 1 => i - 1 \in DOMAIN Tail(q) /\ Tail(q)[i - 1] = q[i]
OBVIOUS

LEMMA AppendPlaces ==
  ASSUME NEW S, NEW q \in Seq(S), NEW e \in S
  PROVE  /\ Append(q, e) \in Seq(S) /\ Append(q, e) # <<>>
         /\ Len(Append(q, e)) = Len(q) + 1
         /\ DOMAIN Append(q, e) = DOMAIN q \union {Len(q) + 1}
         /\ \A i \in DOMAIN q : i <= Len(q) /\ Append(q, e)[i] = q[i]
         /\ Append(q, e)[Len(q) + 1] = e
OBVIOUS

LEMMA TailOrdered ==
  ASSUME NEW n \in Nat, NEW q, Ordered(q, n), q # <<>>
  PROVE  Ordered(Tail(q), n) /\ Shown(Head(q), Tail(q), n)
<1>0. q \in Seq(Entry) /\ Head(q) \in Entry
  BY DEF Ordered
<1>1. /\ Head(q) = q[1] /\ 1 \in DOMAIN q /\ Tail(q) \in Seq(Entry)
      /\ \A i \in DOMAIN Tail(q) : i + 1 \in DOMAIN q /\ Tail(q)[i] = q[i + 1]
  BY <1>0, TailPlaces
<1>2. \A i \in DOMAIN Tail(q) : i \in Nat /\ i >= 1
  BY <1>1
<1>3. Ordered(Tail(q), n)
  BY <1>1, <1>2 DEF Ordered
<1>4. \A i \in DOMAIN Tail(q) : Head(q).number < Tail(q)[i].number
  BY <1>1, <1>2 DEF Ordered
<1> QED
  BY <1>0, <1>1, <1>3, <1>4 DEF Shown, Ordered

\* The list after a push: in order, within the bound, younger than what is
\* shown, and it ends in the new entry.
LEMMA AddOrdered ==
  ASSUME NEW s \in Session, ToastInv, pushed < MaxPushes
  PROVE  LET e == [sessionID |-> s, number |-> pushed + 1]
         IN  /\ Ordered(add(e), pushed + 1)
             /\ Len(add(e)) <= MAX_PENDING_TOASTS
             /\ Shown(visible, add(e), pushed + 1)
             /\ \E i \in DOMAIN add(e) : add(e)[i] = e
             /\ \A i \in DOMAIN pending :
                  \/ \E j \in DOMAIN add(e) : add(e)[j] = pending[i]
                  \/ i = 1 /\ Len(pending) = MAX_PENDING_TOASTS
             /\ pending = <<>> => add(e) = <<e>>
<1> DEFINE e == [sessionID |-> s, number |-> pushed + 1]
           q == Append(pending, e)
<1>1. pushed \in Nat /\ e \in Entry /\ pending \in Seq(Entry)
  BY QueueAssumption DEF ToastInv, Ordered, Entry
<1>2. /\ q \in Seq(Entry) /\ q # <<>> /\ Len(q) = Len(pending) + 1
      /\ DOMAIN q = DOMAIN pending \union {Len(pending) + 1}
      /\ \A i \in DOMAIN pending : i <= Len(pending) /\ q[i] = pending[i]
      /\ q[Len(pending) + 1] = e
  BY <1>1, AppendPlaces
<1>n. e.number = pushed + 1
  OBVIOUS
<1>l. Len(pending) \in Nat /\ MAX_PENDING_TOASTS \in Nat /\ MAX_PENDING_TOASTS # 0
  BY <1>1, QueueAssumption
<1>d. DOMAIN pending \subseteq Nat
  BY <1>1
<1>e. \A i \in DOMAIN pending : pending[i] \in Entry /\ pending[i].number \in Nat
  <2>1. \A x \in Entry : x.number \in Nat
    BY QueueAssumption DEF Entry
  <2> QED
    BY <1>1, <2>1
<1>v. visible # NoEntry => visible.number \in Nat
  BY QueueAssumption DEF ToastInv, Shown, Entry
<1>a. add(e) = IF Len(q) > MAX_PENDING_TOASTS THEN Tail(q) ELSE q
  BY DEF add
<1>z. pending = <<>> => q = <<e>> /\ Len(q) <= MAX_PENDING_TOASTS
  BY <1>2, <1>l
<1> HIDE DEF e, q
<1>3. Ordered(q, pushed + 1)
  <2>1. \A i \in DOMAIN pending : q[i].number <= pushed
    BY <1>2 DEF ToastInv, Ordered
  <2>2. \A i, j \in DOMAIN pending : i < j => q[i].number < q[j].number
    BY <1>2 DEF ToastInv, Ordered
  <2>3. \A i \in DOMAIN pending : q[i].number \in Nat
    BY <1>2, <1>e
  <2>4. \A i, j \in DOMAIN q : i < j => q[i].number < q[j].number
    BY <1>1, <1>2, <1>n, <1>l, <1>d, <2>1, <2>2, <2>3
  <2>5. \A i \in DOMAIN q : q[i].number <= pushed + 1
    BY <1>1, <1>2, <1>n, <2>1, <2>3
  <2> QED
    BY <1>2, <2>4, <2>5 DEF Ordered
<1>4. Shown(visible, q, pushed + 1)
  <2>1. visible # NoEntry => visible.number <= pushed
    BY DEF ToastInv, Shown
  <2>2. visible # NoEntry => \A i \in DOMAIN pending : visible.number < q[i].number
    BY <1>2 DEF ToastInv, Shown
  <2>3. visible # NoEntry => \A i \in DOMAIN q : visible.number < q[i].number
    BY <1>1, <1>2, <1>n, <1>v, <2>1, <2>2
  <2>4. visible \in Entry \union {NoEntry}
    BY DEF ToastInv, Shown
  <2> QED
    BY <1>1, <1>v, <2>1, <2>3, <2>4 DEF Shown
<1>5. CASE Len(q) > MAX_PENDING_TOASTS
  <2>1. /\ add(e) = Tail(q) /\ Len(Tail(q)) = Len(q) - 1
        /\ \A i \in DOMAIN Tail(q) : i + 1 \in DOMAIN q /\ Tail(q)[i] = q[i + 1]
        /\ \A i \in DOMAIN q : i # 1 => i - 1 \in DOMAIN Tail(q) /\ Tail(q)[i - 1] = q[i]
    BY <1>2, <1>5, <1>a, TailPlaces
  <2>2. Ordered(Tail(q), pushed + 1)
    BY <1>1, <1>2, <1>3, TailOrdered
  <2>3. Shown(visible, Tail(q), pushed + 1)
    BY <1>4, <2>1 DEF Shown
  <2>4. Len(pending) = MAX_PENDING_TOASTS /\ Len(pending) + 1 # 1
    BY <1>2, <1>5, <1>l DEF ToastInv
  <2>5. \E i \in DOMAIN Tail(q) : Tail(q)[i] = e
    BY <1>2, <2>1, <2>4
  <2>6. \A i \in DOMAIN pending : i # 1 => \E j \in DOMAIN Tail(q) : Tail(q)[j] = pending[i]
    BY <1>2, <2>1
  <2>7. Len(Tail(q)) <= MAX_PENDING_TOASTS
    BY <1>2, <2>1, <2>4, <1>l
  <2>8. ~(pending = <<>>)
    BY <1>5, <1>z, <1>l, <1>2
  <2>9. \A i \in DOMAIN pending :
          \/ \E j \in DOMAIN Tail(q) : Tail(q)[j] = pending[i]
          \/ i = 1 /\ Len(pending) = MAX_PENDING_TOASTS
    BY <2>4, <2>6
  <2>10. /\ Ordered(add(e), pushed + 1)
         /\ Len(add(e)) <= MAX_PENDING_TOASTS
         /\ Shown(visible, add(e), pushed + 1)
         /\ \E i \in DOMAIN add(e) : add(e)[i] = e
         /\ \A i \in DOMAIN pending :
              \/ \E j \in DOMAIN add(e) : add(e)[j] = pending[i]
              \/ i = 1 /\ Len(pending) = MAX_PENDING_TOASTS
    BY <2>1, <2>2, <2>3, <2>5, <2>7, <2>9
  <2> QED
    BY <2>8, <2>10 DEF e
<1>6. CASE ~(Len(q) > MAX_PENDING_TOASTS)
  <2>1. add(e) = q /\ Len(q) <= MAX_PENDING_TOASTS
    BY <1>6, <1>a, <1>2, <1>l
  <2> QED
    BY <1>z, <1>2, <1>3, <1>4, <2>1 DEF e
<1> QED
  BY <1>5, <1>6

\* The loop of run keeps the order, with the oldest entry shown.
LEMMA RunOrdered ==
  ASSUME NEW n \in Nat, NEW q, Ordered(q, n), Len(q) <= MAX_PENDING_TOASTS, run(q)
  PROVE  /\ Ordered(pending', n) /\ Len(pending') <= MAX_PENDING_TOASTS
         /\ Shown(visible', pending', n)
         /\ worker' \in {"show", "end"}
         /\ \A i \in DOMAIN q : visible' = q[i] \/ \E j \in DOMAIN pending' : pending'[j] = q[i]
<1>0. q \in Seq(Entry) /\ MAX_PENDING_TOASTS \in Nat
  BY QueueAssumption DEF Ordered
<1>1. CASE q = <<>>
  BY <1>0, <1>1 DEF run, Ordered, Shown
<1>2. CASE q # <<>>
  <2>1. pending' = Tail(q) /\ worker' = "show" /\ visible' = Head(q)
    BY <1>2 DEF run
  <2>2. Ordered(Tail(q), n) /\ Shown(Head(q), Tail(q), n)
    BY <1>2, TailOrdered
  <2>3. /\ Head(q) = q[1] /\ Len(Tail(q)) = Len(q) - 1
        /\ \A i \in DOMAIN q : i # 1 => i - 1 \in DOMAIN Tail(q) /\ Tail(q)[i - 1] = q[i]
    BY <1>0, <1>2, TailPlaces
  <2>4. Len(Tail(q)) <= MAX_PENDING_TOASTS
    BY <1>0, <2>3
  <2> QED
    BY <2>1, <2>2, <2>3, <2>4
<1> QED
  BY <1>1, <1>2

\* Removing a session leaves the others in their order.
LEMMA RemoveOrdered ==
  ASSUME NEW s \in Session, ToastInv, removeSession(s)
  PROVE  /\ Ordered(pending', pushed) /\ Len(pending') <= MAX_PENDING_TOASTS
         /\ Shown(visible, pending', pushed)
         /\ pending = <<>> => pending' = <<>>
         /\ \A i \in DOMAIN pending :
              \/ pending[i].sessionID = s
              \/ \E j \in DOMAIN pending' : pending'[j] = pending[i]
<1> DEFINE kept == {i \in DOMAIN pending : pending[i].sessionID # s}
<1>0. pending \in Seq(Entry) /\ Len(pending) \in Nat /\ MAX_PENDING_TOASTS \in Nat
  BY QueueAssumption DEF ToastInv, Ordered
<1>p. PICK n \in 0..Len(pending) : \E at \in [1..n -> kept] :
        /\ \A i, j \in 1..n : i < j => at[i] < at[j]
        /\ \A k \in kept : \E i \in 1..n : at[i] = k
        /\ pending' = [i \in 1..n |-> pending[at[i]]]
  BY DEF removeSession
<1>1. PICK at \in [1..n -> kept] :
        /\ \A i, j \in 1..n : i < j => at[i] < at[j]
        /\ \A k \in kept : \E i \in 1..n : at[i] = k
        /\ pending' = [i \in 1..n |-> pending[at[i]]]
  BY <1>p
<1>2. n \in Nat /\ n <= Len(pending)
  BY <1>0
<1>3. \A i \in 1..n : at[i] \in DOMAIN pending /\ pending[at[i]] \in Entry
  BY <1>0
<1>4. /\ pending' \in Seq(Entry) /\ Len(pending') = n /\ DOMAIN pending' = 1..n
      /\ \A i \in 1..n : pending'[i] = pending[at[i]]
  BY <1>1, <1>2, <1>3
<1>5. Ordered(pending', pushed)
  <2>1. \A i, j \in 1..n : i < j => pending'[i].number < pending'[j].number
    BY <1>1, <1>3, <1>4 DEF ToastInv, Ordered
  <2>2. \A i \in 1..n : pending'[i].number <= pushed
    BY <1>3, <1>4 DEF ToastInv, Ordered
  <2> QED
    BY <1>4, <2>1, <2>2 DEF Ordered
<1>6. Shown(visible, pending', pushed)
  BY <1>3, <1>4 DEF ToastInv, Shown
<1>7. Len(pending') <= MAX_PENDING_TOASTS
  BY <1>0, <1>2, <1>4 DEF ToastInv
<1>8. pending = <<>> => pending' = <<>>
  BY <1>0, <1>2, <1>4
<1>9. \A i \in DOMAIN pending :
        pending[i].sessionID = s \/ \E j \in DOMAIN pending' : pending'[j] = pending[i]
  BY <1>1, <1>4
<1> QED
  BY <1>5, <1>6, <1>7, <1>8, <1>9

LEMMA ToastInitInv == ToastInit => ToastInv
BY QueueAssumption DEF ToastInit, ToastInv, Ordered, Shown, WorkerForPending

\* A push, of a session, with a worker at work or not.
LEMMA PushInv ==
  ASSUME NEW s \in Session, ToastInv, push(s)
  PROVE  /\ ToastInv'
         /\ \A i \in DOMAIN pending :
              \/ \E j \in DOMAIN pending' : pending'[j] = pending[i]
              \/ i = 1 /\ Len(pending) = MAX_PENDING_TOASTS
         /\ \/ \E i \in DOMAIN pending' : pending'[i].number = pushed'
            \/ visible' # NoEntry /\ visible'.number = pushed'
<1> DEFINE e == [sessionID |-> s, number |-> pushed + 1]
<1>0. /\ pushed < MaxPushes /\ pushed' = pushed + 1 /\ start(add(e))
      /\ pushed \in Nat /\ pushed' \in 0..MaxPushes /\ e \in Entry /\ e.number = pushed'
  BY QueueAssumption DEF push, ToastInv, Entry
<1> HIDE DEF e
<1>1. /\ Ordered(add(e), pushed') /\ Len(add(e)) <= MAX_PENDING_TOASTS
      /\ Shown(visible, add(e), pushed')
      /\ \E i \in DOMAIN add(e) : add(e)[i] = e
      /\ \A i \in DOMAIN pending :
           \/ \E j \in DOMAIN add(e) : add(e)[j] = pending[i]
           \/ i = 1 /\ Len(pending) = MAX_PENDING_TOASTS
      /\ pending = <<>> => add(e) = <<e>>
  BY <1>0, AddOrdered DEF e
<1>2. CASE worker = "none"
  <2>1. pending = <<>> /\ run(<<e>>) /\ add(e) = <<e>>
    BY <1>0, <1>1, <1>2 DEF start, ToastInv, WorkerForPending
  <2>2. pending' = <<>> /\ visible' = e /\ worker' = "show"
    BY <2>1, <1>0 DEF run
  <2>3. Ordered(pending', pushed') /\ Shown(visible', pending', pushed')
    BY <1>0, <2>2, QueueAssumption DEF Ordered, Shown, Entry
  <2>4. visible' # NoEntry /\ visible'.number = pushed'
    BY <1>0, <2>2, QueueAssumption
  <2> QED
    BY <1>0, <2>1, <2>2, <2>3, <2>4, QueueAssumption DEF ToastInv, WorkerForPending
<1>3. CASE worker # "none"
  <2>1. pending' = add(e) /\ worker' = worker /\ visible' = visible
    BY <1>0, <1>3 DEF start
  <2>2. ToastInv'
    BY <1>0, <1>1, <1>3, <2>1 DEF ToastInv, WorkerForPending
  <2> QED
    BY <1>0, <1>1, <2>1, <2>2
<1> QED
  BY <1>2, <1>3

\* Whatever makes the worker look at the list again.
LEMMA RunInv ==
  ASSUME ToastInv, run(pending), UNCHANGED pushed
  PROVE  /\ ToastInv'
         /\ \A i \in DOMAIN pending :
              visible' = pending[i] \/ \E j \in DOMAIN pending' : pending'[j] = pending[i]
<1>1. pushed \in Nat /\ Ordered(pending, pushed) /\ Len(pending) <= MAX_PENDING_TOASTS
  BY QueueAssumption DEF ToastInv
<1> QED
  BY <1>1, RunOrdered DEF ToastInv, WorkerForPending

LEMMA ToastStepInv == ToastInv /\ [ToastNext]_toastVars => ToastInv'
<1> SUFFICES ASSUME ToastInv, [ToastNext]_toastVars PROVE ToastInv'
  OBVIOUS
<1>1. ASSUME NEW s \in Session, push(s) PROVE ToastInv'
  BY <1>1, PushInv
<1>2. ASSUME NEW s \in Session, removeSession(s) PROVE ToastInv'
  <2>1. worker' = worker /\ visible' = visible /\ pushed' = pushed
    BY <1>2 DEF removeSession
  <2> QED
    BY <1>2, <2>1, RemoveOrdered DEF ToastInv, WorkerForPending
<1>3. CASE ShowReturns
  BY <1>3 DEF ShowReturns, ToastInv, WorkerForPending
<1>4. CASE Fails \/ PauseEnds \/ (Finishes /\ pending # <<>>)
  BY <1>4, RunInv DEF Fails, PauseEnds, Finishes
<1>5. CASE Finishes /\ pending = <<>>
  BY <1>5 DEF Finishes, ToastInv, WorkerForPending
<1>6. CASE UNCHANGED toastVars
  BY <1>6 DEF toastVars, ToastInv, WorkerForPending
<1> QED
  BY <1>1, <1>2, <1>3, <1>4, <1>5, <1>6 DEF ToastNext, WorkerStep

LEMMA ToastInvariant == ToastSpec => []ToastInv
BY ToastInitInv, ToastStepInv, PTL DEF ToastSpec

\* No wake-up is lost, for any bound and any number of sessions: toasts wait
\* only while a worker is active (toast-queue.ts:38-44).
THEOREM WorkerComesForPending == ToastSpec => []WorkerForPending
<1>1. ToastInv => WorkerForPending
  BY DEF ToastInv
<1> QED
  BY <1>1, ToastInvariant, PTL

\* Toasts are shown in the order they were pushed, over all sessions, whatever is
\* dropped or removed between (toast-queue.ts run).
THEOREM ToastsKeepTheirOrder == ToastSpec => []FirstInFirstOut
<1>1. ToastInv => FirstInFirstOut
  BY DEF ToastInv, Ordered, Shown, FirstInFirstOut
<1> QED
  BY <1>1, ToastInvariant, PTL

\* A toast leaves the list only to be shown, with its session, or as the oldest
\* of a full list, and a new one always gets in (toast-queue.ts:47-56).
THEOREM OnlyTheOldestIsDropped == ToastSpec => DropsOnlyOldest
<1> DEFINE Step ==
      /\ \A e \in Waiting \ Waiting' :
           \/ visible' = e
           \/ \E s \in Session : removeSession(s) /\ e.sessionID = s
           \/ /\ Len(pending) = MAX_PENDING_TOASTS
              /\ pushed' = pushed + 1
              /\ e = Head(pending)
      /\ pushed' # pushed => Present(pushed)'
<1>1. ToastInv /\ [ToastNext]_toastVars => [Step]_toastVars
  <2> SUFFICES ASSUME ToastInv, ToastNext PROVE Step
    OBVIOUS
  <2>1. ASSUME NEW s \in Session, push(s) PROVE Step
    <3>1. pushed' = pushed + 1 /\ pending \in Seq(Entry)
      BY <2>1 DEF push, ToastInv, Ordered
    <3>2. \A i \in DOMAIN pending :
            \/ \E j \in DOMAIN pending' : pending'[j] = pending[i]
            \/ i = 1 /\ Len(pending) = MAX_PENDING_TOASTS
      BY <2>1, PushInv
    <3>3. \A i \in DOMAIN pending : i = 1 => pending[i] = Head(pending)
      BY <3>1
    <3>4. \/ \E i \in DOMAIN pending' : pending'[i].number = pushed'
          \/ visible' # NoEntry /\ visible'.number = pushed'
      BY <2>1, PushInv
    <3>5. Present(pushed)'
      BY <3>4 DEF Present, Waiting
    <3> QED
      BY <3>1, <3>2, <3>3, <3>5 DEF Waiting
  <2>2. ASSUME NEW s \in Session, removeSession(s) PROVE Step
    <3>1. \A i \in DOMAIN pending :
            \/ pending[i].sessionID = s
            \/ \E j \in DOMAIN pending' : pending'[j] = pending[i]
      BY <2>2, RemoveOrdered
    <3>2. pushed' = pushed
      BY <2>2 DEF removeSession
    <3> QED
      BY <2>2, <3>1, <3>2 DEF Waiting
  <2>3. CASE Fails \/ PauseEnds \/ (Finishes /\ pending # <<>>)
    <3>1. run(pending) /\ pushed' = pushed
      BY <2>3 DEF Fails, PauseEnds, Finishes
    <3>2. \A i \in DOMAIN pending :
            visible' = pending[i] \/ \E j \in DOMAIN pending' : pending'[j] = pending[i]
      BY <3>1, RunInv
    <3> QED
      BY <3>1, <3>2 DEF Waiting
  <2>4. CASE ShowReturns \/ (Finishes /\ pending = <<>>)
    BY <2>4 DEF ShowReturns, Finishes, Waiting
  <2> QED
    BY <2>1, <2>2, <2>3, <2>4 DEF ToastNext, WorkerStep
<1>2. ToastSpec => [][Step]_toastVars
  BY <1>1, ToastInvariant, PTL DEF ToastSpec
<1> QED
  BY <1>2 DEF DropsOnlyOldest

-----------------------------------------------------------------------------

\* The classifier.  The calls of the cycles that went before.
Before == cycle * Selectors

\* How far the calls have come, by where the classification stands.
Counted ==
  /\ pc = "try" => attempts = Before + index
  /\ pc = "await" => index < Selectors /\ attempts = Before + index + 1
  /\ pc = "done" /\ outcome = None =>
       /\ attempts = Before + Selectors
       /\ timedOut => cycle + 1 = Cycles
  /\ pc = "done" /\ outcome # None => outcome = attempts

\* A cycle counts as timed out only by a call of its own.
TimedOutByItsOwn == timedOut => \E a \in expired : a > Before

Shape ==
  /\ cycle \in 0..(Cycles - 1)
  /\ index \in 0..Selectors
  /\ timedOut \in BOOLEAN
  /\ attempts \in Nat
  /\ attempts <= Before + Selectors
  /\ pc \in {"try", "await", "done"}
  /\ outcome \in 1..attempts \cup {None}
  /\ late \subseteq expired
  /\ expired \subseteq 1..attempts

IInv == Shape /\ Counted /\ TimedOutByItsOwn

\* The constants as the arithmetic needs them.
LEMMA Constants ==
  /\ Selectors \in Nat /\ Selectors > 0
  /\ Cycles \in Nat /\ Cycles > 0
  /\ None \notin Nat
  BY ClassifierAssumption

\* One more cycle is one more list of selectors.
LEMMA OneMoreCycle ==
  ASSUME NEW c \in Nat, NEW n \in Nat
  PROVE  c * n \in Nat /\ (c + 1) * n = c * n + n
  OBVIOUS

\* Within the cycles there are, no more calls are made than the cycles hold.
LEMMA WithinCycles ==
  ASSUME NEW c \in Nat, NEW m \in Nat, NEW n \in Nat, c + 1 <= m
  PROVE  c * n + n <= m * n
<1>1. PICK d \in Nat : m = c + 1 + d
  <2>1. m - (c + 1) \in Nat /\ m = c + 1 + (m - (c + 1))
    OBVIOUS
  <2>2. QED
    BY <2>1
<1>2. m * n = (c + 1) * n + d * n
  BY <1>1
<1>3. d * n \in Nat /\ (c + 1) * n = c * n + n /\ c * n \in Nat
  BY OneMoreCycle
<1>4. QED
  BY <1>2, <1>3

\* The count of the calls is kept by every step.
THEOREM Inductive == Spec => []IInv
<1>1. Init => IInv
  <2> SUFFICES ASSUME Init
               PROVE  IInv
    OBVIOUS
  <2>1. Before = 0
    BY Constants DEF Init, Before
  <2>2. timedOut \in BOOLEAN /\ ~timedOut
    BY DEF Init
  <2>3. cycle \in 0..(Cycles - 1) /\ index \in 0..Selectors
    BY Constants DEF Init
  <2>4. attempts \in Nat /\ attempts <= Before + Selectors
    BY <2>1, Constants DEF Init
  <2>5. Shape
    BY <2>2, <2>3, <2>4 DEF Init, Shape
  <2>6. Counted /\ TimedOutByItsOwn
    BY <2>1, <2>2 DEF Init, Counted, TimedOutByItsOwn
  <2>7. QED
    BY <2>5, <2>6 DEF IInv
<1>2. IInv /\ [Next]_vars => IInv'
  <2> SUFFICES ASSUME IInv, [Next]_vars
               PROVE  IInv'
    OBVIOUS
  <2>0. /\ Before \in Nat
        /\ cycle \in Nat
        /\ index \in Nat
        /\ cycle' = cycle => Before' = Before
    BY Constants, OneMoreCycle DEF IInv, Shape, Before
  <2>1. CASE generate
    <3>1. /\ attempts' = attempts + 1 /\ attempts = Before + index
          /\ index < Selectors /\ Before' = Before
      BY <2>0, <2>1 DEF generate, IInv, Counted
    <3>2. Shape'
      BY <2>0, <2>1, <3>1, Constants DEF generate, IInv, Shape
    <3>3. Counted' /\ TimedOutByItsOwn'
      BY <2>0, <2>1, <3>1 DEF generate, IInv, Counted, TimedOutByItsOwn
    <3>4. QED
      BY <3>2, <3>3 DEF IInv
  <2>2. CASE ValidAnswer
    <3>1. attempts = Before + index + 1 /\ Before' = Before
      BY <2>0, <2>2 DEF ValidAnswer, IInv, Counted
    <3>2. attempts \in 1..attempts
      BY <2>0, <3>1
    <3>3. Shape'
      BY <2>2, <3>1, <3>2 DEF ValidAnswer, IInv, Shape
    <3>4. Counted' /\ TimedOutByItsOwn'
      BY <2>2, <3>1, <3>2, Constants DEF ValidAnswer, IInv, Counted, TimedOutByItsOwn
    <3>5. QED
      BY <3>3, <3>4 DEF IInv
  <2>3. CASE FailedAnswer
    <3>1. attempts = Before + index + 1 /\ Before' = Before /\ index < Selectors
      BY <2>0, <2>3 DEF FailedAnswer, IInv, Counted
    <3>2. Shape'
      BY <2>0, <2>3, <3>1, Constants DEF FailedAnswer, IInv, Shape
    <3>3. Counted' /\ TimedOutByItsOwn'
      BY <2>0, <2>3, <3>1 DEF FailedAnswer, IInv, Counted, TimedOutByItsOwn
    <3>4. QED
      BY <3>2, <3>3 DEF IInv
  <2>4. CASE TimesOut
    <3>1. attempts = Before + index + 1 /\ Before' = Before /\ index < Selectors
      BY <2>0, <2>4 DEF TimesOut, IInv, Counted
    <3>2. attempts \in 1..attempts /\ attempts > Before
      BY <2>0, <3>1
    <3>3. Shape'
      BY <2>0, <2>4, <3>1, <3>2, Constants DEF TimesOut, IInv, Shape
    <3>4. Counted'
      BY <2>0, <2>4, <3>1 DEF TimesOut, IInv, Counted
    <3>5. TimedOutByItsOwn'
      BY <2>4, <3>1, <3>2 DEF TimesOut, TimedOutByItsOwn
    <3>6. QED
      BY <3>3, <3>4, <3>5 DEF IInv
  <2>5. CASE NextCycle
    <3>1. Before' = Before + Selectors
      BY <2>0, <2>5, Constants, OneMoreCycle DEF NextCycle, Before
    <3>2. attempts = Before + Selectors
      BY <2>5 DEF NextCycle, IInv, Counted
    <3>3. cycle' \in 0..(Cycles - 1)
      BY <2>0, <2>5, Constants DEF NextCycle
    <3>4. index' \in 0..Selectors /\ attempts' \in Nat /\ attempts' <= Before' + Selectors
      BY <2>0, <2>5, <3>1, <3>2, Constants DEF NextCycle
    <3>5. timedOut' \in BOOLEAN /\ ~timedOut'
      BY <2>5 DEF NextCycle
    <3>6. Shape'
      BY <2>5, <3>3, <3>4, <3>5 DEF NextCycle, IInv, Shape
    <3>7. Counted' /\ TimedOutByItsOwn'
      BY <2>0, <2>5, <3>1, <3>2, <3>5 DEF NextCycle, Counted, TimedOutByItsOwn
    <3>8. QED
      BY <3>6, <3>7 DEF IInv
  <2>6. CASE GivesUp
    <3>1. attempts = Before + Selectors /\ Before' = Before
      BY <2>0, <2>6 DEF GivesUp, IInv, Counted
    <3>2. timedOut => cycle + 1 = Cycles
      BY <2>0, <2>6, Constants DEF GivesUp, IInv, Shape
    <3>3. Shape'
      BY <2>6, <3>1 DEF GivesUp, IInv, Shape
    <3>4. Counted' /\ TimedOutByItsOwn'
      BY <2>6, <3>1, <3>2 DEF GivesUp, IInv, Counted, TimedOutByItsOwn
    <3>5. QED
      BY <3>3, <3>4 DEF IInv
  <2>7. ASSUME NEW a \in late, LateAnswer(a)
        PROVE  IInv'
    <3>1. Before' = Before
      BY <2>0, <2>7 DEF LateAnswer
    <3>2. Shape' /\ Counted' /\ TimedOutByItsOwn'
      BY <2>7, <3>1 DEF LateAnswer, IInv, Shape, Counted, TimedOutByItsOwn
    <3>3. QED
      BY <3>2 DEF IInv
  <2>8. CASE UNCHANGED vars
    BY <2>8 DEF vars, IInv, Shape, Counted, TimedOutByItsOwn, Before
  <2>9. QED
    BY <2>1, <2>2, <2>3, <2>4, <2>5, <2>6, <2>7, <2>8 DEF Next, Running
<1>3. QED
  BY <1>1, <1>2, PTL DEF Spec

\* The variables keep their types: never more cycles, nor more calls, than the
\* configuration allows.
THEOREM CallsAreBounded == Spec => []TypeOK
<1>1. IInv => TypeOK
  <2> SUFFICES ASSUME IInv
               PROVE  TypeOK
    OBVIOUS
  <2>1. cycle \in Nat /\ cycle + 1 <= Cycles /\ Before \in Nat
    BY Constants, OneMoreCycle DEF IInv, Shape, Before
  <2>2. Before + Selectors <= Cycles * Selectors
    BY <2>1, Constants, WithinCycles DEF Before
  <2>3. Cycles * Selectors \in Nat
    BY Constants
  <2>4. attempts \in 0..(Cycles * Selectors)
    BY <2>1, <2>2, <2>3, Constants DEF IInv, Shape
  <2>5. QED
    BY <2>4 DEF IInv, Shape, TypeOK
<1>2. QED
  BY <1>1, Inductive, PTL

\* A verdict is the awaited call's, however late other answers come.
THEOREM VerdictIsAwaited == Spec => []VerdictOfAwaitedCall
<1>1. IInv => VerdictOfAwaitedCall
  BY DEF IInv, Counted, VerdictOfAwaitedCall
<1>2. QED
  BY <1>1, Inductive, PTL

\* The classifier gives up only after whole lists, and after a timeout only in
\* the last cycle.
THEOREM FailureIsExhaustion == Spec => []FailsOnlyWhenExhausted
<1>1. IInv => FailsOnlyWhenExhausted
  <2> SUFFICES ASSUME IInv, pc = "done", outcome = None
               PROVE  /\ attempts = (cycle + 1) * Selectors
                      /\ timedOut => cycle + 1 = Cycles
    BY DEF FailsOnlyWhenExhausted
  <2>1. (cycle + 1) * Selectors = Before + Selectors
    BY Constants, OneMoreCycle DEF IInv, Shape, Before
  <2>2. QED
    BY <2>1 DEF IInv, Counted
<1>2. QED
  BY <1>1, Inductive, PTL

\* A list is tried again only after a timeout of its own cycle.
THEOREM AgainIsAfterTimeout == Spec => AgainOnlyAfterTimeout
<1>1. IInv /\ [Next]_vars => [cycle' # cycle => \E a \in expired : a > cycle * Selectors]_vars
  <2> SUFFICES ASSUME IInv, Next, cycle' # cycle
               PROVE  \E a \in expired : a > cycle * Selectors
    OBVIOUS
  <2>1. NextCycle
    BY DEF Next, Running, generate, ValidAnswer, FailedAnswer, TimesOut, GivesUp, LateAnswer
  <2>2. QED
    BY <2>1 DEF NextCycle, IInv, TimedOutByItsOwn, Before
<1>2. QED
  BY <1>1, Inductive, PTL DEF Spec, AgainOnlyAfterTimeout

-----------------------------------------------------------------------------

\* The hooks of AgentCI.
Policies == UNION {ToSet(entries) : entries \in Documents}
Item == Policies \union [name : {p.name : p \in Policies}, text : Content]
Outs == Seq(Item) \union {chooseEffort(variants) : variants \in Variants}
Record ==
  [event : EVENTS \union {"chat.params"}, call : Call, pos : Nat, out : Outs,
   end : {"running", "done", "error"}]

\* What the definitions of the same meaning in AgentCI say of the policies that
\* are loaded, of any list.
Meant(ps, c) ==
  {k \in DOMAIN ps :
     /\ ps[k].event = c.event
     /\ CASE c.event = AFTER -> matches(ps[k], c.call)
          [] c.event = SYSTEM -> addressed(ps[k], c.call)
          [] OTHER -> TRUE}
Pushed(ps, c, places) ==
  \E at \in InOrder(places) :
    /\ DOMAIN c.out = DOMAIN at
    /\ \A i \in DOMAIN at : c.out[i].name = ps[at[i]].name
Blocks(ps, call) ==
  \E k \in DOMAIN ps : ps[k].event = BEFORE /\ matches(ps[k], call) /\ ps[k].action = "block"

\* What has been applied so far.
Upto(ps, c) == {k \in Meant(ps, c) : k <= c.pos}

Whole(ps, c) ==
  /\ c \in Record
  /\ c.event = BEFORE => (c.end = "done" <=> ~Blocks(ps, c.call))
  /\ c.event \in {AFTER, SYSTEM, MESSAGES} /\ c.end = "done" => Pushed(ps, c, Meant(ps, c))
  /\ c.end = "running" =>
       c.event \in {SYSTEM, MESSAGES} /\ c.out \in Seq(Item) /\ Pushed(ps, c, Upto(ps, c))

\* The hooks whose evidence is due.
Due(cs) == {i \in DOMAIN cs : cs[i].event \in {AFTER, SYSTEM, MESSAGES} /\ cs[i].end = "done"}

EvidenceOf(lines, cs) ==
  lines \in Seq(Nat) /\ IsInjective(lines) /\ ToSet(lines) = Due(cs)

CIInv ==
  /\ policies \in Documents \union {<<>>}
  /\ started = "not yet" => calls = <<>>
  /\ calls \in Seq(Record)
  /\ \A i \in DOMAIN calls : Whole(policies, calls[i])
  /\ EvidenceOf(evidence, calls)

LEMMA EventsDiffer ==
  /\ BEFORE # AFTER /\ BEFORE # SYSTEM /\ BEFORE # MESSAGES
  /\ AFTER # SYSTEM /\ AFTER # MESSAGES /\ SYSTEM # MESSAGES
  /\ "chat.params" \notin EVENTS
  /\ EVENTS = {BEFORE, AFTER, SYSTEM, MESSAGES}
BY DEF BEFORE, AFTER, SYSTEM, MESSAGES, EVENTS

LEMMA PoliciesAreListed ==
  ASSUME CIInv
  PROVE  /\ policies \in Seq(Policies)
         /\ \A k \in DOMAIN policies : k \in Nat /\ policies[k] \in Policies
<1>1. CASE policies = <<>>
  BY <1>1
<1>2. CASE policies \in Documents
  <2>1. policies \in Seq(ToSet(policies)) /\ ToSet(policies) \subseteq Policies
    BY <1>2, CIAssumption DEF Policies
  <2> QED
    BY <2>1
<1> QED
  BY <1>1, <1>2 DEF CIInv

\* The definitions of AgentCI, and theirs here.
LEMMA OfLoaded ==
  ASSUME NEW c
  PROVE  /\ Wanted(c) = Meant(policies, c)
         /\ \A places : Applied(c, places) <=> Pushed(policies, c, places)
         /\ blocked(c.call) <=> Blocks(policies, c.call)
BY DEF Wanted, Meant, Applied, Pushed, blocked, Blocks, Of

\* The order of some places and one behind them all.
LEMMA OneMoreInOrder ==
  ASSUME NEW S \in SUBSET Nat, IsFiniteSet(S), NEW k \in Nat, \A j \in S : j < k,
         NEW at \in InOrder(S)
  PROVE  /\ DOMAIN at = 1..Cardinality(S) /\ Cardinality(S) \in Nat
         /\ Append(at, k) \in InOrder(S \union {k})
         /\ DOMAIN Append(at, k) = DOMAIN at \union {Cardinality(S) + 1}
         /\ \A i \in DOMAIN at : Append(at, k)[i] = at[i]
         /\ Append(at, k)[Cardinality(S) + 1] = k
<1> DEFINE n == Cardinality(S)
           T == S \union {k}
           new == Append(at, k)
<1>1. n \in Nat
  BY FS_CardinalityType
<1>2. k \notin S
  OBVIOUS
<1>3. Cardinality(T) = n + 1
  BY <1>2, FS_AddElement
<1>4. /\ at \in [1..n -> S]
      /\ \A i, j \in 1..n : i < j => at[i] < at[j]
      /\ \A m \in S : \E i \in 1..n : at[i] = m
  BY DEF InOrder
<1> HIDE DEF n
<1>5. at \in Seq(S) /\ Len(at) = n /\ DOMAIN at = 1..n
  BY <1>1, <1>4
<1>6. /\ new \in Seq(T) /\ Len(new) = n + 1 /\ DOMAIN new = 1..(n + 1)
      /\ \A i \in 1..n : new[i] = at[i]
      /\ new[n + 1] = k
  BY <1>1, <1>5
<1>7. new \in [1..(n + 1) -> T]
  <2> HIDE DEF new, T
  <2>1. new = [i \in 1..(n + 1) |-> new[i]] /\ \A i \in 1..(n + 1) : new[i] \in T
    BY <1>6
  <2> QED
    BY <2>1
<1>8. \A i, j \in DOMAIN new : i < j => new[i] < new[j]
  <2>1. \A i, j \in 1..(n + 1) : i < j => i \in 1..n /\ (j \in 1..n \/ j = n + 1)
    BY <1>1
  <2>2. \A i \in 1..n : new[i] < k
    BY <1>4, <1>6
  <2> QED
    BY <1>4, <1>6, <2>1, <2>2
<1>9. \A m \in T : \E i \in DOMAIN new : new[i] = m
  <2>1. \A i \in 1..n : i \in DOMAIN new
    BY <1>1, <1>6
  <2>2. n + 1 \in DOMAIN new
    BY <1>1, <1>6
  <2> QED
    BY <1>4, <1>6, <2>1, <2>2
<1>10. new \in InOrder(T)
  BY <1>3, <1>7, <1>8, <1>9 DEF InOrder
<1>11. DOMAIN new = DOMAIN at \union {n + 1}
  BY <1>1, <1>5, <1>6
<1> QED
  BY <1>1, <1>5, <1>6, <1>10, <1>11 DEF n

\* One more policy is pushed.
LEMMA PushedOneMore ==
  ASSUME NEW ps, NEW c, NEW d, NEW S \in SUBSET Nat, IsFiniteSet(S),
         NEW k \in Nat, \A j \in S : j < k, NEW item \in Item,
         item.name = ps[k].name, c.out \in Seq(Item), d.out = Append(c.out, item),
         Pushed(ps, c, S)
  PROVE  Pushed(ps, d, S \union {k})
<1>1. PICK at \in InOrder(S) :
        /\ DOMAIN c.out = DOMAIN at
        /\ \A i \in DOMAIN at : c.out[i].name = ps[at[i]].name
  BY DEF Pushed
<1> DEFINE n == Cardinality(S)
           new == Append(at, k)
<1>2. /\ DOMAIN at = 1..n /\ n \in Nat
      /\ new \in InOrder(S \union {k})
      /\ DOMAIN new = DOMAIN at \union {n + 1}
      /\ \A i \in DOMAIN at : new[i] = at[i]
      /\ new[n + 1] = k
  BY OneMoreInOrder
<1> HIDE DEF n, new
<1>3. Len(c.out) = n
  BY <1>1, <1>2
<1>4. /\ DOMAIN d.out = DOMAIN c.out \union {n + 1}
      /\ \A i \in DOMAIN c.out : d.out[i] = c.out[i]
      /\ d.out[n + 1] = item
  BY <1>1, <1>2, <1>3
<1>5. \A i \in DOMAIN new : d.out[i].name = ps[new[i]].name
  BY <1>1, <1>2, <1>4
<1> QED
  BY <1>1, <1>2, <1>4, <1>5 DEF Pushed

\* One more line of evidence.
LEMMA OneMoreLine ==
  ASSUME NEW lines \in Seq(Nat), IsInjective(lines), NEW i \in Nat, i \notin ToSet(lines)
  PROVE  /\ Append(lines, i) \in Seq(Nat) /\ IsInjective(Append(lines, i))
         /\ ToSet(Append(lines, i)) = ToSet(lines) \union {i}
<1> DEFINE new == Append(lines, i)
           n == Len(lines) + 1
<1>1. /\ new \in Seq(Nat) /\ DOMAIN new = DOMAIN lines \union {n}
      /\ \A j \in DOMAIN lines : new[j] = lines[j]
      /\ new[n] = i
  OBVIOUS
<1> HIDE DEF new, n
<1>2. IsInjective(new)
  BY <1>1 DEF IsInjective, ToSet
<1>3. ToSet(new) = ToSet(lines) \union {i}
  BY <1>1 DEF ToSet
<1> QED
  BY <1>1, <1>2, <1>3 DEF new

\* A call that begins, and what that leaves alone.
LEMMA BeganInv ==
  ASSUME CIInv, NEW c, Whole(policies, c), UNCHANGED policies, started' = started,
         started = "done", calls' = Append(calls, c),
         \/ evidence' = evidence /\ ~(c.event \in {AFTER, SYSTEM, MESSAGES} /\ c.end = "done")
         \/ /\ evidence' = Append(evidence, Len(calls) + 1)
            /\ c.event \in {AFTER, SYSTEM, MESSAGES} /\ c.end = "done"
  PROVE  CIInv'
<1> DEFINE n == Len(calls) + 1
<1>1. c \in Record /\ calls \in Seq(Record)
  BY DEF Whole, CIInv
<1>2. /\ calls' \in Seq(Record) /\ DOMAIN calls' = DOMAIN calls \union {n}
      /\ \A i \in DOMAIN calls : calls'[i] = calls[i]
      /\ calls'[n] = c /\ n \notin DOMAIN calls /\ n \in Nat
  BY <1>1
<1>3. evidence \in Seq(Nat) /\ IsInjective(evidence) /\ ToSet(evidence) = Due(calls)
  BY DEF CIInv, EvidenceOf
<1>e. evidence' = evidence \/ evidence' = Append(evidence, n)
  OBVIOUS
<1> HIDE DEF n
<1>4. \A i \in DOMAIN calls' : Whole(policies', calls'[i])
  BY <1>2 DEF CIInv
<1>5. EvidenceOf(evidence', calls')
  <2>1. CASE evidence' = evidence /\ ~(c.event \in {AFTER, SYSTEM, MESSAGES} /\ c.end = "done")
    <3>1. Due(calls') = Due(calls)
      BY <1>2, <2>1 DEF Due
    <3> QED
      BY <1>3, <2>1, <3>1 DEF EvidenceOf
  <2>2. CASE /\ evidence' = Append(evidence, n)
             /\ c.event \in {AFTER, SYSTEM, MESSAGES} /\ c.end = "done"
    <3>1. Due(calls') = Due(calls) \union {n}
      BY <1>2, <2>2 DEF Due
    <3>2. n \notin ToSet(evidence)
      BY <1>2, <1>3 DEF Due
    <3> QED
      BY <1>2, <1>3, <2>2, <3>1, <3>2, OneMoreLine DEF EvidenceOf
  <2> QED
    BY <2>1, <2>2 DEF n
<1> QED
  BY <1>2, <1>4, <1>5 DEF CIInv

\* A call under way goes on, or ends.
LEMMA GoesOnInv ==
  ASSUME CIInv, NEW i \in DOMAIN calls, NEW d, Whole(policies, d),
         calls[i].end = "running", d.event = calls[i].event,
         UNCHANGED <<policies, started>>, calls' = [calls EXCEPT ![i] = d],
         \/ evidence' = evidence /\ d.end # "done"
         \/ evidence' = Append(evidence, i) /\ d.end = "done"
  PROVE  CIInv'
<1>1. d \in Record /\ calls \in Seq(Record)
  BY DEF Whole, CIInv
<1>2. /\ calls' \in Seq(Record) /\ DOMAIN calls' = DOMAIN calls
      /\ \A j \in DOMAIN calls : calls'[j] = IF j = i THEN d ELSE calls[j]
      /\ i \in Nat
  BY <1>1
<1>3. evidence \in Seq(Nat) /\ IsInjective(evidence) /\ ToSet(evidence) = Due(calls)
  BY DEF CIInv, EvidenceOf
<1>4. \A j \in DOMAIN calls' : Whole(policies', calls'[j])
  BY <1>2 DEF CIInv
<1>5. d.event \in {SYSTEM, MESSAGES}
  BY DEF CIInv, Whole
<1>6. calls[i].end # "done"
  OBVIOUS
<1>7. EvidenceOf(evidence', calls')
  <2>1. CASE evidence' = evidence /\ d.end # "done"
    <3>1. Due(calls') = Due(calls)
      BY <1>2, <1>6, <2>1 DEF Due
    <3> QED
      BY <1>3, <2>1, <3>1 DEF EvidenceOf
  <2>2. CASE evidence' = Append(evidence, i) /\ d.end = "done"
    <3>1. Due(calls') = Due(calls) \union {i}
      BY <1>2, <1>5, <1>6, <2>2 DEF Due
    <3>2. i \notin ToSet(evidence)
      BY <1>3, <1>6 DEF Due
    <3> QED
      BY <1>2, <1>3, <2>2, <3>1, <3>2, OneMoreLine DEF EvidenceOf
  <2> QED
    BY <2>1, <2>2
<1>8. started' # "not yet"
  <2>1. calls # <<>>
    BY <1>1
  <2> QED
    BY <2>1 DEF CIInv
<1> QED
  BY <1>2, <1>4, <1>7, <1>8 DEF CIInv

LEMMA CIInitInv == CIInit => CIInv
<1> SUFFICES ASSUME CIInit PROVE CIInv
  OBVIOUS
<1>1. policies = <<>> /\ calls = <<>> /\ evidence = <<>>
  BY DEF CIInit
<1>2. Due(calls) = {}
  BY <1>1 DEF Due
<1>3. evidence \in Seq(Nat) /\ IsInjective(evidence) /\ ToSet(evidence) = {}
  BY <1>1 DEF IsInjective, ToSet
<1>4. calls \in Seq(Record) /\ DOMAIN calls = {}
  BY <1>1
<1> QED
  BY <1>1, <1>2, <1>3, <1>4 DEF CIInv, EvidenceOf

\* Calls exist only once the plugin has started, so a start finds none.
LEMMA StartInv ==
  ASSUME CIInv, NEW entries \in Documents, server(entries)
  PROVE  CIInv'
<1>1. calls = <<>> /\ calls' = <<>> /\ evidence' = evidence
  BY DEF server, CIInv
<1>2. policies' \in Documents \union {<<>>}
  BY DEF server, CIInv
<1> QED
  BY <1>1, <1>2 DEF CIInv

LEMMA BeforeInv ==
  ASSUME CIInv, NEW call \in Call, toolBefore(call)
  PROVE  CIInv'
<1> DEFINE end == IF blocked(call) THEN "error" ELSE "done"
           c == [event |-> BEFORE, call |-> call, pos |-> 0, out |-> <<>>, end |-> end]
<1>1. /\ calls' = Append(calls, c) /\ started = "done"
      /\ UNCHANGED <<policies, started, evidence>>
  BY DEF toolBefore, Began
<1>2. c \in Record
  BY EventsDiffer DEF Record, Outs
<1>3. Blocks(policies, c.call) <=> c.end # "done"
  BY DEF Blocks, blocked, Of
<1>4. c.event = BEFORE /\ c.end # "running"
  OBVIOUS
<1> HIDE DEF c
<1>5. Whole(policies, c)
  BY <1>2, <1>3, <1>4, EventsDiffer DEF Whole
<1>6. ~(c.event \in {AFTER, SYSTEM, MESSAGES} /\ c.end = "done")
  BY <1>4, EventsDiffer
<1> QED
  BY <1>1, <1>5, <1>6, BeganInv

LEMMA ThinkingInv ==
  ASSUME CIInv, NEW call \in Call, applyThinkingEffort(call)
  PROVE  CIInv'
<1>1. PICK variants \in Variants : Began("chat.params", call, chooseEffort(variants), "done")
  BY DEF applyThinkingEffort
<1> DEFINE c == [event |-> "chat.params", call |-> call, pos |-> 0,
                 out |-> chooseEffort(variants), end |-> "done"]
<1>2. /\ calls' = Append(calls, c) /\ started = "done"
      /\ UNCHANGED <<policies, started, evidence>>
  BY <1>1 DEF applyThinkingEffort, Began
<1>3. c \in Record
  BY DEF Record, Outs
<1>4. c.event = "chat.params" /\ c.end = "done"
  OBVIOUS
<1> HIDE DEF c
<1>5. c.event \notin {BEFORE, AFTER, SYSTEM, MESSAGES}
  BY <1>4, EventsDiffer
<1>6. Whole(policies, c)
  BY <1>3, <1>4, <1>5 DEF Whole
<1> QED
  BY <1>2, <1>5, <1>6, BeganInv

LEMMA AfterInv ==
  ASSUME CIInv, NEW call \in Call, toolAfter(call)
  PROVE  CIInv'
<1> DEFINE places == {k \in Of(AFTER) : matches(policies[k], call)}
<1>1. PICK at \in InOrder(places) :
        Began(AFTER, call, [i \in DOMAIN at |-> policies[at[i]]], "done")
  BY DEF toolAfter
<1> DEFINE out == [i \in DOMAIN at |-> policies[at[i]]]
           c == [event |-> AFTER, call |-> call, pos |-> 0, out |-> out, end |-> "done"]
<1>2. /\ calls' = Append(calls, c) /\ started = "done"
      /\ UNCHANGED <<policies, started>> /\ evidence' = Append(evidence, Len(calls) + 1)
  BY <1>1 DEF toolAfter, Began
<1>3. at \in [1..Cardinality(places) -> places]
  BY DEF InOrder
<1>4. Cardinality(places) \in Nat
  <2>1. \E n \in Nat : DOMAIN policies = 1..n
    BY PoliciesAreListed
  <2>2. PICK n \in Nat : DOMAIN policies = 1..n
    BY <2>1
  <2>3. IsFiniteSet(1..n) /\ places \in SUBSET (1..n)
    BY <2>2, FS_Interval DEF Of
  <2>4. IsFiniteSet(places)
    BY <2>3, FS_Subset
  <2> QED
    BY <2>4, FS_CardinalityType
<1>5. \A i \in DOMAIN at : policies[at[i]] \in Item
  BY <1>3, PoliciesAreListed DEF Of, Item
<1>6. out \in Seq(Item)
  <2> DEFINE n == Cardinality(places)
  <2>1. DOMAIN at = 1..n /\ n \in Nat
    BY <1>3, <1>4
  <2> HIDE DEF n
  <2> QED
    BY <1>5, <2>1
<1>7. DOMAIN out = DOMAIN at /\ \A i \in DOMAIN at : out[i].name = policies[at[i]].name
  OBVIOUS
<1> HIDE DEF out
<1>8. c \in Record
  BY <1>6, EventsDiffer DEF Record, Outs
<1>9. c.event = AFTER /\ c.call = call /\ c.out = out /\ c.end = "done"
  OBVIOUS
<1> HIDE DEF c
<1>10. Meant(policies, c) = places
  BY <1>9, EventsDiffer DEF Meant, Of
<1>11. Pushed(policies, c, Meant(policies, c))
  BY <1>7, <1>9, <1>10 DEF Pushed
<1>12. Whole(policies, c)
  BY <1>8, <1>9, <1>11, EventsDiffer DEF Whole
<1> QED
  BY <1>2, <1>9, <1>12, BeganInv

LEMMA TransformInv ==
  ASSUME CIInv, NEW call \in Call, NEW event \in EVENTS, TransformBegins(event, call)
  PROVE  CIInv'
<1> DEFINE c == [event |-> event, call |-> call, pos |-> 0, out |-> <<>>, end |-> "running"]
<1>1. /\ calls' = Append(calls, c) /\ started = "done" /\ event \in {SYSTEM, MESSAGES}
      /\ UNCHANGED <<policies, started, evidence>>
  BY DEF TransformBegins, Began
<1>2. c \in Record
  BY DEF Record, Outs
<1>3. /\ c.event = event /\ c.out = <<>> /\ c.pos = 0 /\ c.end = "running"
      /\ c.out \in Seq(Item)
  OBVIOUS
<1> HIDE DEF c
<1>4. Upto(policies, c) = {}
  <2>1. \A k \in Meant(policies, c) : k \in Nat /\ k >= 1
    BY PoliciesAreListed DEF Meant
  <2> QED
    BY <1>3, <2>1 DEF Upto
<1>5. Pushed(policies, c, {})
  <2>1. << >> \in InOrder({})
    BY FS_EmptySet DEF InOrder
  <2> QED
    BY <1>3, <2>1 DEF Pushed
<1>6. Whole(policies, c)
  BY <1>1, <1>2, <1>3, <1>4, <1>5, EventsDiffer DEF Whole
<1> QED
  BY <1>1, <1>3, <1>6, BeganInv

\* What is left is what is meant and has not been reached.
LEMMA LeftIsMeant ==
  ASSUME NEW c, c.event \in {SYSTEM, MESSAGES}
  PROVE  Left(c) = {k \in Meant(policies, c) : k > c.pos}
BY EventsDiffer DEF Left, Meant, Of

LEMMA InjectInv ==
  ASSUME CIInv, NEW i \in DOMAIN calls, Inject(i)
  PROVE  CIInv'
<1> DEFINE c == calls[i]
<1>1. Whole(policies, c) /\ c \in Record /\ c.end = "running"
  BY DEF CIInv, Whole, Inject
<1>2. /\ c.event \in {SYSTEM, MESSAGES} /\ c.out \in Seq(Item) /\ c.pos \in Nat
      /\ Pushed(policies, c, Upto(policies, c))
  BY <1>1 DEF Whole, Record
<1> DEFINE Goes(k) == [c EXCEPT !.pos = k,
             !.out = Append(c.out, [name |-> policies[k].name, text |-> content[policies[k].file]])]
           Failed == [c EXCEPT !.end = "error"]
<1>3. PICK k \in Left(c) :
        /\ \A j \in Left(c) : k <= j
        /\ calls' = [calls EXCEPT ![i] =
             IF readInjectedFile(policies[k].file) THEN Goes(k) ELSE Failed]
  BY DEF Inject
<1>4. UNCHANGED <<policies, started, evidence>>
  BY DEF Inject
<1>5. Left(c) = {j \in Meant(policies, c) : j > c.pos}
  BY <1>2, LeftIsMeant
<1>6. k \in Meant(policies, c) /\ k > c.pos
  BY <1>3, <1>5
<1>7. \A j \in Meant(policies, c) : j \in Nat /\ policies[j] \in Policies
  BY PoliciesAreListed DEF Meant
<1>8. CASE readInjectedFile(policies[k].file)
  <2> DEFINE item == [name |-> policies[k].name, text |-> content[policies[k].file]]
             d == [c EXCEPT !.pos = k, !.out = Append(c.out, item)]
  <2>1. calls' = [calls EXCEPT ![i] = d]
    BY <1>3, <1>8
  <2>2. item \in Item /\ item.name = policies[k].name
    BY <1>6, <1>7, <1>8 DEF readInjectedFile, Item
  <2> HIDE DEF item
  <2>3. Append(c.out, item) \in Seq(Item)
    BY <1>2, <2>2
  <2>4. /\ d.event = c.event /\ d.call = c.call /\ d.end = c.end
        /\ d.pos = k /\ d.out = Append(c.out, item)
    BY <1>1 DEF Record
  <2>5. d \in Record
    BY <1>1, <1>6, <1>7, <2>3 DEF Record, Outs
  <2> HIDE DEF d
  <2>6. Meant(policies, d) = Meant(policies, c)
    BY <2>4 DEF Meant
  <2>7. Upto(policies, d) = Upto(policies, c) \union {k}
    <3>1. \A j \in Meant(policies, c) : j <= k => j <= c.pos \/ j = k
      BY <1>2, <1>3, <1>5, <1>7
    <3>2. \A j \in Meant(policies, c) : j <= c.pos => j <= k
      BY <1>2, <1>6, <1>7
    <3> QED
      BY <1>6, <1>7, <2>4, <2>6, <3>1, <3>2 DEF Upto
  <2>8. Pushed(policies, d, Upto(policies, d))
    <3> DEFINE S == Upto(policies, c)
    <3>1. \A j \in S : j < k /\ j \in Nat
      BY <1>2, <1>6, <1>7 DEF Upto
    <3>2. IsFiniteSet(S)
      <4>1. S \in SUBSET (0..c.pos)
        BY <1>2, <1>7 DEF Upto
      <4>2. IsFiniteSet(0..c.pos)
        BY <1>2, FS_Interval
      <4> QED
        BY <4>1, <4>2, FS_Subset
    <3>3. Pushed(policies, c, S) /\ c.out \in Seq(Item)
      BY <1>2
    <3>4. k \in Nat
      BY <1>6, <1>7
    <3>5. item \in Item /\ item.name = policies[k].name /\ d.out = Append(c.out, item)
      BY <2>2, <2>4
    <3> HIDE DEF c, S
    <3>6. Pushed(policies, d, S \union {k})
      BY <3>1, <3>2, <3>3, <3>4, <3>5, PushedOneMore
    <3> QED
      BY <3>6, <2>7 DEF S, c
  <2>9. Whole(policies, d)
    BY <1>1, <1>2, <2>3, <2>4, <2>5, <2>8, EventsDiffer DEF Whole
  <2> QED
    BY <1>1, <1>4, <2>1, <2>4, <2>9, GoesOnInv
<1>9. CASE ~readInjectedFile(policies[k].file)
  <2> DEFINE d == [c EXCEPT !.end = "error"]
  <2>1. calls' = [calls EXCEPT ![i] = d]
    BY <1>3, <1>9
  <2>2. d \in Record /\ d.event = c.event /\ d.end = "error"
    BY <1>1 DEF Record
  <2> HIDE DEF d
  <2>3. Whole(policies, d)
    BY <1>2, <2>2, EventsDiffer DEF Whole
  <2> QED
    BY <1>1, <1>4, <2>1, <2>2, <2>3, GoesOnInv
<1> QED
  BY <1>8, <1>9

LEMMA WithEvidenceInv ==
  ASSUME CIInv, NEW i \in DOMAIN calls, withEvidence(i)
  PROVE  CIInv'
<1> DEFINE c == calls[i]
           d == [c EXCEPT !.end = "done"]
<1>1. Whole(policies, c) /\ c \in Record /\ c.end = "running" /\ Left(c) = {}
  BY DEF CIInv, Whole, withEvidence
<1>2. /\ c.event \in {SYSTEM, MESSAGES} /\ c.pos \in Nat
      /\ Pushed(policies, c, Upto(policies, c))
  BY <1>1 DEF Whole, Record
<1>3. calls' = [calls EXCEPT ![i] = d]
  <2>1. calls' = [calls EXCEPT ![i].end = "done"]
    BY DEF withEvidence
  <2> QED
    BY <2>1
<1>4. UNCHANGED <<policies, started>> /\ evidence' = Append(evidence, i)
  BY DEF withEvidence
<1>5. /\ d \in Record /\ d.event = c.event /\ d.call = c.call /\ d.out = c.out
      /\ d.end = "done"
  BY <1>1 DEF Record
<1> HIDE DEF d
<1>6. Meant(policies, d) = Meant(policies, c)
  BY <1>5 DEF Meant
<1>7. Upto(policies, c) = Meant(policies, c)
  <2>1. \A k \in Meant(policies, c) : k \in Nat
    BY PoliciesAreListed DEF Meant
  <2>2. \A k \in Meant(policies, c) : ~(k > c.pos)
    BY <1>1, <1>2, LeftIsMeant
  <2> QED
    BY <1>2, <2>1, <2>2 DEF Upto
<1>8. Pushed(policies, d, Meant(policies, d))
  BY <1>2, <1>5, <1>6, <1>7 DEF Pushed
<1>9. Whole(policies, d)
  BY <1>2, <1>5, <1>8, EventsDiffer DEF Whole
<1> QED
  BY <1>1, <1>3, <1>4, <1>5, <1>9, GoesOnInv

LEMMA CIStepInv == CIInv /\ [CINext]_ciVars => CIInv'
<1> SUFFICES ASSUME CIInv, [CINext]_ciVars PROVE CIInv'
  OBVIOUS
<1>1. CASE \E entries \in Documents : server(entries)
  BY <1>1, StartInv
<1>2. CASE \E call \in Call : toolBefore(call) \/ toolAfter(call) \/ applyThinkingEffort(call)
  BY <1>2, BeforeInv, AfterInv, ThinkingInv
<1>3. CASE \E call \in Call, event \in EVENTS : TransformBegins(event, call)
  BY <1>3, TransformInv
<1>4. CASE \E i \in DOMAIN calls : Inject(i) \/ withEvidence(i)
  BY <1>4, InjectInv, WithEvidenceInv
<1>5. CASE OperatorEdits \/ UNCHANGED ciVars
  <2>1. UNCHANGED <<started, policies, evidence, calls>>
    BY <1>5 DEF OperatorEdits, ciVars
  <2> QED
    BY <2>1 DEF CIInv
<1> QED
  BY <1>1, <1>2, <1>3, <1>4, <1>5 DEF CINext

LEMMA CIInvariant == CISpec => []CIInv
BY CIInitInv, CIStepInv, PTL DEF CISpec

\* A block holds wherever it stands, and a hook that ends well has applied every
\* policy meant for its call once and in order, for any number of hooks under
\* way and any edits of the files (v1-hook-adapter.ts createV1HookAdapter).
THEOREM EveryPolicyIsApplied == CISpec => []EveryPolicyApplied
<1>1. CIInv => EveryPolicyApplied
  <2> SUFFICES ASSUME CIInv, NEW i \in DOMAIN calls
               PROVE  LET c == calls[i] IN
                      IF c.event = BEFORE
                      THEN c.end = "done" <=>
                             \A k \in DOMAIN policies :
                               policies[k].event = BEFORE /\ matches(policies[k], c.call)
                                 => policies[k].action # "block"
                      ELSE c.event \in EVENTS /\ c.end = "done" => Applied(c, Wanted(c))
    BY DEF EveryPolicyApplied
  <2>1. Whole(policies, calls[i])
    BY DEF CIInv
  <2>2. CASE calls[i].event = BEFORE
    BY <2>1, <2>2 DEF Whole, Blocks
  <2>3. CASE calls[i].event # BEFORE
    BY <2>1, <2>3, OfLoaded, EventsDiffer DEF Whole
  <2> QED
    BY <2>2, <2>3
<1> QED
  BY <1>1, CIInvariant, PTL

\* The evidence names every injection and warning that was given whole, once, and
\* none that failed half-way (server.ts withEvidence).
THEOREM EvidenceIsOfWholeHooks == CISpec => []EvidenceOfWholeHooks
<1>1. CIInv => EvidenceOfWholeHooks
  <2> SUFFICES ASSUME CIInv PROVE EvidenceOfWholeHooks
    OBVIOUS
  <2>1. IsInjective(evidence) /\ ToSet(evidence) = Due(calls)
    BY DEF CIInv, EvidenceOf
  <2>2. \A i \in Due(calls) : Applied(calls[i], Wanted(calls[i]))
    BY OfLoaded DEF CIInv, Whole, Due
  <2>3. EVENTS \ {BEFORE} = {AFTER, SYSTEM, MESSAGES}
    BY EventsDiffer
  <2> QED
    BY <2>1, <2>2, <2>3 DEF EvidenceOfWholeHooks, Due
<1> QED
  BY <1>1, CIInvariant, PTL
=============================================================================
