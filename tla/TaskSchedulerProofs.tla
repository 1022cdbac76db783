------------------------ MODULE TaskSchedulerProofs ------------------------
(***************************************************************************)
(* Theorems about TaskScheduler, for any finite set of tasks.              *)
(***************************************************************************)
EXTENDS TaskScheduler, FiniteSetTheorems, TLAPS

(* The inductive invariant: types; a queue without repetitions, and never of a *)
(* task not yet there; a running task nobody has rescheduled is not in the     *)
(* queue and not due; a row without a next run is accounted for.               *)

IdsOf(s)    == {s[i].id : i \in DOMAIN s}
Distinct(s) == \A i, j \in DOMAIN s : s[i].id = s[j].id => i = j

\* A run of t that has not ended.
Busy(t) == IsTask /\ ~slot.over /\ slot.id = t

Types ==
  /\ row \in [Tasks -> Rows \cup {Unborn, Gone}]
  /\ pendingTasks \in Seq(Snapshot)
  /\ slot \in Run \cup {Null, Messages}
  /\ paused \in BOOLEAN
  /\ rearmed \subseteq Tasks /\ cutOff \subseteq Tasks

QueueInv == Distinct(pendingTasks) /\ \A t \in IdsOf(pendingTasks) : row[t] # Unborn

RunInv ==
  \A t \in Tasks : Busy(t) =>
    /\ row[t] # Unborn
    /\ t \notin rearmed =>
         t \notin IdsOf(pendingTasks) /\ (Exists(t) => row[t].next = "none")

NextRunInv ==
  \A t \in Tasks : Exists(t) /\ row[t].next = "none" => Busy(t) \/ t \in cutOff

Inv == Types /\ QueueInv /\ RunInv /\ NextRunInv

-----------------------------------------------------------------------------
(* Sequences of snapshots. *)

LEMMA EmptyDistinct ==
  /\ <<>> \in Seq(Snapshot) /\ IdsOf(<<>>) = {} /\ Distinct(<<>>)
  BY DEF IdsOf, Distinct

LEMMA TailDistinct ==
  ASSUME NEW s \in Seq(Snapshot), s # <<>>, Distinct(s)
  PROVE  /\ Head(s) \in Snapshot /\ Tail(s) \in Seq(Snapshot)
         /\ Distinct(Tail(s))
         /\ IdsOf(Tail(s)) \subseteq IdsOf(s)
         /\ Head(s).id \in IdsOf(s)
         /\ Head(s).id \notin IdsOf(Tail(s))
  <1>1. /\ Head(s) \in Snapshot /\ Tail(s) \in Seq(Snapshot)
        /\ Head(s) = s[1] /\ 1 \in DOMAIN s
        /\ \A i \in DOMAIN Tail(s) : i \in Nat /\ i + 1 \in DOMAIN s
                                      /\ i + 1 # 1 /\ Tail(s)[i] = s[i + 1]
    OBVIOUS
  <1>2. Distinct(Tail(s))
    <2> SUFFICES ASSUME NEW i \in DOMAIN Tail(s), NEW j \in DOMAIN Tail(s),
                        Tail(s)[i].id = Tail(s)[j].id
                 PROVE  i = j
      BY DEF Distinct
    <2>1. i + 1 = j + 1
      BY <1>1 DEF Distinct
    <2>2. QED
      BY <2>1, <1>1
  <1>3. IdsOf(Tail(s)) \subseteq IdsOf(s) /\ Head(s).id \in IdsOf(s)
    BY <1>1 DEF IdsOf
  <1>4. Head(s).id \notin IdsOf(Tail(s))
    BY <1>1 DEF IdsOf, Distinct
  <1>5. QED
    BY <1>1, <1>2, <1>3, <1>4

LEMMA ConcatDistinct ==
  ASSUME NEW s \in Seq(Snapshot), NEW u \in Seq(Snapshot),
         Distinct(s), Distinct(u), IdsOf(s) \cap IdsOf(u) = {}
  PROVE  /\ s \o u \in Seq(Snapshot)
         /\ Distinct(s \o u)
         /\ IdsOf(s \o u) = IdsOf(s) \cup IdsOf(u)
  <1>1. /\ s \o u \in Seq(Snapshot)
        /\ Len(s) \in Nat /\ Len(u) \in Nat
        /\ DOMAIN s = 1 .. Len(s) /\ DOMAIN u = 1 .. Len(u)
        /\ DOMAIN (s \o u) = 1 .. Len(s) + Len(u)
    OBVIOUS
  <1>2. \A i \in DOMAIN s : i \in DOMAIN (s \o u) /\ (s \o u)[i] = s[i]
    BY <1>1
  <1>3. \A i \in DOMAIN u : Len(s) + i \in DOMAIN (s \o u) /\ (s \o u)[Len(s) + i] = u[i]
    BY <1>1
  <1>3a. /\ \A i \in DOMAIN s : (s \o u)[i].id \in IdsOf(s)
         /\ \A i \in DOMAIN u : (s \o u)[Len(s) + i].id \in IdsOf(u)
    BY <1>2, <1>3 DEF IdsOf
  <1>4. \A i \in DOMAIN (s \o u) :
          i \in DOMAIN s \/ (i - Len(s) \in DOMAIN u /\ i = Len(s) + (i - Len(s)))
    BY <1>1
  <1>5. Distinct(s \o u)
    <2> SUFFICES ASSUME NEW i \in DOMAIN (s \o u), NEW j \in DOMAIN (s \o u),
                        (s \o u)[i].id = (s \o u)[j].id
                 PROVE  i = j
      BY DEF Distinct
    <2>1. CASE i \in DOMAIN s /\ j \in DOMAIN s
      BY <2>1, <1>2 DEF Distinct
    <2>2. CASE i \in DOMAIN s /\ j - Len(s) \in DOMAIN u
      BY <2>2, <1>3a, <1>4
    <2>3. CASE i - Len(s) \in DOMAIN u /\ j \in DOMAIN s
      BY <2>3, <1>3a, <1>4
    <2>4. CASE i - Len(s) \in DOMAIN u /\ j - Len(s) \in DOMAIN u
      <3>1. u[i - Len(s)].id = u[j - Len(s)].id
        BY <2>4, <1>1, <1>3
      <3>2. i - Len(s) = j - Len(s)
        BY <2>4, <3>1 DEF Distinct
      <3>3. QED
        BY <3>2, <1>1
    <2>5. QED
      BY <2>1, <2>2, <2>3, <2>4, <1>4
  <1>6. IdsOf(s \o u) \subseteq IdsOf(s) \cup IdsOf(u)
    <2> SUFFICES ASSUME NEW i \in DOMAIN (s \o u)
                 PROVE  (s \o u)[i].id \in IdsOf(s) \cup IdsOf(u)
      BY DEF IdsOf
    <2>1. CASE i \in DOMAIN s
      BY <2>1, <1>2 DEF IdsOf
    <2>2. CASE i - Len(s) \in DOMAIN u
      BY <2>2, <1>1, <1>3 DEF IdsOf
    <2>3. QED
      BY <2>1, <2>2, <1>4
  <1>7. IdsOf(s) \cup IdsOf(u) \subseteq IdsOf(s \o u)
    BY <1>2, <1>3 DEF IdsOf
  <1>8. QED
    BY <1>1, <1>5, <1>6, <1>7

\* A queue without repetitions is no longer than there are tasks.
LEMMA DistinctBound ==
  ASSUME NEW s \in Seq(Snapshot), Distinct(s)
  PROVE  Len(s) <= Cardinality(Tasks)
  <1> DEFINE f == [i \in 1 .. Len(s) |-> s[i].id]
  <1>1. Len(s) \in Nat /\ DOMAIN s = 1 .. Len(s)
    OBVIOUS
  <1>2. IsFiniteSet(1 .. Len(s)) /\ Cardinality(1 .. Len(s)) = Len(s)
    BY <1>1, FS_Interval
  <1>3. f \in [1 .. Len(s) -> Tasks]
    <2>1. \A i \in 1 .. Len(s) : s[i] \in Snapshot
      BY <1>1
    <2>2. \A i \in 1 .. Len(s) : s[i].id \in Tasks
      BY <2>1 DEF Snapshot
    <2>3. QED
      BY <2>2
  <1>4. \A i, j \in 1 .. Len(s) : f[i] = f[j] => i = j
    BY <1>1 DEF Distinct
  <1>5. ASSUME Cardinality(Tasks) < Cardinality(1 .. Len(s)) PROVE FALSE
    <2> HIDE DEF f
    <2>1. \E i, j \in 1 .. Len(s) : i # j /\ f[i] = f[j]
      BY <1>2, <1>3, <1>5, TasksAssumption, FS_PigeonHole, Zenon
    <2>2. QED
      BY <2>1, <1>4
  <1>6. QED
    BY <1>1, <1>2, <1>5, TasksAssumption, FS_CardinalityType

-----------------------------------------------------------------------------
(* What the steps of a run do to the rows. *)

Statuses == {"active", "paused", "completed"}
Nexts    == {"none", "later", "past"}

LEMMA WriteFacts ==
  ASSUME Types, NEW t \in Tasks, NEW a, NEW b,
         Exists(t) => a \in Statuses /\ b \in Nexts
  PROVE  /\ Write(t, a, b) \in [Tasks -> Rows \cup {Unborn, Gone}]
         /\ \A u \in Tasks \ {t} : Write(t, a, b)[u] = row[u]
         /\ ~Exists(t) => Write(t, a, b) = row
         /\ Exists(t) => /\ Write(t, a, b)[t] \in Rows
                         /\ Write(t, a, b)[t].status = a /\ Write(t, a, b)[t].next = b
  <1>1. CASE ~Exists(t)
    BY <1>1 DEF Write, Types
  <1>2. CASE Exists(t)
    <2>1. row[t] \in Rows
      BY <1>2 DEF Types, Exists
    <2>2. Write(t, a, b) = [row EXCEPT ![t] = [kind |-> row[t].kind, status |-> a, next |-> b]]
      BY <1>2 DEF Write
    <2>3. [kind |-> row[t].kind, status |-> a, next |-> b] \in Rows
      BY <1>2, <2>1 DEF Rows, Statuses, Nexts
    <2> DEFINE r == [kind |-> row[t].kind, status |-> a, next |-> b]
    <2>4. r \in Rows /\ r.status = a /\ r.next = b
      BY <2>3
    <2> HIDE DEF r
    <2>5. Write(t, a, b) = [row EXCEPT ![t] = r]
      BY <2>2 DEF r
    <2>6. QED
      BY <1>2, <2>4, <2>5 DEF Types
  <1>3. QED
    BY <1>1, <1>2

\* A run starts, nothing else being run: the row is claimed, or the run is over.
LEMMA StartFacts ==
  ASSUME Types, NextRunInv, NEW s \in Snapshot, Start(s), \A t \in Tasks : ~Busy(t)
  PROVE  /\ row' \in [Tasks -> Rows \cup {Unborn, Gone}]
         /\ slot' \in Run /\ rearmed' \subseteq Tasks /\ cutOff' \subseteq Tasks
         /\ slot'.id = s.id
         /\ \A t \in Tasks : row'[t] = Unborn <=> row[t] = Unborn
         /\ ~slot'.over /\ row'[s.id] \notin {Unborn, Gone} => row'[s.id].next = "none"
         /\ \A t \in Tasks : row'[t] \notin {Unborn, Gone} /\ row'[t].next = "none" =>
              (~slot'.over /\ t = s.id) \/ t \in cutOff'
  <1>1. s.id \in Tasks /\ s.kind \in Kinds
    BY DEF Snapshot
  <1>2. slot' \in Run /\ slot'.id = s.id
    BY <1>1 DEF Start, Run
  <1>3. rearmed' \subseteq Tasks /\ cutOff' \subseteq Tasks
    BY <1>1 DEF Start, Types
  <1>4. \A t \in Tasks : Exists(t) /\ row[t].next = "none" => t \in cutOff
    BY DEF NextRunInv
  <1>5. Exists(s.id) => row[s.id] \in Rows /\ row[s.id].status \in Statuses
                        /\ row[s.id].next \in Nexts
    BY <1>1 DEF Exists, Types, Rows, Statuses, Nexts
  <1>6. CASE /\ ~slot'.over
             /\ row' = Write(s.id, row[s.id].status, "none")
             /\ cutOff' = cutOff \ {s.id}
    <2>1. "none" \in Nexts
      BY DEF Nexts
    <2>2. QED
      BY <1>1, <1>2, <1>3, <1>4, <1>5, <1>6, <2>1, WriteFacts, AbsentAssumption DEF Exists
  <1>7. CASE /\ slot'.over
             /\ row' = Write(s.id, "paused", "none")
             /\ cutOff' = cutOff \cup {s.id}
    <2>1. "paused" \in Statuses /\ "none" \in Nexts
      BY DEF Nexts, Statuses
    <2>2. QED
      BY <1>1, <1>2, <1>3, <1>4, <1>7, <2>1, WriteFacts, AbsentAssumption DEF Exists
  <1>8. CASE /\ slot'.over
             /\ row' = Write(s.id, "paused", row[s.id].next)
             /\ UNCHANGED cutOff
    <2>1. "paused" \in Statuses
      BY DEF Statuses
    <2>2. QED
      BY <1>1, <1>2, <1>3, <1>4, <1>5, <1>8, <2>1, WriteFacts, AbsentAssumption DEF Exists
  <1>9. QED
    BY <1>6, <1>7, <1>8 DEF Start

-----------------------------------------------------------------------------
(* The invariant is kept by each action. *)

\* While a task's run is under way the slot is that task's.
LEMMA SlotFacts ==
  ASSUME Types
  PROVE  /\ IsTask => slot \in Run /\ slot.id \in Tasks
         /\ slot = Null \/ slot = Messages => \A t \in Tasks : ~Busy(t)
         /\ IsOver => \A t \in Tasks : ~Busy(t)
         /\ \A t \in Tasks : Queued(t) <=> t \in IdsOf(pendingTasks)
  BY DEF Types, IsTask, IsOver, Run, Busy, Queued, IdsOf

\* The slot goes to a queued task, or to one just found due.
LEMMA StartKeepsInv ==
  ASSUME Inv, NEW s \in Snapshot, Start(s), \A t \in Tasks : ~Busy(t),
         row[s.id] # Unborn,
         pendingTasks' \in Seq(Snapshot), Distinct(pendingTasks)',
         s.id \notin IdsOf(pendingTasks)',
         \A t \in IdsOf(pendingTasks)' : t \in Tasks /\ row[t] # Unborn,
         UNCHANGED paused
  PROVE  Inv'
  <1>1. /\ row' \in [Tasks -> Rows \cup {Unborn, Gone}]
        /\ slot' \in Run /\ rearmed' \subseteq Tasks /\ cutOff' \subseteq Tasks
        /\ slot'.id = s.id /\ s.id \in Tasks
        /\ \A t \in Tasks : row'[t] = Unborn <=> row[t] = Unborn
        /\ ~slot'.over /\ row'[s.id] \notin {Unborn, Gone} => row'[s.id].next = "none"
        /\ \A t \in Tasks : row'[t] \notin {Unborn, Gone} /\ row'[t].next = "none" =>
             (~slot'.over /\ t = s.id) \/ t \in cutOff'
    BY StartFacts DEF Inv, Snapshot
  <1>2. IsTask'
    BY <1>1, AbsentAssumption DEF IsTask
  <1>3. Types'
    BY <1>1 DEF Types, Inv
  <1>4. QueueInv'
    BY <1>1 DEF QueueInv
  <1>5. RunInv'
    BY <1>1, <1>2 DEF RunInv, Busy, Exists
  <1>6. NextRunInv'
    BY <1>1, <1>2 DEF NextRunInv, Busy, Exists
  <1>7. QED
    BY <1>3, <1>4, <1>5, <1>6 DEF Inv

LEMMA QueueIds ==
  ASSUME NEW s \in Seq(Snapshot)
  PROVE  IdsOf(s) \subseteq Tasks
  <1>1. \A i \in DOMAIN s : s[i] \in Snapshot
    OBVIOUS
  <1>2. \A i \in DOMAIN s : s[i].id \in Tasks
    BY <1>1 DEF Snapshot
  <1>3. QED
    BY <1>2 DEF IdsOf

LEMMA DrainGroupKeepsInv ==
  ASSUME Inv, DrainGroup, \A t \in Tasks : ~Busy(t), UNCHANGED paused
  PROVE  Inv'
  <1>1. CASE pendingTasks = <<>>
    <2>1. slot' = Null /\ UNCHANGED <<row, pendingTasks, rearmed, cutOff>>
      BY <1>1 DEF DrainGroup
    <2>2. \A t \in Tasks : ~Busy(t)'
      BY <2>1 DEF Busy, IsTask
    <2>3. Types' /\ QueueInv' /\ RunInv'
      BY <2>1, <2>2 DEF Inv, Types, QueueInv, RunInv, IdsOf, Distinct
    <2>4. NextRunInv'
      BY <2>1, <2>2 DEF Inv, NextRunInv, Exists
    <2>5. QED
      BY <2>3, <2>4 DEF Inv
  <1>2. CASE pendingTasks # <<>>
    <2>1. Start(Head(pendingTasks)) /\ pendingTasks' = Tail(pendingTasks)
      BY <1>2 DEF DrainGroup
    <2>2. pendingTasks \in Seq(Snapshot) /\ Distinct(pendingTasks)
          /\ \A t \in IdsOf(pendingTasks) : t \in Tasks /\ row[t] # Unborn
      BY QueueIds DEF Inv, Types, QueueInv
    <2>3. /\ Head(pendingTasks) \in Snapshot /\ Tail(pendingTasks) \in Seq(Snapshot)
          /\ Distinct(Tail(pendingTasks))
          /\ IdsOf(Tail(pendingTasks)) \subseteq IdsOf(pendingTasks)
          /\ Head(pendingTasks).id \in IdsOf(pendingTasks)
          /\ Head(pendingTasks).id \notin IdsOf(Tail(pendingTasks))
      BY <1>2, <2>2, TailDistinct
    <2>4. Distinct(pendingTasks)' /\ IdsOf(pendingTasks)' = IdsOf(Tail(pendingTasks))
      BY <2>1, <2>3 DEF Distinct, IdsOf
    <2>5. QED
      BY <2>1, <2>2, <2>3, <2>4, StartKeepsInv
  <1>3. QED
    BY <1>1, <1>2

\* A change of one row, by hand or as time passes.
LEMMA RowKeepsInv ==
  ASSUME Inv, NEW t \in Tasks, NEW v \in Rows \cup {Gone},
         row' = [row EXCEPT ![t] = v], UNCHANGED <<pendingTasks, slot, paused>>,
         rearmed' \subseteq Tasks, rearmed \subseteq rearmed',
         cutOff' \subseteq Tasks, cutOff \ {t} \subseteq cutOff',
         v # Gone /\ v.next # "none" =>
           t \in rearmed' \/ ~Busy(t) \/ (Exists(t) /\ row[t].next # "none"),
         v # Gone /\ v.next = "none" =>
           Exists(t) /\ row[t].next = "none" /\ cutOff' = cutOff
  PROVE  Inv'
  <1>1. /\ row' \in [Tasks -> Rows \cup {Unborn, Gone}]
        /\ row'[t] = v /\ v # Unborn /\ \A u \in Tasks \ {t} : row'[u] = row[u]
    BY AbsentAssumption DEF Inv, Types
  <1>2. Types'
    BY <1>1 DEF Inv, Types
  <1>3. QueueInv'
    <2>1. IdsOf(pendingTasks)' = IdsOf(pendingTasks) /\ Distinct(pendingTasks)'
      BY DEF IdsOf, Distinct, Inv, QueueInv
    <2>2. \A u \in IdsOf(pendingTasks) : u \in Tasks
      BY QueueIds DEF Inv, Types
    <2>3. QED
      BY <1>1, <2>1, <2>2 DEF Inv, QueueInv
  <1>4. \A u \in Tasks : Busy(u)' <=> Busy(u)
    BY DEF Busy, IsTask
  <1>5. RunInv'
    BY <1>1, <1>4 DEF Inv, RunInv, Exists, IdsOf
  <1>6. NextRunInv'
    BY <1>1, <1>4 DEF Inv, NextRunInv, Exists
  <1>7. QED
    BY <1>2, <1>3, <1>5, <1>6 DEF Inv

LEMMA CreateTaskKeepsInv ==
  ASSUME Inv, NEW t \in Tasks, NEW kind \in Kinds, CreateTask(t, kind)
  PROVE  Inv'
  <1> DEFINE v == [kind |-> kind, status |-> "active", next |-> "later"]
  <1>1. v \in Rows /\ v.next = "later"
    BY DEF Rows
  <1>2. row' = [row EXCEPT ![t] = v]
    BY DEF CreateTask
  <1>3. ~Busy(t)
    BY DEF CreateTask, Inv, RunInv
  <1> HIDE DEF v
  <1>4. QED
    BY <1>1, <1>2, <1>3, RowKeepsInv DEF CreateTask, Inv, Types

LEMMA SetStatusKeepsInv ==
  ASSUME Inv, NEW t \in Tasks, NEW status \in {"active", "paused"}, SetStatus(t, status)
  PROVE  Inv'
  <1> DEFINE v == [row[t] EXCEPT !.status = status]
  <1>1. row[t] \in Rows
    BY DEF SetStatus, Exists, Inv, Types
  <1>2. v \in Rows /\ v.next = row[t].next
    BY <1>1 DEF Rows
  <1>3. row' = [row EXCEPT ![t] = v]
    BY <1>1 DEF SetStatus, Inv, Types
  <1> HIDE DEF v
  <1>4. QED
    BY <1>2, <1>3, RowKeepsInv DEF SetStatus, Inv, Types

LEMMA RescheduleKeepsInv ==
  ASSUME Inv, NEW t \in Tasks, NEW kind \in Kinds, Reschedule(t, kind)
  PROVE  Inv'
  <1> DEFINE v == [row[t] EXCEPT !.kind = kind, !.next = "later"]
  <1>1. row[t] \in Rows
    BY DEF Reschedule, Exists, Inv, Types
  <1>2. v \in Rows /\ v.next = "later"
    BY <1>1 DEF Rows
  <1>3. row' = [row EXCEPT ![t] = v]
    BY <1>1 DEF Reschedule, Inv, Types
  <1> HIDE DEF v
  <1>4. QED
    BY <1>2, <1>3, RowKeepsInv DEF Reschedule, Rearm, Inv, Types

LEMMA RunNowKeepsInv ==
  ASSUME Inv, NEW t \in Tasks, RunNow(t)
  PROVE  Inv'
  <1> DEFINE v == [row[t] EXCEPT !.status = "active", !.next = "past"]
  <1>1. row[t] \in Rows
    BY DEF RunNow, Exists, Inv, Types
  <1>2. v \in Rows /\ v.next = "past"
    BY <1>1 DEF Rows
  <1>3. row' = [row EXCEPT ![t] = v]
    BY <1>1 DEF RunNow, Inv, Types
  <1> HIDE DEF v
  <1>4. QED
    BY <1>2, <1>3, RowKeepsInv DEF RunNow, Rearm, Inv, Types

LEMMA DeleteTaskKeepsInv ==
  ASSUME Inv, NEW t \in Tasks, DeleteTask(t)
  PROVE  Inv'
  BY RowKeepsInv DEF DeleteTask, Inv, Types

LEMMA ComesDueKeepsInv ==
  ASSUME Inv, NEW t \in Tasks, ComesDue(t)
  PROVE  Inv'
  <1> DEFINE v == [row[t] EXCEPT !.next = "past"]
  <1>1. row[t] \in Rows
    BY DEF ComesDue, Exists, Inv, Types
  <1>2. v \in Rows /\ v.next = "past"
    BY <1>1 DEF Rows
  <1>3. row' = [row EXCEPT ![t] = v]
    BY <1>1 DEF ComesDue, Inv, Types
  <1>4. Exists(t) /\ row[t].next # "none"
    BY DEF ComesDue
  <1> HIDE DEF v
  <1>5. QED
    BY <1>2, <1>3, <1>4, RowKeepsInv DEF ComesDue, Inv, Types

\* No run goes on after the step: the rows without a next run are in cutOff.
LEMMA NoneBusyKeepsInv ==
  ASSUME Types', Inv, UNCHANGED row \/ \A t \in Tasks : row'[t] = Unborn <=> row[t] = Unborn,
         \A t \in Tasks : ~Busy(t)',
         pendingTasks' = pendingTasks \/ pendingTasks' = <<>>,
         \A t \in Tasks : Exists(t)' /\ row'[t].next = "none" => t \in cutOff'
  PROVE  Inv'
  <1>1. QueueInv'
    <2>1. \A t \in IdsOf(pendingTasks) : t \in Tasks
      BY QueueIds DEF Inv, Types
    <2>2. IdsOf(pendingTasks)' \subseteq IdsOf(pendingTasks) /\ Distinct(pendingTasks)'
      BY DEF Inv, QueueInv, IdsOf, Distinct
    <2>3. QED
      BY <2>1, <2>2 DEF Inv, QueueInv
  <1>2. RunInv' /\ NextRunInv'
    BY DEF RunInv, NextRunInv
  <1>3. QED
    BY <1>1, <1>2 DEF Inv

LEMMA RunEndsKeepsInv ==
  ASSUME Inv, RunEnds
  PROVE  Inv'
  <1>1. IsTask /\ ~slot.over /\ slot \in Run /\ slot.id \in Tasks
    BY SlotFacts DEF RunEnds, IsOver, Inv
  <1>2. slot' = [slot EXCEPT !.over = TRUE] /\ slot' \in Run /\ slot'.over
    BY <1>1 DEF RunEnds, Run
  <1>3. \A t \in Tasks : ~Busy(t)'
    BY <1>2 DEF Busy
  <1>4. \A t \in Tasks \ {slot.id} : Exists(t) /\ row[t].next = "none" => t \in cutOff
    BY <1>1 DEF Inv, NextRunInv, Busy
  <1>5. Exists(slot.id) => row[slot.id] \in Rows /\ row[slot.id].status \in Statuses
    BY <1>1 DEF Inv, Types, Exists, Rows, Statuses
  <1>6. {"completed"} \subseteq Statuses /\ {"none", "later"} \subseteq Nexts
    BY DEF Statuses, Nexts
  <1>7. CASE slot.kind = "once"
    <2>1. row' = Write(slot.id, "completed", "none") /\ cutOff' = cutOff \cup {slot.id}
      BY <1>7 DEF RunEnds
    <2>2. /\ row' \in [Tasks -> Rows \cup {Unborn, Gone}]
          /\ \A t \in Tasks : row'[t] = Unborn <=> row[t] = Unborn
          /\ \A t \in Tasks : Exists(t)' /\ row'[t].next = "none" => t \in cutOff'
      BY <1>1, <1>4, <1>6, <2>1, WriteFacts, AbsentAssumption DEF Inv, Exists
    <2>3. QED
      BY <1>1, <1>2, <1>3, <2>1, <2>2, NoneBusyKeepsInv DEF RunEnds, Inv, Types
  <1>8. CASE /\ row' = Write(slot.id, row[slot.id].status, "later")
             /\ cutOff' = cutOff \ {slot.id}
    <2>1. /\ row' \in [Tasks -> Rows \cup {Unborn, Gone}]
          /\ \A t \in Tasks : row'[t] = Unborn <=> row[t] = Unborn
          /\ \A t \in Tasks : Exists(t)' /\ row'[t].next = "none" => t \in cutOff'
      BY <1>1, <1>4, <1>5, <1>6, <1>8, WriteFacts, AbsentAssumption DEF Inv, Exists
    <2>2. QED
      BY <1>1, <1>2, <1>3, <1>8, <2>1, NoneBusyKeepsInv DEF RunEnds, Inv, Types
  <1>9. CASE /\ UNCHANGED row
             /\ cutOff' = cutOff \cup {t \in {slot.id} : Exists(t) /\ row[t].next = "none"}
    <2>1. /\ \A t \in Tasks : Exists(t)' /\ row'[t].next = "none" => t \in cutOff'
          /\ cutOff' \subseteq Tasks
      BY <1>1, <1>4, <1>9 DEF Inv, Types, Exists
    <2>2. QED
      BY <1>1, <1>2, <1>3, <1>9, <2>1, NoneBusyKeepsInv DEF RunEnds, Inv, Types
  <1>10. QED
    BY <1>7, <1>8, <1>9 DEF RunEnds

LEMMA MessagesStartKeepsInv ==
  ASSUME Inv, MessagesStart
  PROVE  Inv'
  <1>1. \A t \in Tasks : ~Busy(t)
    BY SlotFacts DEF MessagesStart, Inv
  <1>2. \A t \in Tasks : ~Busy(t)'
    BY DEF MessagesStart, Busy, IsTask
  <1>3. Types'
    BY DEF MessagesStart, Inv, Types
  <1>4. \A t \in Tasks : Exists(t)' /\ row'[t].next = "none" => t \in cutOff'
    BY <1>1 DEF MessagesStart, Inv, NextRunInv, Exists
  <1>5. QED
    BY <1>2, <1>3, <1>4, NoneBusyKeepsInv DEF MessagesStart

LEMMA CrashKeepsInv ==
  ASSUME Inv, Crash
  PROVE  Inv'
  <1>1. \A t \in Tasks : ~Busy(t)'
    BY DEF Crash, Busy, IsTask
  <1>2. Types'
    <2>1. cutOff' \subseteq Tasks
      BY DEF Crash, Inv, Types
    <2>2. pendingTasks' \in Seq(Snapshot)
      BY EmptyDistinct DEF Crash
    <2>3. QED
      BY <2>1, <2>2 DEF Crash, Inv, Types
  <1>3. \A t \in Tasks : Exists(t)' /\ row'[t].next = "none" => t \in cutOff'
    BY DEF Crash, Inv, NextRunInv, Exists, Running, Busy
  <1>4. QED
    BY <1>1, <1>2, <1>3, NoneBusyKeepsInv DEF Crash

LEMMA TurnGateKeepsInv ==
  ASSUME Inv, TurnGate
  PROVE  Inv'
  <1>1. paused' \in BOOLEAN /\ UNCHANGED <<row, pendingTasks, slot, rearmed, cutOff>>
    BY DEF TurnGate, Inv, Types
  <1>2. QED
    BY <1>1 DEF Inv, Types, QueueInv, RunInv, NextRunInv, IdsOf, Distinct, Busy, IsTask, Exists

\* The tasks found due by a poll, as they are handed to the queue.
LEMMA FoundFacts ==
  ASSUME Inv, NEW S \in SUBSET Tasks, NEW order \in SetToSeqs(S),
         \A t \in S : Exists(t) /\ row[t].kind \in Kinds
  PROVE  LET found == [i \in DOMAIN order |-> [id |-> order[i], kind |-> row[order[i]].kind]]
         IN  found \in Seq(Snapshot) /\ Distinct(found) /\ IdsOf(found) \subseteq S
  <1> DEFINE D == 1 .. Cardinality(S)
             found == [i \in DOMAIN order |-> [id |-> order[i], kind |-> row[order[i]].kind]]
  <1>1. Cardinality(S) \in Nat
    BY TasksAssumption, FS_Subset, FS_CardinalityType
  <1>2. order \in [D -> S] /\ \A i, j \in D : i # j => order[i] # order[j]
    BY DEF SetToSeqs
  <1>3. DOMAIN order = D /\ DOMAIN found = D
    BY <1>2
  <1>4. \A i \in D : order[i] \in S /\ found[i] \in Snapshot /\ found[i].id = order[i]
    BY <1>2, <1>3 DEF Snapshot
  <1>5. found \in Seq(Snapshot)
    <2>1. found = [i \in D |-> [id |-> order[i], kind |-> row[order[i]].kind]]
      BY <1>3
    <2>2. QED
      BY <1>1, <1>4, <1>3
  <1>6. Distinct(found)
    BY <1>2, <1>3, <1>4 DEF Distinct
  <1>7. IdsOf(found) \subseteq S
    BY <1>3, <1>4 DEF IdsOf
  <1>8. QED
    BY <1>5, <1>6, <1>7

LEMMA PollKeepsInv ==
  ASSUME Inv, Poll
  PROVE  Inv'
  <1> DEFINE S == {t \in Tasks : IsDue(t) /\ NotSkipped(t)}
             handed(order) == [i \in DOMAIN order |->
                                 [id |-> order[i], kind |-> row[order[i]].kind]]
  <1>1. PICK order \in SetToSeqs(S) :
          /\ ~IsOver /\ handed(order) # <<>>
          /\ IF slot = Null /\ ~paused
             THEN /\ Start(Head(handed(order)))
                  /\ pendingTasks' = pendingTasks \o Tail(handed(order))
             ELSE /\ pendingTasks' = pendingTasks \o handed(order)
                  /\ UNCHANGED <<row, slot, rearmed, cutOff>>
          /\ UNCHANGED <<paused, changes, crashes>>
    BY DEF Poll
  <1>2. \A t \in S : /\ t \in Tasks /\ Exists(t) /\ row[t].kind \in Kinds
                     /\ row[t].next = "past" /\ row[t] # Unborn
                     /\ t \notin IdsOf(pendingTasks)
    <2> SUFFICES ASSUME NEW t \in S
                 PROVE  /\ Exists(t) /\ row[t].kind \in Kinds
                        /\ row[t].next = "past" /\ row[t] # Unborn
                        /\ t \notin IdsOf(pendingTasks)
      OBVIOUS
    <2>1. Exists(t) /\ row[t].next = "past" /\ t \notin IdsOf(pendingTasks)
      BY SlotFacts DEF IsDue, Active, NotSkipped, Inv
    <2>2. row[t] \in Rows /\ row[t] # Unborn
      BY <2>1 DEF Exists, Inv, Types
    <2>3. QED
      BY <2>1, <2>2 DEF Rows
  <1> DEFINE found == handed(order)
  <1>3. found \in Seq(Snapshot) /\ Distinct(found) /\ IdsOf(found) \subseteq S
    BY <1>2, FoundFacts
  <1>4. pendingTasks \in Seq(Snapshot) /\ Distinct(pendingTasks)
        /\ \A t \in IdsOf(pendingTasks) : t \in Tasks /\ row[t] # Unborn
    BY QueueIds DEF Inv, Types, QueueInv
  <1>5. IdsOf(pendingTasks) \cap IdsOf(found) = {}
    BY <1>2, <1>3
  <1> HIDE DEF handed, S
  <1>6. CASE slot = Null /\ ~paused
    <2>1. Start(Head(found)) /\ pendingTasks' = pendingTasks \o Tail(found)
      BY <1>1, <1>6
    <2>2. /\ Head(found) \in Snapshot /\ Tail(found) \in Seq(Snapshot)
          /\ Distinct(Tail(found)) /\ IdsOf(Tail(found)) \subseteq IdsOf(found)
          /\ Head(found).id \in IdsOf(found) /\ Head(found).id \notin IdsOf(Tail(found))
      BY <1>1, <1>3, TailDistinct
    <2>3. IdsOf(pendingTasks) \cap IdsOf(Tail(found)) = {}
      BY <1>5, <2>2
    <2>4. /\ pendingTasks' \in Seq(Snapshot) /\ Distinct(pendingTasks \o Tail(found))
          /\ IdsOf(pendingTasks \o Tail(found)) = IdsOf(pendingTasks) \cup IdsOf(Tail(found))
      BY <1>4, <2>1, <2>2, <2>3, ConcatDistinct
    <2>5. Distinct(pendingTasks)' /\ IdsOf(pendingTasks)' = IdsOf(pendingTasks \o Tail(found))
      BY <2>1, <2>4 DEF Distinct, IdsOf
    <2>6. \A t \in Tasks : ~Busy(t)
      BY <1>6, SlotFacts DEF Inv
    <2>7. Head(found).id \in S /\ IdsOf(Tail(found)) \subseteq S
      BY <1>3, <2>2
    <2>8. Head(found).id \notin IdsOf(pendingTasks)'
      BY <1>2, <2>2, <2>4, <2>5, <2>7
    <2>9. \A t \in IdsOf(pendingTasks)' : t \in Tasks /\ row[t] # Unborn
      BY <1>2, <1>4, <2>4, <2>5, <2>7
    <2>10. row[Head(found).id] # Unborn
      BY <1>2, <2>7
    <2> HIDE DEF found
    <2>11. QED
      BY <1>1, <2>1, <2>2, <2>4, <2>5, <2>6, <2>8, <2>9, <2>10, StartKeepsInv
  <1>7. CASE ~(slot = Null /\ ~paused)
    <2>1. pendingTasks' = pendingTasks \o found
          /\ UNCHANGED <<row, slot, rearmed, cutOff, paused>>
      BY <1>1, <1>7
    <2>2. /\ pendingTasks' \in Seq(Snapshot) /\ Distinct(pendingTasks \o found)
          /\ IdsOf(pendingTasks \o found) = IdsOf(pendingTasks) \cup IdsOf(found)
      BY <1>3, <1>4, <1>5, <2>1, ConcatDistinct
    <2>3. Distinct(pendingTasks)' /\ IdsOf(pendingTasks)' = IdsOf(pendingTasks) \cup IdsOf(found)
      BY <2>1, <2>2 DEF Distinct, IdsOf
    <2>4. Types' /\ NextRunInv'
      BY <2>1, <2>2 DEF Inv, Types, NextRunInv, Exists, Busy, IsTask
    <2>5. QueueInv'
      BY <1>2, <1>3, <1>4, <2>1, <2>3 DEF QueueInv
    <2>6. RunInv'
      <3> SUFFICES ASSUME NEW t \in Tasks, Busy(t)
                   PROVE  /\ row[t] # Unborn
                          /\ t \notin rearmed =>
                               t \notin IdsOf(pendingTasks)' /\ (Exists(t) => row[t].next = "none")
        BY <2>1 DEF RunInv, Busy, IsTask, Exists
      <3>1. t \notin rearmed => t \notin S
        BY <1>2 DEF Inv, RunInv
      <3>2. QED
        BY <1>3, <2>3, <3>1 DEF Inv, RunInv
    <2>7. QED
      BY <2>4, <2>5, <2>6 DEF Inv
  <1>8. QED
    BY <1>6, <1>7

-----------------------------------------------------------------------------
LEMMA InitInv == Init => Inv
  <1> SUFFICES ASSUME Init PROVE Inv
    OBVIOUS
  <1>1. \A t \in Tasks : ~Busy(t) /\ ~Exists(t)
    BY DEF Init, Busy, IsTask, Exists
  <1>2. QED
    <2>1. Types
      BY EmptyDistinct DEF Init, Types
    <2>2. QueueInv
      BY EmptyDistinct DEF Init, QueueInv
    <2>3. QED
      BY <1>1, <2>1, <2>2 DEF Inv, RunInv, NextRunInv

LEMMA NextInv == Inv /\ [Next]_vars => Inv'
  <1> SUFFICES ASSUME Inv, [Next]_vars PROVE Inv'
    OBVIOUS
  <1>1. ASSUME NEW t \in Tasks, NEW kind \in Kinds,
               CreateTask(t, kind) \/ Reschedule(t, kind)
        PROVE  Inv'
    BY <1>1, CreateTaskKeepsInv, RescheduleKeepsInv
  <1>2. ASSUME NEW t \in Tasks, NEW status \in {"active", "paused"}, SetStatus(t, status)
        PROVE  Inv'
    BY <1>2, SetStatusKeepsInv
  <1>3. ASSUME NEW t \in Tasks, RunNow(t) \/ DeleteTask(t) \/ ComesDue(t)
        PROVE  Inv'
    BY <1>3, RunNowKeepsInv, DeleteTaskKeepsInv, ComesDueKeepsInv
  <1>4. CASE RunEnds
    BY <1>4, RunEndsKeepsInv
  <1>5. CASE ReleaseSlot
    BY <1>5, SlotFacts, DrainGroupKeepsInv DEF ReleaseSlot, Inv
  <1>6. CASE MessagesEnd
    BY <1>6, SlotFacts, DrainGroupKeepsInv DEF MessagesEnd, Inv
  <1>7. CASE MessagesStart
    BY <1>7, MessagesStartKeepsInv
  <1>8. CASE Poll
    BY <1>8, PollKeepsInv
  <1>9. CASE TurnGate
    BY <1>9, TurnGateKeepsInv
  <1>10. CASE Crash
    BY <1>10, CrashKeepsInv
  <1>11. CASE UNCHANGED vars
    BY <1>11 DEF vars, Inv, Types, QueueInv, RunInv, NextRunInv, IdsOf, Distinct, Busy,
                 IsTask, Exists
  <1>12. QED
    BY <1>1, <1>2, <1>3, <1>4, <1>5, <1>6, <1>7, <1>8, <1>9, <1>10, <1>11 DEF Next

LEMMA Invariance == Spec => []Inv
  BY InitInv, NextInv, PTL DEF Spec

\* Rows, queue and slot keep their types, and no queue is ever longer than there
\* are tasks.
THEOREM TypeCorrect == Spec => []TypeOK
  <1>1. Inv => TypeOK
    BY DistinctBound DEF Inv, Types, QueueInv, TypeOK
  <1>2. QED
    BY <1>1, Invariance, PTL

\* However polls, changes by hand, gate and crashes interleave, a running task that
\* nobody rescheduled is not in the queue for a second run.
THEOREM OneRunPerDueTime == Spec => []NoSecondRun
  <1>1. Inv => NoSecondRun
    BY SlotFacts DEF Inv, RunInv, NoSecondRun, Busy, Running, IsOver
  <1>2. QED
    BY <1>1, Invariance, PTL

\* An active task without a next run is running, or its last run ended without one.
THEOREM NextRunAccounted == Spec => []ActiveComesDue
  <1>1. Inv => ActiveComesDue
    BY DEF Inv, NextRunInv, ActiveComesDue, Busy, Running, Active
  <1>2. QED
    BY <1>1, Invariance, PTL
=============================================================================
