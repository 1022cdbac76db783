------------------------- MODULE MessageCursorProofs -------------------------
(* Types, and the cursors of a chat: nothing is skipped, a failed batch comes *)
(* back and what was answered is not given again, for any number of chats,   *)
(* messages, tasks and crashes.                                              *)
EXTENDS MessageCursor, FiniteSetTheorems, WellFoundedInduction, TLAPS

(***************************************************************************)
(* The inductive invariants                                                *)
(***************************************************************************)
Message ==
  [chat : Chats, stamp : Nat \ {0}, trigger : BOOLEAN, command : BOOLEAN, admitted : BOOLEAN]

LogOK == log \in Seq(Message) /\ Len(log) <= MaxMessages

CursorsOK ==
  /\ lastTimestamp \in Nat /\ processedIdsTimestamp \in Nat /\ processedIds \subseteq Ids
  /\ lastAgentTimestamp \in [Chats -> Nat] /\ saved \in [last : Nat, agent : [Chats -> Nat]]

QueueOK ==
  /\ consecutiveErrors \in [Chats -> 0 .. MaxErrors]
  /\ pendingMessages \in [Chats -> BOOLEAN] /\ retryTimers \in [Chats -> Nat]
  /\ retryCount \in [Chats -> 0 .. MaxRetries]

\* Only what the host looks at has not been given to anyone; that is not nothing.
BatchGiven(r) ==
  r # Null => /\ r.batch \subseteq Ids
              /\ IF r.phase = "host" THEN r.batch # {} ELSE r.batch \subseteq handed

RunsOK ==
  /\ run \in [Chats -> {Null} \cup Run]
  /\ \A c \in Chats : BatchGiven(run[c])
  /\ handed \subseteq Ids /\ answered \subseteq handed

TypeInv == LogOK /\ CursorsOK /\ QueueOK /\ RunsOK

\* Messages stored later have later timestamps.
Later == \A d \in StampSteps : d > 0

\* What a cursor of a chat may be: some message is as new, and all up to it were
\* given to somebody.
Reached(t) == t = 0 \/ \E m \in Ids : t <= log[m].stamp
Behind(c) ==
  {t \in Nat : Reached(t) /\ \A m \in Ids : log[m].chat = c /\ log[m].stamp <= t => m \in handed}

\* The batch is what there is in the chat after t, but for newer messages.
Covers(c, batch, t) ==
  /\ batch # {} /\ batch \subseteq MessagesSince(c, t)
  /\ \A m \in MessagesSince(c, t) \ batch, b \in batch : log[b].stamp < log[m].stamp

HostOK(c) == InPhase(c, "host") =>
  /\ run[c].prev = lastAgentTimestamp[c] /\ ~ run[c].up
  /\ Covers(c, run[c].batch, run[c].prev)

\* The cursor, the saved one, and the one a failing run would fall back to.
PassInv ==
  \A c \in Chats :
    /\ lastAgentTimestamp[c] \in Behind(c) /\ saved.agent[c] \in Behind(c)
    /\ run[c] # Null => run[c].prev \in Behind(c)
    /\ HostOK(c)

\* The loop never forgets what it has seen: processedIds is not emptied.
Remembered == MaxIds >= MaxMessages

\* The loop has gone round since a container came up, so what is new to the loop
\* is new to the container.
LoopOK ==
  /\ ~ woken => NewMessages = {}
  /\ \A c \in Chats : Up(c) => NewIn(c) \subseteq MessagesSince(c, lastAgentTimestamp[c])

\* What a run was given lies between the cursor before it and both cursors now.
BatchOK(c) == run[c] # Null =>
  /\ run[c].prev <= lastAgentTimestamp[c]
  /\ \A m \in run[c].batch : log[m].chat = c /\ log[m].stamp > run[c].prev
  /\ run[c].phase # "host" => \A m \in run[c].batch :
       log[m].stamp <= lastAgentTimestamp[c] /\ log[m].stamp <= saved.agent[c]

\* A host command that was answered before a crash.
Forgotten(m) == log[m].command /\ crashes > 0

\* What was answered by a turn the host did not take back.
Counted == answered \ disowned

\* A failure would take the run's batch back, and none of it was answered before.
Unspoken(r) == r.phase = "failed" \/ (~ r.sent /\ r.out = "idle")

\* What was answered is not past any cursor, nor, but for the batch of a run with
\* output, past one that may come back.
AnsweredOK(m, c) == log[m].chat = c =>
  /\ log[m].stamp <= lastAgentTimestamp[c] \/ Forgotten(m)
  /\ log[m].stamp <= saved.agent[c] \/ log[m].command
  /\ run[c] # Null /\ run[c].phase # "task"
       => \/ log[m].stamp <= run[c].prev \/ Forgotten(m)
          \/ m \in run[c].batch /\ ~ Unspoken(run[c])

BoundsOK == crashes \in Nat

TurnInv ==
  /\ BoundsOK /\ LoopOK /\ \A c \in Chats : BatchOK(c)
  /\ \A m \in Counted, c \in Chats : AnsweredOK(m, c)

(***************************************************************************)
(* Greatest elements                                                       *)
(***************************************************************************)
HasMax(S) == \E m \in S : \A x \in S : x <= m

LEMMA FiniteHasMax ==
  ASSUME NEW S \in SUBSET Nat, IsFiniteSet(S), S # {}
  PROVE  HasMax(S)
<1> DEFINE T == {A \in SUBSET S : A # {} /\ ~ HasMax(A)}
<1>1. SUFFICES ASSUME T # {} PROVE FALSE
  BY <1>1
<1>2. T \subseteq FiniteSubsetsOf(S)
  BY FS_Subset DEF FiniteSubsetsOf
<1>3. PICK A \in T : \A B \in T : ~ (<<B, A>> \in StrictSubsetOrdering(S))
  BY <1>1, <1>2, FS_StrictSubsetOrderingWellFounded, WFMin, Zenon
<1>4. A \subseteq S /\ A \subseteq Nat /\ A # {} /\ ~ HasMax(A)
  BY <1>3
<1>5. PICK a \in A : TRUE
  BY <1>4
<1>6. A \ {a} # {}
  BY <1>4, <1>5 DEF HasMax
<1>7. HasMax(A \ {a})
  <2>1. <<A \ {a}, A>> \in StrictSubsetOrdering(S) /\ A \ {a} \in SUBSET S
    BY <1>4, <1>5 DEF StrictSubsetOrdering
  <2> QED BY <1>3, <1>6, <2>1
<1>8. PICK b \in A \ {a} : \A x \in A \ {a} : x <= b
  BY <1>7 DEF HasMax
<1>9. a <= b \/ b <= a
  BY <1>4
<1>10. CASE a <= b
  BY <1>4, <1>8, <1>10 DEF HasMax
<1>11. CASE b <= a
  <2>1. \A x \in A : x <= a
    BY <1>4, <1>8, <1>11
  <2> QED BY <1>4, <2>1 DEF HasMax
<1> QED BY <1>9, <1>10, <1>11

LEMMA MaxIs ==
  ASSUME NEW S \in SUBSET Nat, IsFiniteSet(S), S # {}
  PROVE  Max(S) \in S /\ Max(S) \in Nat /\ \A x \in S : x <= Max(S)
<1>1. \E m \in S : \A x \in S : m >= x
  BY FiniteHasMax DEF HasMax
<1>2. Max(S) \in S /\ \A x \in S : Max(S) >= x
  BY <1>1, Zenon DEF Max
<1> QED BY <1>2

Stamps(S) == {log[m].stamp : m \in S}

LEMMA IdsFinite ==
  ASSUME LogOK, NEW S \in SUBSET Ids
  PROVE  IsFiniteSet(S) /\ S \subseteq Nat
<1>1. Len(log) \in Nat
  BY DEF LogOK
<1>2. IsFiniteSet(Ids)
  <2>1. 1 \in Int /\ Len(log) \in Int
    BY <1>1
  <2> QED BY <2>1, FS_Interval, Zenon DEF Ids
<1>3. IsFiniteSet(S)
  BY <1>2, FS_Subset, Zenon
<1>4. Ids \subseteq Nat
  BY DEF Ids
<1> QED BY <1>3, <1>4

LEMMA MessageAt ==
  ASSUME LogOK, NEW m \in Ids
  PROVE  log[m] \in Message /\ log[m].stamp \in Nat /\ log[m].stamp > 0 /\ log[m].chat \in Chats
<1>1. log[m] \in Message
  BY DEF LogOK, Ids
<1> QED BY <1>1 DEF Message

LEMMA StampsFinite ==
  ASSUME LogOK, NEW S \in SUBSET Ids
  PROVE  IsFiniteSet(Stamps(S)) /\ Stamps(S) \in SUBSET Nat
<1> DEFINE f == [m \in S |-> log[m].stamp]
<1>1. f \in Surjection(S, Stamps(S))
  BY DEF Surjection, Stamps
<1>2. IsFiniteSet(Stamps(S))
  BY <1>1, IdsFinite, FS_Surjection
<1>3. Stamps(S) \subseteq Nat
  BY MessageAt DEF Stamps
<1> QED BY <1>2, <1>3

\* The last message of a batch is one of it, and none has a newer timestamp.
LEMMA LastIs ==
  ASSUME LogOK, NEW S \in SUBSET Ids, S # {}
  PROVE  Last(S) \in S /\ \A k \in S : log[k].stamp <= log[Last(S)].stamp
<1>1. PICK t \in Stamps(S) : \A x \in Stamps(S) : x <= t
  <2>1. Stamps(S) # {}
    BY DEF Stamps
  <2> QED BY <2>1, StampsFinite, FiniteHasMax DEF HasMax
<1> DEFINE A == {m \in S : log[m].stamp = t}
<1>2. PICK a \in A : \A x \in A : x <= a
  <2>1. A \in SUBSET Nat /\ IsFiniteSet(A)
    BY IdsFinite
  <2>2. A # {}
    BY <1>1 DEF Stamps
  <2> QED BY <2>1, <2>2, FiniteHasMax DEF HasMax
<1>3. \A k \in S : log[k].stamp \in Nat /\ log[k].stamp <= t
  BY <1>1, MessageAt DEF Stamps
<1>4. \A k \in S : log[k].stamp < log[a].stamp \/ (log[k].stamp = log[a].stamp /\ k <= a)
  BY <1>2, <1>3
<1>5. /\ Last(S) \in S
      /\ \A k \in S : \/ log[k].stamp < log[Last(S)].stamp
                      \/ log[k].stamp = log[Last(S)].stamp /\ k <= Last(S)
  BY <1>2, <1>4, Zenon DEF Last
<1>6. \A k \in S : log[k].stamp <= log[Last(S)].stamp
  BY <1>3, <1>5
<1> QED BY <1>5, <1>6

LEMMA NewestIs ==
  ASSUME LogOK
  PROVE  Newest \in Nat /\ \A m \in Ids : log[m].stamp <= Newest
<1>1. CASE log = << >>
  BY <1>1 DEF Newest, Ids
<1>2. CASE log # << >>
  <2>1. Newest = Max(Stamps(Ids))
    BY <1>2 DEF Newest, Stamps
  <2>2. Stamps(Ids) # {}
    <3>1. 1 \in Ids
      BY <1>2 DEF LogOK, Ids
    <3> QED BY <3>1 DEF Stamps
  <2>3. \A m \in Ids : log[m].stamp \in Stamps(Ids)
    BY DEF Stamps
  <2> QED BY <2>1, <2>2, <2>3, StampsFinite, MaxIs
<1> QED BY <1>1, <1>2

LEMMA SinceIds == ASSUME NEW c, NEW t PROVE MessagesSince(c, t) \in SUBSET Ids
  BY DEF MessagesSince

(***************************************************************************)
(* Types                                                                   *)
(***************************************************************************)
LEMMA NewRunIs ==
  ASSUME LogOK, NEW ph \in {"host", "agent", "failed", "task"}, NEW batch \in SUBSET Ids, NEW t \in Nat
  PROVE  NewRun(ph, batch, t) \in Run /\ NewRun(ph, batch, t) # Null
<1>1. Ids \subseteq 1 .. MaxMessages
  BY BoundsAssumption DEF LogOK, Ids
<1>2. NewRun(ph, batch, t) \in Run
  BY <1>1 DEF NewRun, Run
<1> QED BY <1>2, NullAssumption

\* A chat's run is replaced, all others stay.
LEMMA RunReplaced ==
  ASSUME TypeInv, NEW c \in Chats, NEW r \in {Null} \cup Run, run' = [run EXCEPT ![c] = r],
         log' = log, handed \subseteq handed', handed' \subseteq Ids, answered' \subseteq handed',
         r # Null => /\ r.batch \subseteq Ids
                     /\ IF r.phase = "host" THEN r.batch # {} ELSE r.batch \subseteq handed'
  PROVE  RunsOK' /\ run'[c] = r /\ \A d \in Chats \ {c} : run'[d] = run[d]
<1>1. /\ run' \in [Chats -> {Null} \cup Run] /\ run'[c] = r
      /\ \A d \in Chats \ {c} : run'[d] = run[d]
  BY DEF TypeInv, RunsOK
<1>2. Ids' = Ids
  BY DEF Ids
<1>3. ASSUME NEW d \in Chats PROVE BatchGiven(run[d])'
  <2>1. CASE d = c
    BY <1>1, <1>2, <2>1 DEF BatchGiven
  <2>2. CASE d # c
    BY <1>1, <1>2, <2>2 DEF BatchGiven, TypeInv, RunsOK
  <2> QED BY <2>1, <2>2
<1> QED BY <1>1, <1>2, <1>3 DEF RunsOK

LEMMA RunIs ==
  ASSUME TypeInv, NEW c \in Chats, run[c] # Null
  PROVE  run[c] \in Run /\ run[c].batch \in SUBSET Ids /\ run[c].prev \in Nat
         /\ IF run[c].phase = "host" THEN run[c].batch # {} ELSE run[c].batch \subseteq handed
<1>1. run[c] \in Run /\ BatchGiven(run[c])
  BY DEF TypeInv, RunsOK
<1> QED BY <1>1 DEF Run, BatchGiven

LEMMA CursorAt ==
  ASSUME TypeInv, NEW c \in Chats
  PROVE  lastAgentTimestamp[c] \in Nat /\ saved.agent[c] \in Nat /\ saved.agent \in [Chats -> Nat]
  BY DEF TypeInv, CursorsOK

LEMMA LaunchType ==
  ASSUME TypeInv, NEW c \in Chats, NEW batch \in SUBSET Ids, batch # {}, Launch(c, batch),
         UNCHANGED <<log, loop, answered>>
  PROVE  /\ CursorsOK' /\ RunsOK'
         /\ run'[c] = NewRun("agent", batch, lastAgentTimestamp[c])
         /\ \A d \in Chats \ {c} : run'[d] = run[d]
         /\ Last(batch) \in batch
         /\ lastAgentTimestamp'[c] = log[Last(batch)].stamp
         /\ \A d \in Chats \ {c} : lastAgentTimestamp'[d] = lastAgentTimestamp[d]
         /\ saved'.agent = lastAgentTimestamp'
<1>1. Last(batch) \in batch /\ log[Last(batch)].stamp \in Nat
  BY LastIs, MessageAt DEF TypeInv
<1>2. /\ lastAgentTimestamp' \in [Chats -> Nat]
      /\ lastAgentTimestamp'[c] = log[Last(batch)].stamp
      /\ \A d \in Chats \ {c} : lastAgentTimestamp'[d] = lastAgentTimestamp[d]
  BY <1>1 DEF Launch, TypeInv, CursorsOK
<1>3. saved' \in [last : Nat, agent : [Chats -> Nat]] /\ saved'.agent = lastAgentTimestamp'
  BY <1>2 DEF Launch, TypeInv, CursorsOK
<1>4. CursorsOK'
  BY <1>2, <1>3 DEF TypeInv, CursorsOK, loop, Ids
<1> DEFINE r == NewRun("agent", batch, lastAgentTimestamp[c])
<1>5. r \in Run /\ r # Null /\ r.batch = batch
  <2>1. r \in Run /\ r # Null
    BY NewRunIs, CursorAt DEF TypeInv
  <2> QED BY <2>1 DEF NewRun
<1>6. handed' = handed \cup batch /\ run' = [run EXCEPT ![c] = r]
  BY DEF Launch
<1>7. handed \subseteq handed' /\ handed' \subseteq Ids /\ answered' \subseteq handed' /\ log' = log
  BY <1>6 DEF TypeInv, RunsOK
<1> HIDE DEF r
<1>8. RunsOK' /\ run'[c] = r /\ \A d \in Chats \ {c} : run'[d] = run[d]
  BY <1>5, <1>6, <1>7, RunReplaced
<1> QED BY <1>1, <1>2, <1>3, <1>4, <1>8 DEF r

LEMMA RunsKept ==
  ASSUME TypeInv, UNCHANGED <<log, run, handed>>, answered' = answered
  PROVE  RunsOK'
<1>1. Ids' = Ids /\ handed' = handed /\ run' = run
  BY DEF Ids
<1>2. ASSUME NEW c \in Chats PROVE BatchGiven(run[c])'
  BY <1>1 DEF BatchGiven, TypeInv, RunsOK
<1> QED BY <1>1, <1>2 DEF TypeInv, RunsOK

LEMMA LogKept == ASSUME TypeInv, log' = log PROVE LogOK' /\ Ids' = Ids
  BY DEF TypeInv, LogOK, Ids

LEMMA CursorsKept == ASSUME TypeInv, UNCHANGED <<log, loop, cursor>> PROVE CursorsOK'
  BY LogKept DEF loop, cursor, TypeInv, CursorsOK

\* A chat's entries in the queue are replaced.
LEMMA QueueStep ==
  ASSUME TypeInv, NEW c \in Chats, NEW n \in 0 .. MaxErrors, NEW p \in BOOLEAN,
         NEW r \in 0 .. MaxRetries, NEW t \in Nat,
         consecutiveErrors' \in {consecutiveErrors, [consecutiveErrors EXCEPT ![c] = n]},
         pendingMessages' \in {pendingMessages, [pendingMessages EXCEPT ![c] = p]},
         retryCount' \in {retryCount, [retryCount EXCEPT ![c] = r]},
         retryTimers' \in {retryTimers, [retryTimers EXCEPT ![c] = t]}
  PROVE  QueueOK'
<1>1. consecutiveErrors' \in [Chats -> 0 .. MaxErrors] /\ retryCount' \in [Chats -> 0 .. MaxRetries]
  BY DEF TypeInv, QueueOK
<1>2. retryTimers' \in [Chats -> Nat]
  BY DEF TypeInv, QueueOK
<1>3. pendingMessages' \in [Chats -> BOOLEAN]
  BY DEF TypeInv, QueueOK
<1> QED BY <1>1, <1>2, <1>3, Zenon DEF QueueOK

LEMMA Zeros == 0 \in Nat /\ 0 \in 0 .. MaxErrors /\ 0 \in 0 .. MaxRetries
  BY BoundsAssumption

LEMMA ProcessType == ASSUME TypeInv, NEW c \in Chats, ProcessGroupMessages(c) PROVE TypeInv'
<1> DEFINE missed == MessagesSince(c, lastAgentTimestamp[c])
<1>1. UNCHANGED <<log, loop, consecutiveErrors, retryTimers, answered>> /\ log' = log
  BY DEF ProcessGroupMessages
<1>2. QueueOK'
  <2>1. /\ pendingMessages' = [pendingMessages EXCEPT ![c] = FALSE]
        /\ retryCount' \in {retryCount, [retryCount EXCEPT ![c] = 0]}
    BY DEF ProcessGroupMessages
  <2> QED BY <1>1, <2>1, QueueStep, Zeros
<1>3. missed \in SUBSET Ids
  BY SinceIds
<1> HIDE DEF missed
<1>4. ASSUME run' = [run EXCEPT ![c] = NewRun("host", missed, lastAgentTimestamp[c])],
             UNCHANGED <<cursor, handed>>, missed # {}
      PROVE  CursorsOK' /\ RunsOK'
  <2> DEFINE r == NewRun("host", missed, lastAgentTimestamp[c])
  <2>1. r \in Run /\ r # Null /\ r.batch = missed /\ r.phase = "host"
    <3>1. r \in Run /\ r # Null
      BY <1>3, NewRunIs, CursorAt DEF TypeInv
    <3> QED BY <3>1 DEF NewRun
  <2>2. handed' = handed /\ handed' \subseteq Ids /\ answered' \subseteq handed'
    BY <1>1, <1>4 DEF TypeInv, RunsOK
  <2>3. run' = [run EXCEPT ![c] = r]
    BY <1>4
  <2> HIDE DEF r
  <2>4. RunsOK'
    BY <1>1, <1>3, <1>4, <2>1, <2>2, <2>3, RunReplaced
  <2> QED BY <1>1, <1>4, <2>4, CursorsKept
<1>5. \/ UNCHANGED <<cursor, run, handed>>
      \/ /\ run' = [run EXCEPT ![c] = NewRun("host", missed, lastAgentTimestamp[c])]
         /\ UNCHANGED <<cursor, handed>> /\ missed # {}
      \/ missed # {} /\ Launch(c, missed)
  BY Zenon DEF ProcessGroupMessages, Engages, missed
<1>6. CursorsOK' /\ RunsOK'
  <2>1. CASE UNCHANGED <<cursor, run, handed>>
    BY <1>1, <2>1, RunsKept, CursorsKept
  <2>2. CASE missed # {} /\ Launch(c, missed)
    BY <1>1, <1>3, <2>2, LaunchType
  <2> QED BY <1>4, <1>5, <2>1, <2>2
<1> QED BY <1>1, <1>2, <1>6, LogKept DEF TypeInv

LEMMA HostDoneType == ASSUME TypeInv, NEW c \in Chats, HostDone(c) PROVE TypeInv'
<1> DEFINE batch == run[c].batch
<1>1. /\ UNCHANGED <<log, loop, consecutiveErrors, pendingMessages, retryTimers>> /\ log' = log
      /\ run[c] # Null
  BY DEF HostDone, InPhase
<1>2. batch \in SUBSET Ids /\ batch # {}
  BY <1>1, RunIs DEF HostDone, InPhase
<1> HIDE DEF batch
<1>3. ASSUME ForHost(batch), run' = [run EXCEPT ![c] = Null], UNCHANGED saved,
             lastAgentTimestamp' = [lastAgentTimestamp EXCEPT ![c] = log[Last(batch)].stamp],
             handed' = handed \cup batch, answered' = answered \cup batch
      PROVE  CursorsOK' /\ RunsOK'
  <2>2. log[Last(batch)].stamp \in Nat
    BY <1>2, LastIs, MessageAt DEF TypeInv
  <2>3. CursorsOK'
    BY <1>1, <1>3, <2>2, LogKept DEF TypeInv, CursorsOK, loop
  <2>4. handed \subseteq handed' /\ handed' \subseteq Ids /\ answered' \subseteq handed'
    BY <1>2, <1>3 DEF TypeInv, RunsOK
  <2>5. RunsOK'
    BY <1>1, <1>3, <2>4, RunReplaced
  <2> QED BY <2>3, <2>5
<1>4. \/ /\ ForHost(batch) /\ run' = [run EXCEPT ![c] = Null] /\ UNCHANGED saved
         /\ lastAgentTimestamp' = [lastAgentTimestamp EXCEPT ![c] = log[Last(batch)].stamp]
         /\ handed' = handed \cup batch /\ answered' = answered \cup batch
         /\ retryCount' = [retryCount EXCEPT ![c] = 0]
      \/ Launch(c, batch) /\ UNCHANGED <<retryCount, answered>>
  BY Zenon DEF HostDone, batch
<1>5. CursorsOK' /\ RunsOK'
  <2>1. CASE Launch(c, batch) /\ UNCHANGED <<retryCount, answered>>
    BY <1>1, <1>2, <2>1, LaunchType
  <2> QED BY <1>3, <1>4, <2>1
<1>6. QueueOK'
  <2>1. retryCount' \in {retryCount, [retryCount EXCEPT ![c] = 0]}
    BY <1>4
  <2> QED BY <1>1, <2>1, QueueStep, Zeros
<1> QED BY <1>1, <1>5, <1>6, LogKept DEF TypeInv

\* What a step writes of a run that is there.
LEMMA RunFields ==
  ASSUME NEW r \in Run
  PROVE  /\ [r EXCEPT !.up = TRUE] \in Run /\ [r EXCEPT !.out = "sending"] \in Run
         /\ [r EXCEPT !.out = "idle", !.sent = TRUE] \in Run
         /\ [r EXCEPT !.out = "broken"] \in Run
         /\ [r EXCEPT !.phase = "failed"] \in Run
         /\ \A S \in SUBSET (1 .. MaxMessages) : [r EXCEPT !.batch = @ \cup S] \in Run
  BY DEF Run

LEMMA ContainerUpType == ASSUME TypeInv, NEW c \in Chats, ContainerUp(c) PROVE TypeInv'
<1> DEFINE r == [run[c] EXCEPT !.up = TRUE]
<1>1. run[c] # Null /\ run[c] \in Run /\ run[c].phase # "host"
  BY RunIs DEF ContainerUp, InPhase
<1>2. r \in Run /\ r.batch = run[c].batch /\ r.phase = run[c].phase
  BY <1>1, RunFields DEF Run
<1>3. run' = [run EXCEPT ![c] = r] /\ UNCHANGED <<log, loop, cursor, consecutiveErrors, queue, handed, answered>>
  BY DEF ContainerUp, history
<1> HIDE DEF r
<1>4. RunsOK'
  <2>1. log' = log /\ handed' = handed /\ handed' \subseteq Ids /\ answered' \subseteq handed'
    BY <1>3 DEF TypeInv, RunsOK
  <2> QED BY <1>1, <1>2, <1>3, <2>1, RunIs, RunReplaced
<1> QED BY <1>3, <1>4, LogKept, CursorsKept DEF TypeInv, QueueOK, queue

LEMMA OutputType == ASSUME TypeInv, NEW c \in Chats, Output(c) PROVE TypeInv'
<1> DEFINE r == [run[c] EXCEPT !.out = "sending"]
<1>1. run[c] # Null /\ run[c] \in Run /\ run[c].phase # "host"
  BY RunIs DEF Output, InPhase
<1>2. r \in Run /\ r.batch = run[c].batch /\ r.phase = run[c].phase
  BY <1>1, RunFields DEF Run
<1>3. /\ run' = [run EXCEPT ![c] = r] /\ answered' = answered \cup run[c].batch
      /\ UNCHANGED <<log, loop, cursor, consecutiveErrors, queue, handed>>
  BY DEF Output
<1> HIDE DEF r
<1>4. RunsOK'
  <2>1. log' = log /\ handed' = handed /\ handed' \subseteq Ids /\ answered' \subseteq handed'
    BY <1>1, <1>3, RunIs DEF TypeInv, RunsOK
  <2> QED BY <1>1, <1>2, <1>3, <2>1, RunIs, RunReplaced
<1> QED BY <1>3, <1>4, LogKept, CursorsKept DEF TypeInv, QueueOK, queue

LEMMA SentType == ASSUME TypeInv, NEW c \in Chats, NEW ok \in BOOLEAN, Sent(c, ok) PROVE TypeInv'
<1>1. run[c] # Null /\ run[c] \in Run /\ run[c].phase # "host"
  BY RunIs DEF Sent, InPhase
<1>2. PICK r \in Run : /\ r.batch = run[c].batch /\ r.phase = run[c].phase
                       /\ run' = [run EXCEPT ![c] = r]
  <2> DEFINE x == [run[c] EXCEPT !.out = "idle", !.sent = TRUE]
             y == [run[c] EXCEPT !.out = "broken"]
  <2>1. x \in Run /\ x.batch = run[c].batch /\ x.phase = run[c].phase
    BY <1>1, RunFields DEF Run
  <2>2. y \in Run /\ y.batch = run[c].batch /\ y.phase = run[c].phase
    BY <1>1, RunFields DEF Run
  <2>3. run' = [run EXCEPT ![c] = x] \/ run' = [run EXCEPT ![c] = y]
    BY DEF Sent
  <2> QED BY <2>1, <2>2, <2>3
<1>3. UNCHANGED <<log, loop, cursor, consecutiveErrors, queue, handed, answered>>
  BY DEF Sent, history
<1>4. RunsOK'
  <2>1. log' = log /\ handed' = handed /\ handed' \subseteq Ids /\ answered' \subseteq handed'
    BY <1>3 DEF TypeInv, RunsOK
  <2> QED BY <1>1, <1>2, <1>3, <2>1, RunIs, RunReplaced
<1> QED BY <1>3, <1>4, LogKept, CursorsKept DEF TypeInv, QueueOK, queue

\* A run that ends, whatever it leaves.
LEMMA RunEnds ==
  ASSUME TypeInv, NEW c \in Chats, run' = [run EXCEPT ![c] = Null], UNCHANGED <<log, handed>>,
         answered' \subseteq handed
  PROVE  RunsOK'
<1>1. handed' = handed /\ log' = log /\ handed' \subseteq Ids /\ answered' \subseteq handed'
  BY DEF TypeInv, RunsOK
<1> QED BY <1>1, RunReplaced

LEMMA EndWellType == ASSUME TypeInv, NEW c \in Chats, NEW ok \in BOOLEAN, EndWell(c, ok) PROVE TypeInv'
<1>1. run[c] # Null /\ run[c].phase # "host"
  BY DEF EndWell, InPhase
<1>2. UNCHANGED <<log, loop, cursor, pendingMessages, retryTimers, handed>>
  BY DEF EndWell
<1>3. RunsOK'
  <2>1. answered' = answered \cup run[c].batch \/ answered' = answered
    BY Zenon DEF EndWell
  <2>2. answered' \subseteq handed
    BY <1>1, <2>1, RunIs DEF TypeInv, RunsOK
  <2> QED BY <1>2, <2>2, RunEnds DEF EndWell
<1>4. QueueOK'
  <2>1. /\ consecutiveErrors' = [consecutiveErrors EXCEPT ![c] = 0]
        /\ retryCount' = [retryCount EXCEPT ![c] = 0]
    BY DEF EndWell
  <2> QED BY <1>2, <2>1, QueueStep, Zeros
<1> QED BY <1>2, <1>3, <1>4, LogKept, CursorsKept DEF TypeInv

LEMMA RollBackIs ==
  ASSUME TypeInv, NEW c \in Chats, run[c] # Null, RollBack(c), UNCHANGED <<log, loop>>
  PROVE  /\ CursorsOK' /\ lastAgentTimestamp'[c] = run[c].prev
         /\ \A d \in Chats \ {c} : lastAgentTimestamp'[d] = lastAgentTimestamp[d]
         /\ saved'.agent = lastAgentTimestamp'
<1>1. lastAgentTimestamp' \in [Chats -> Nat] /\ saved'.agent = lastAgentTimestamp'
  BY RunIs DEF RollBack, TypeInv, CursorsOK
<1>2. saved' \in [last : Nat, agent : [Chats -> Nat]]
  BY <1>1 DEF RollBack, TypeInv, CursorsOK
<1> QED BY <1>1, <1>2, LogKept DEF RollBack, TypeInv, CursorsOK, loop

LEMMA FinishFailedType ==
  ASSUME TypeInv, NEW c \in Chats, run[c] # Null, NEW count \in Nat, FinishFailed(c, count)
  PROVE  TypeInv'
<1>1. UNCHANGED <<log, loop, pendingMessages, handed, answered>> /\ run' = [run EXCEPT ![c] = Null]
  BY DEF FinishFailed, history
<1>2. RunsOK'
  BY <1>1, RunEnds DEF TypeInv, RunsOK
<1>3. CursorsOK'
  BY <1>1, RollBackIs, CursorsKept DEF FinishFailed
<1>4. QueueOK'
  <2>1. \E n \in 0 .. MaxErrors : consecutiveErrors' = [consecutiveErrors EXCEPT ![c] = n]
    BY Zeros, BoundsAssumption DEF FinishFailed
  <2>2. retryCount[c] \in 0 .. MaxRetries /\ retryTimers[c] + 1 \in Nat
    BY DEF TypeInv, QueueOK
  <2>3. \E n \in 0 .. MaxRetries : retryCount' = [retryCount EXCEPT ![c] = n]
    BY <2>2, BoundsAssumption DEF FinishFailed, ScheduleRetry
  <2>4. retryTimers' \in {retryTimers, [retryTimers EXCEPT ![c] = retryTimers[c] + 1]}
    BY DEF FinishFailed, ScheduleRetry
  <2> QED BY <1>1, <2>1, <2>2, <2>3, <2>4, QueueStep
<1> QED BY <1>1, <1>2, <1>3, <1>4, LogKept DEF TypeInv

\* The first failure: the user is being told.
LEMMA ToldType ==
  ASSUME TypeInv, NEW c \in Chats, run[c] # Null, run[c].phase # "host",
         consecutiveErrors' = [consecutiveErrors EXCEPT ![c] = 1],
         run' = [run EXCEPT ![c].phase = "failed"],
         UNCHANGED <<log, loop, cursor, queue, handed, answered>>
  PROVE  TypeInv'
<1> DEFINE r == [run[c] EXCEPT !.phase = "failed"]
<1>1. run[c] \in Run
  BY RunIs
<1>2. r \in Run /\ r.batch = run[c].batch /\ r.phase = "failed"
  BY <1>1, RunFields DEF Run
<1>3. run' = [run EXCEPT ![c] = r]
  OBVIOUS
<1> HIDE DEF r
<1>4. RunsOK'
  <2>1. log' = log /\ handed' = handed /\ handed' \subseteq Ids /\ answered' \subseteq handed'
    BY DEF TypeInv, RunsOK
  <2> QED BY <1>2, <1>3, <2>1, RunIs, RunReplaced
<1>5. QueueOK'
  <2>1. 1 \in 0 .. MaxErrors
    BY BoundsAssumption
  <2> QED BY <2>1, QueueStep, Zeros DEF queue
<1> QED BY <1>4, <1>5, LogKept, CursorsKept DEF TypeInv

LEMMA FailType == ASSUME TypeInv, NEW c \in Chats, Fail(c) \/ AfterFailure(c) PROVE TypeInv'
<1>1. consecutiveErrors[c] \in Nat /\ consecutiveErrors[c] + 1 \in Nat
  BY DEF TypeInv, QueueOK
<1>2. run[c] # Null
  BY DEF Fail, AfterFailure, InPhase
<1>3. CASE FinishFailed(c, consecutiveErrors[c]) \/ FinishFailed(c, consecutiveErrors[c] + 1)
  BY <1>1, <1>2, <1>3, FinishFailedType
<1>4. CASE ~ (FinishFailed(c, consecutiveErrors[c]) \/ FinishFailed(c, consecutiveErrors[c] + 1))
  <2>1. Fail(c) /\ consecutiveErrors[c] + 1 = 1 /\ run[c].phase # "host"
    BY <1>4, Zenon DEF Fail, AfterFailure, InPhase
  <2>2. /\ consecutiveErrors' = [consecutiveErrors EXCEPT ![c] = consecutiveErrors[c] + 1]
        /\ run' = [run EXCEPT ![c].phase = "failed"]
        /\ UNCHANGED <<log, loop, cursor, queue, handed, answered>>
    BY <1>4, <2>1, Zenon DEF Fail, history
  <2> QED BY <1>2, <2>1, <2>2, ToldType
<1> QED BY <1>3, <1>4

LEMMA TaskStartsType == ASSUME TypeInv, NEW c \in Chats, TaskStarts(c) PROVE TypeInv'
<1> DEFINE r == NewRun("task", {}, 0)
<1>1. r \in Run /\ r # Null /\ r.batch = {} /\ r.phase = "task"
  <2>1. r \in Run /\ r # Null
    BY NewRunIs DEF TypeInv
  <2> QED BY <2>1 DEF NewRun
<1>2. run' = [run EXCEPT ![c] = r] /\ UNCHANGED <<log, loop, cursor, consecutiveErrors, queue, handed, answered>>
  BY DEF TaskStarts, history
<1> HIDE DEF r
<1>3. RunsOK'
  <2>1. log' = log /\ handed' = handed /\ handed' \subseteq Ids /\ answered' \subseteq handed'
    BY <1>2 DEF TypeInv, RunsOK
  <2> QED BY <1>1, <1>2, <2>1, RunReplaced
<1> QED BY <1>2, <1>3, LogKept, CursorsKept DEF TypeInv, QueueOK, queue

LEMMA TaskEndsType == ASSUME TypeInv, NEW c \in Chats, TaskEnds(c) PROVE TypeInv'
<1>1. run' = [run EXCEPT ![c] = Null] /\ UNCHANGED <<log, loop, cursor, consecutiveErrors, queue, handed, answered>>
  BY DEF TaskEnds, history
<1>2. RunsOK'
  BY <1>1, RunEnds DEF TypeInv, RunsOK
<1> QED BY <1>1, <1>2, LogKept, CursorsKept DEF TypeInv, QueueOK, queue

LEMMA RetryFiresType == ASSUME TypeInv, NEW c \in Chats, RetryFires(c) PROVE TypeInv'
<1>1. UNCHANGED <<log, loop, cursor, consecutiveErrors, run, retryCount, handed, answered>>
  BY DEF RetryFires, history
<1>2. QueueOK'
  <2>1. retryTimers[c] - 1 \in Nat
    BY DEF RetryFires, TypeInv, QueueOK
  <2>2. /\ retryTimers' = [retryTimers EXCEPT ![c] = retryTimers[c] - 1]
        /\ pendingMessages' = [pendingMessages EXCEPT ![c] = TRUE]
    BY DEF RetryFires
  <2> QED BY <1>1, <2>1, <2>2, QueueStep, Zeros
<1> QED BY <1>1, <1>2, LogKept, CursorsKept, RunsKept DEF TypeInv

LEMMA TurnType == ASSUME TypeInv, NEW c \in Chats, Turn(c) PROVE TypeInv'
  BY ProcessType, HostDoneType, ContainerUpType, OutputType, SentType, EndWellType, FailType, RetryFiresType,
     TaskStartsType, TaskEndsType, Zenon DEF Turn, SlotMoves

\* What the loop wants to give is something.
LEMMA ToSendIs ==
  ASSUME TypeInv, NEW c \in Chats, Wanted(c)
  PROVE  /\ NewIn(c) \in SUBSET Ids /\ NewIn(c) # {}
         /\ ToSend(c) \in SUBSET Ids /\ ToSend(c) # {}
         /\ Last(ToSend(c)) \in ToSend(c) /\ log[Last(ToSend(c))].stamp \in Nat
         /\ \A m \in ToSend(c) : log[m].stamp <= log[Last(ToSend(c))].stamp
<1>1. NewIn(c) \in SUBSET Ids /\ NewIn(c) # {}
  BY DEF Wanted, Engages, NewIn, NewMessages, RawMessages
<1>2. ToSend(c) = IF MessagesSince(c, lastAgentTimestamp[c]) # {}
                  THEN MessagesSince(c, lastAgentTimestamp[c]) ELSE NewIn(c)
  BY DEF ToSend
<1>3. ToSend(c) \in SUBSET Ids /\ ToSend(c) # {}
  BY <1>1, <1>2, SinceIds
<1> QED BY <1>1, <1>3, LastIs, MessageAt DEF TypeInv

LEMMA MaxOfTwo ==
  ASSUME NEW a \in Nat, NEW b \in Nat
  PROVE  Max({a, b}) \in Nat
<1>1. \E m \in {a, b} : \A x \in {a, b} : m >= x
  OBVIOUS
<1>2. Max({a, b}) \in {a, b}
  BY <1>1, Zenon DEF Max
<1> QED BY <1>2

\* The loop's cursor moves to the newest message it has seen, and those at it
\* are remembered.
LEMMA RememberIs ==
  ASSUME TypeInv, RememberIds, log' = log
  PROVE  /\ lastTimestamp' \in Nat /\ processedIdsTimestamp' \in Nat /\ processedIds' \in SUBSET Ids
         /\ lastTimestamp' >= lastTimestamp
         /\ \A m \in RawMessages : log[m].stamp <= lastTimestamp'
         /\ MaxIds >= MaxMessages => RawMessages \subseteq processedIds'
<1> DEFINE K == {lastTimestamp} \cup {log[m].stamp : m \in RawMessages}
           ids == IF Max(K) > processedIdsTimestamp THEN RawMessages ELSE processedIds \cup RawMessages
<1>1. RawMessages \in SUBSET Ids
  BY DEF RawMessages
<1>2. K = Stamps(RawMessages) \cup {lastTimestamp}
  BY DEF Stamps
<1>3. K \in SUBSET Nat /\ IsFiniteSet(K) /\ K # {}
  <2>1. IsFiniteSet(Stamps(RawMessages)) /\ Stamps(RawMessages) \in SUBSET Nat
    BY <1>1, StampsFinite DEF TypeInv
  <2>2. \A S, x : IsFiniteSet(S) => IsFiniteSet(S \cup {x})
    BY FS_AddElement
  <2> QED BY <1>2, <2>1, <2>2 DEF TypeInv, CursorsOK
<1>4. Max(K) \in Nat /\ \A x \in K : x <= Max(K)
  BY <1>3, MaxIs
<1>5. /\ lastTimestamp' = Max(K)
      /\ processedIdsTimestamp' = Max({Max(K), processedIdsTimestamp})
      /\ processedIds' = IF Cardinality(ids) > MaxIds THEN {} ELSE ids
  BY Zenon DEF RememberIds
<1>6. ids \in SUBSET Ids /\ RawMessages \subseteq ids
  BY <1>1 DEF TypeInv, CursorsOK
<1>7. lastTimestamp \in K /\ \A m \in RawMessages : log[m].stamp \in K
  OBVIOUS
<1> HIDE DEF K, ids
<1>8. processedIdsTimestamp' \in Nat
  BY <1>4, <1>5, MaxOfTwo DEF TypeInv, CursorsOK
<1>9. processedIds' \in SUBSET Ids
  BY <1>5, <1>6
<1>10. ASSUME MaxIds >= MaxMessages PROVE RawMessages \subseteq processedIds'
  <2>1. Len(log) \in Nat /\ Len(log) <= MaxMessages
    BY DEF TypeInv, LogOK
  <2>2. IsFiniteSet(Ids) /\ Cardinality(Ids) <= MaxMessages
    <3>1. 1 \in Int /\ Len(log) \in Int
      BY <2>1
    <3>2. IsFiniteSet(Ids) /\ Cardinality(Ids) = IF 1 > Len(log) THEN 0 ELSE Len(log) - 1 + 1
      BY <3>1, FS_Interval, Zenon DEF Ids
    <3> QED BY <2>1, <3>2, BoundsAssumption
  <2>3. IsFiniteSet(ids) /\ Cardinality(ids) <= Cardinality(Ids)
    BY <1>6, <2>2, FS_Subset
  <2>4. Cardinality(ids) \in Nat /\ Cardinality(Ids) \in Nat
    BY <2>2, <2>3, FS_CardinalityType
  <2>5. ~ (Cardinality(ids) > MaxIds)
    BY <1>10, <2>2, <2>3, <2>4, BoundsAssumption
  <2> QED BY <1>5, <1>6, <2>5
<1> QED BY <1>4, <1>5, <1>7, <1>8, <1>9, <1>10

Piped == {c \in Chats : Wanted(c) /\ Up(c)}

\* A round of the loop, chat by chat.
LEMMA LoopIs ==
  ASSUME TypeInv, MessageLoop, NewMessages # {} \/ ~ UNCHANGED <<loop, cursor, run, pendingMessages, handed>>
  PROVE  /\ RememberIds /\ log' = log /\ woken' = FALSE
         /\ saved' = [last |-> lastTimestamp', agent |-> lastAgentTimestamp']
         /\ handed' = handed \cup UNION {ToSend(c) : c \in Piped}
         /\ run' = [c \in Chats |->
              IF c \in Piped THEN [run[c] EXCEPT !.batch = @ \cup ToSend(c)] ELSE run[c]]
         /\ lastAgentTimestamp' = [c \in Chats |->
              IF c \in Piped THEN log[Last(ToSend(c))].stamp ELSE lastAgentTimestamp[c]]
         /\ pendingMessages' \in [Chats -> BOOLEAN]
         /\ UNCHANGED <<log, consecutiveErrors, retryCount, retryTimers, bounds, answered>>
<1>1. CASE UNCHANGED <<loop, cursor, run, pendingMessages, handed>> /\ NewMessages = {}
  BY <1>1
<1>2. CASE ~ (UNCHANGED <<loop, cursor, run, pendingMessages, handed>> /\ NewMessages = {})
  <2>1. pendingMessages' = [c \in Chats |-> pendingMessages[c] \/ (Wanted(c) /\ ~Up(c))]
    BY <1>2, Zenon DEF MessageLoop
  <2>2. \A c \in Chats : (pendingMessages[c] \/ (Wanted(c) /\ ~Up(c))) \in BOOLEAN
    OBVIOUS
  <2>3. pendingMessages' \in [Chats -> BOOLEAN]
    BY <2>1, <2>2
  <2> QED BY <1>2, <2>3, Zenon DEF MessageLoop, Piped
<1> QED BY <1>1, <1>2

LEMMA LoopType == ASSUME TypeInv, MessageLoop PROVE TypeInv'
<1>0. UNCHANGED <<log, consecutiveErrors, retryCount, retryTimers, answered>> /\ log' = log
  BY DEF MessageLoop
<1>1. CASE UNCHANGED <<loop, cursor, run, pendingMessages, handed>>
  BY <1>0, <1>1, LogKept, CursorsKept, RunsKept DEF TypeInv, QueueOK
<1>2. CASE ~ UNCHANGED <<loop, cursor, run, pendingMessages, handed>>
  <2>1. /\ lastTimestamp' \in Nat /\ processedIdsTimestamp' \in Nat /\ processedIds' \in SUBSET Ids
    BY <1>2, LoopIs, RememberIs
  <2>2. lastAgentTimestamp' \in [Chats -> Nat]
    <3>1. \A c \in Chats : (IF c \in Piped THEN log[Last(ToSend(c))].stamp ELSE lastAgentTimestamp[c]) \in Nat
      BY ToSendIs, CursorAt DEF Piped
    <3> QED BY <1>2, <3>1, LoopIs
  <2>3. CursorsOK'
    <3>1. saved' \in [last : Nat, agent : [Chats -> Nat]]
      BY <1>2, <2>1, <2>2, LoopIs
    <3> QED BY <1>0, <2>1, <2>2, <3>1, LogKept DEF CursorsOK
  <2>4. handed \subseteq handed' /\ handed' \subseteq Ids /\ \A c \in Piped : ToSend(c) \subseteq handed'
    <3>1. handed' = handed \cup UNION {ToSend(c) : c \in Piped}
      BY <1>2, LoopIs
    <3>2. \A c \in Piped : ToSend(c) \in SUBSET Ids
      BY ToSendIs DEF Piped
    <3> QED BY <3>1, <3>2 DEF TypeInv, RunsOK
  <2>5. ASSUME NEW c \in Chats PROVE run'[c] \in {Null} \cup Run /\ BatchGiven(run[c])'
    <3>0. run[c] \in {Null} \cup Run /\ BatchGiven(run[c])
      BY DEF TypeInv, RunsOK
    <3>1. CASE c \in Piped
      <4>1. run'[c] = [run[c] EXCEPT !.batch = @ \cup ToSend(c)]
        BY <1>2, <3>1, LoopIs
      <4>2. run[c] \in Run /\ run[c].batch \in SUBSET Ids
        BY <3>1, RunIs DEF Piped, Up
      <4>3. ToSend(c) \in SUBSET Ids /\ ToSend(c) \in SUBSET (1 .. MaxMessages) /\ ToSend(c) # {}
        <5>1. Ids \subseteq 1 .. MaxMessages
          BY BoundsAssumption DEF TypeInv, LogOK, Ids
        <5> QED BY <3>1, <5>1, ToSendIs DEF Piped
      <4>4. run'[c] \in Run
        BY <4>1, <4>2, <4>3, RunFields
      <4>5. run'[c].batch = run[c].batch \cup ToSend(c) /\ run'[c].phase = run[c].phase
        BY <4>1, <4>2 DEF Run
      <4>6. run[c] # Null /\ ToSend(c) \subseteq handed'
        BY <2>4, <3>1 DEF Piped, Up
      <4> QED BY <1>0, <2>4, <3>0, <4>2, <4>3, <4>4, <4>5, <4>6, LogKept DEF BatchGiven
    <3>2. CASE c \notin Piped
      <4>1. run'[c] = run[c]
        BY <1>2, <3>2, LoopIs
      <4> QED BY <1>0, <2>4, <3>0, <4>1, LogKept DEF BatchGiven
    <3> QED BY <3>1, <3>2
  <2>6. RunsOK'
    <3>1. run' \in [Chats -> {Null} \cup Run]
      BY <1>2, <2>5, LoopIs
    <3> QED BY <1>0, <2>4, <2>5, <3>1, LogKept DEF RunsOK, TypeInv
  <2>7. QueueOK'
    <3>1. pendingMessages' \in [Chats -> BOOLEAN]
      BY <1>2, LoopIs
    <3> QED BY <1>0, <3>1 DEF TypeInv, QueueOK
  <2> QED BY <1>0, <2>3, <2>6, <2>7, LogKept DEF TypeInv
<1> QED BY <1>1, <1>2

\* A message is stored behind the others.
LEMMA StoreIs ==
  ASSUME TypeInv, NEW c \in Chats, NEW what \in Contents, NEW d \in StampSteps, StoreMessage(c, what, d)
  PROVE  /\ LogOK' /\ Ids' = Ids \cup {Len(log) + 1} /\ Len(log) + 1 \notin Ids
         /\ \A m \in Ids : log'[m] = log[m]
         /\ log'[Len(log) + 1].chat = c /\ log'[Len(log) + 1].stamp = Newest + d
<1> DEFINE r == [chat |-> c, stamp |-> Newest + d, trigger |-> what.trigger,
                 command |-> what.command, admitted |-> what.admitted]
<1>1. Newest + d \in Nat \ {0}
  BY NewestIs, StampsAssumption DEF StoreMessage, TypeInv
<1>2. {what.trigger, what.command, what.admitted} \subseteq BOOLEAN
  BY ContentsAssumption
<1>3. r \in Message
  BY <1>1, <1>2, Zenon DEF Message
<1>4. r.chat = c /\ r.stamp = Newest + d
  OBVIOUS
<1>5. log' = Append(log, r)
  BY DEF StoreMessage
<1> HIDE DEF r
<1>6. log \in Seq(Message) /\ Len(log) \in Nat /\ Len(log) < MaxMessages
  BY DEF StoreMessage, TypeInv, LogOK
<1>7. /\ log' \in Seq(Message) /\ Len(log') = Len(log) + 1 /\ log'[Len(log) + 1] = r
      /\ \A m \in 1 .. Len(log) : log'[m] = log[m]
  BY <1>3, <1>5, <1>6
<1> QED BY <1>4, <1>6, <1>7, BoundsAssumption DEF LogOK, Ids

LEMMA StoreType ==
  ASSUME TypeInv, NEW c \in Chats, NEW what \in Contents, NEW d \in StampSteps, StoreMessage(c, what, d)
  PROVE  TypeInv'
<1>1. LogOK' /\ Ids \subseteq Ids'
  BY StoreIs
<1>2. UNCHANGED <<loop, cursor, consecutiveErrors, run, queue, handed, answered>>
  BY DEF StoreMessage, history
<1>3. CursorsOK' /\ QueueOK'
  BY <1>1, <1>2 DEF TypeInv, CursorsOK, QueueOK, loop, cursor, queue
<1>4. RunsOK'
  <2>1. ASSUME NEW e \in Chats PROVE BatchGiven(run[e])'
    BY <1>1, <1>2 DEF BatchGiven, TypeInv, RunsOK
  <2> QED BY <1>1, <1>2, <2>1 DEF TypeInv, RunsOK
<1> QED BY <1>1, <1>3, <1>4 DEF TypeInv

LEMMA CrashType == ASSUME TypeInv, Crash PROVE TypeInv'
<1>1. log' = log /\ saved' = saved /\ handed' = handed /\ answered' = answered
  BY DEF Crash, history
<1>2. CursorsOK'
  BY <1>1, LogKept DEF Crash, TypeInv, CursorsOK
<1>3. QueueOK'
  <2>1. /\ consecutiveErrors' \in [Chats -> 0 .. MaxErrors]
        /\ retryTimers' \in [Chats -> Nat] /\ retryCount' \in [Chats -> 0 .. MaxRetries]
    BY Zeros DEF Crash
  <2>2. pendingMessages' \in [Chats -> BOOLEAN]
    <3>1. pendingMessages' = [c \in Chats |-> MessagesSince(c, saved.agent[c]) # {}]
      BY DEF Crash
    <3>2. \A c \in Chats : (MessagesSince(c, saved.agent[c]) # {}) \in BOOLEAN
      OBVIOUS
    <3> QED BY <3>1, <3>2
  <2> QED BY <2>1, <2>2, Zenon DEF QueueOK
<1>4. RunsOK'
  BY <1>1, LogKept DEF Crash, TypeInv, RunsOK, BatchGiven
<1> QED BY <1>1, <1>2, <1>3, <1>4, LogKept DEF TypeInv

LEMMA NextType == ASSUME TypeInv, [Next]_vars PROVE TypeInv'
<1>1. CASE UNCHANGED vars
  <2>1. UNCHANGED <<log, loop, cursor, consecutiveErrors, run, queue, handed, answered>>
    BY <1>1 DEF vars, history
  <2> QED BY <2>1, LogKept, CursorsKept, RunsKept DEF TypeInv, QueueOK, queue
<1> QED BY <1>1, StoreType, LoopType, TurnType, CrashType, Zenon DEF Next

LEMMA InitType == ASSUME Init PROVE TypeInv
<1>1. LogOK
  BY BoundsAssumption DEF Init, LogOK
<1>2. CursorsOK
  BY DEF Init, CursorsOK
<1>3. QueueOK
  <2>1. /\ consecutiveErrors \in [Chats -> 0 .. MaxErrors]
        /\ retryTimers \in [Chats -> Nat] /\ retryCount \in [Chats -> 0 .. MaxRetries]
    BY Zeros DEF Init
  <2>2. pendingMessages \in [Chats -> BOOLEAN]
    BY DEF Init
  <2> QED BY <2>1, <2>2, Zenon DEF QueueOK
<1>4. RunsOK
  BY DEF Init, RunsOK, BatchGiven
<1> QED BY <1>1, <1>2, <1>3, <1>4 DEF TypeInv

LEMMA Typed == Spec => []TypeInv
<1>1. Init => TypeInv
  BY InitType
<1>2. TypeInv /\ [Next]_vars => TypeInv'
  BY NextType
<1> QED BY <1>1, <1>2, PTL DEF Spec

(***************************************************************************)
(* No cursor passes a message that was given to nobody                     *)
(***************************************************************************)
LEMMA BehindGrows ==
  ASSUME TypeInv, log' = log, handed \subseteq handed', NEW c \in Chats
  PROVE  Behind(c) \subseteq Behind(c)'
<1> SUFFICES ASSUME NEW t \in Behind(c) PROVE t \in Behind(c)'
  OBVIOUS
<1>1. Ids' = Ids
  BY DEF Ids
<1>2. t \in Nat /\ Reached(t) /\ \A m \in Ids : log[m].chat = c /\ log[m].stamp <= t => m \in handed
  BY DEF Behind
<1>3. Reached(t)'
  BY <1>1, <1>2 DEF Reached
<1> QED BY <1>1, <1>2, <1>3 DEF Behind

LEMMA ZeroBehind == ASSUME TypeInv, NEW c \in Chats PROVE 0 \in Behind(c)
<1>1. \A m \in Ids : ~ (log[m].stamp <= 0)
  BY MessageAt DEF TypeInv
<1> QED BY <1>1 DEF Behind, Reached

\* The cursor moves to the last message of a batch that leaves none out.
LEMMA CoveredBehind ==
  ASSUME TypeInv, NEW c \in Chats, NEW t \in Behind(c), NEW batch, Covers(c, batch, t),
         log' = log, handed \cup batch \subseteq handed'
  PROVE  log[Last(batch)].stamp \in Behind(c)'
<1>1. batch \in SUBSET Ids /\ batch # {}
  BY DEF Covers, MessagesSince
<1>2. Last(batch) \in batch /\ log[Last(batch)].stamp \in Nat
  BY <1>1, LastIs, MessageAt DEF TypeInv
<1>3. ASSUME NEW m \in Ids, log[m].chat = c, log[m].stamp <= log[Last(batch)].stamp PROVE m \in handed'
  <2>1. CASE log[m].stamp <= t
    BY <1>3, <2>1 DEF Behind
  <2>2. CASE ~ (log[m].stamp <= t)
    <3>1. m \in MessagesSince(c, t)
      BY <1>3, <2>2, MessageAt DEF TypeInv, MessagesSince, Behind
    <3>2. CASE m \in batch
      BY <3>2
    <3>3. CASE m \notin batch
      <4>1. log[Last(batch)].stamp < log[m].stamp
        BY <1>2, <3>1, <3>3 DEF Covers
      <4> QED BY <1>2, <1>3, <4>1, MessageAt DEF TypeInv
    <3> QED BY <3>2, <3>3
  <2> QED BY <2>1, <2>2
<1>4. PICK u \in Nat : u = log[Last(batch)].stamp
  BY <1>2
<1>5. Ids' = Ids
  BY DEF Ids
<1>6. Reached(u)'
  <2>1. Last(batch) \in Ids /\ u <= log[Last(batch)].stamp
    BY <1>1, <1>2, <1>4
  <2>2. \E m \in Ids : u <= log[m].stamp
    BY <2>1
  <2> QED BY <1>5, <2>2 DEF Reached
<1>7. u \in Behind(c)'
  BY <1>3, <1>4, <1>5, <1>6 DEF Behind
<1> QED BY <1>4, <1>7

\* What a step may do to a run.
RunStep(c) ==
  \/ run'[c] = Null
  \/ run'[c] = run[c] /\ lastAgentTimestamp'[c] = lastAgentTimestamp[c]
  \/ /\ run'[c].prev \in Behind(c)
     /\ run'[c].phase = "host" =>
          /\ run'[c].prev = lastAgentTimestamp'[c] /\ ~ run'[c].up
          /\ Covers(c, run'[c].batch, run'[c].prev)

LEMMA PassStep ==
  ASSUME TypeInv, PassInv, log' = log, handed \subseteq handed',
         \A c \in Chats : lastAgentTimestamp'[c] \in Behind(c)',
         \A c \in Chats : saved'.agent[c] \in Behind(c)',
         \A c \in Chats : RunStep(c)
  PROVE  PassInv'
<1> SUFFICES ASSUME NEW c \in Chats
             PROVE  (run'[c] # Null => run'[c].prev \in Behind(c)') /\ HostOK(c)'
  BY DEF PassInv
<1>1. Behind(c) \subseteq Behind(c)'
  BY BehindGrows
<1>2. Ids' = Ids
  BY DEF Ids
<1>3. CASE run'[c] = Null
  BY <1>3 DEF HostOK, InPhase
<1>4. CASE run'[c] = run[c] /\ lastAgentTimestamp'[c] = lastAgentTimestamp[c]
  <2>1. HostOK(c) /\ (run[c] # Null => run[c].prev \in Behind(c))
    BY DEF PassInv
  <2>2. HostOK(c)'
    BY <1>2, <1>4, <2>1 DEF HostOK, InPhase, Covers, MessagesSince
  <2> QED BY <1>1, <1>4, <2>1, <2>2
<1>5. CASE /\ run'[c].prev \in Behind(c)
           /\ run'[c].phase = "host" =>
                /\ run'[c].prev = lastAgentTimestamp'[c] /\ ~ run'[c].up
                /\ Covers(c, run'[c].batch, run'[c].prev)
  <2>1. HostOK(c)'
    BY <1>2, <1>5 DEF HostOK, InPhase, Covers, MessagesSince
  <2> QED BY <1>1, <1>5, <2>1
<1> QED BY <1>3, <1>4, <1>5 DEF RunStep

\* Steps that leave both cursors alone.
LEMMA PassKept ==
  ASSUME TypeInv, PassInv, UNCHANGED cursor, log' = log, handed \subseteq handed',
         \A c \in Chats : RunStep(c)
  PROVE  PassInv'
<1>1. \A c \in Chats : lastAgentTimestamp'[c] \in Behind(c)'
  BY BehindGrows DEF PassInv, cursor
<1>2. \A c \in Chats : saved'.agent[c] \in Behind(c)'
  BY BehindGrows DEF PassInv, cursor
<1> QED BY <1>1, <1>2, PassStep

LEMMA LaunchPass ==
  ASSUME TypeInv, PassInv, NEW c \in Chats, NEW batch, Covers(c, batch, lastAgentTimestamp[c]),
         Launch(c, batch), UNCHANGED <<log, loop, answered>>
  PROVE  PassInv'
<1>1. batch \in SUBSET Ids /\ batch # {}
  BY DEF Covers, MessagesSince
<1>2. /\ run'[c] = NewRun("agent", batch, lastAgentTimestamp[c])
      /\ \A d \in Chats \ {c} : run'[d] = run[d]
      /\ lastAgentTimestamp'[c] = log[Last(batch)].stamp
      /\ \A d \in Chats \ {c} : lastAgentTimestamp'[d] = lastAgentTimestamp[d]
      /\ saved'.agent = lastAgentTimestamp'
  BY <1>1, LaunchType
<1>3. log' = log /\ handed \cup batch \subseteq handed'
  BY DEF Launch
<1>4. lastAgentTimestamp[c] \in Behind(c)
  BY DEF PassInv
<1>5. ASSUME NEW d \in Chats PROVE lastAgentTimestamp'[d] \in Behind(d)'
  <2>1. CASE d = c
    <3>1. log[Last(batch)].stamp \in Behind(c)'
      BY <1>3, <1>4, CoveredBehind
    <3> QED BY <1>2, <2>1, <3>1
  <2>2. CASE d # c
    BY <1>2, <1>3, <2>2, BehindGrows DEF PassInv
  <2> QED BY <2>1, <2>2
<1>6. ASSUME NEW d \in Chats PROVE RunStep(d)
  <2>1. CASE d = c
    BY <1>2, <1>4, <2>1 DEF RunStep, NewRun
  <2>2. CASE d # c
    BY <1>2, <2>2 DEF RunStep
  <2> QED BY <2>1, <2>2
<1> QED BY <1>2, <1>3, <1>5, <1>6, PassStep

LEMMA AllCovered ==
  ASSUME NEW c, NEW t, MessagesSince(c, t) # {} PROVE Covers(c, MessagesSince(c, t), t)
  BY DEF Covers

LEMMA ProcessPass == ASSUME TypeInv, PassInv, NEW c \in Chats, ProcessGroupMessages(c) PROVE PassInv'
<1> DEFINE missed == MessagesSince(c, lastAgentTimestamp[c])
<1>1. UNCHANGED <<log, loop, answered>> /\ log' = log
  BY DEF ProcessGroupMessages
<1>2. missed # {} => Covers(c, missed, lastAgentTimestamp[c])
  BY AllCovered
<1> HIDE DEF missed
<1>3. \/ UNCHANGED <<cursor, run, handed>>
      \/ /\ run' = [run EXCEPT ![c] = NewRun("host", missed, lastAgentTimestamp[c])]
         /\ UNCHANGED <<cursor, handed>> /\ missed # {}
      \/ missed # {} /\ Launch(c, missed)
  BY Zenon DEF ProcessGroupMessages, Engages, missed
<1>4. CASE UNCHANGED <<cursor, run, handed>>
  BY <1>1, <1>4, PassKept DEF RunStep, cursor
<1>5. CASE /\ run' = [run EXCEPT ![c] = NewRun("host", missed, lastAgentTimestamp[c])]
           /\ UNCHANGED <<cursor, handed>> /\ missed # {}
  <2>1. ASSUME NEW d \in Chats PROVE RunStep(d)
    <3>1. CASE d = c
      <4>1. run'[c] = NewRun("host", missed, lastAgentTimestamp[c])
        BY <1>5 DEF TypeInv, RunsOK
      <4>2. lastAgentTimestamp[c] \in Behind(c) /\ lastAgentTimestamp' = lastAgentTimestamp
        BY <1>5 DEF PassInv, cursor
      <4> QED BY <1>2, <1>5, <3>1, <4>1, <4>2 DEF RunStep, NewRun
    <3>2. CASE d # c
      BY <1>5, <3>2 DEF RunStep, TypeInv, RunsOK, cursor
    <3> QED BY <3>1, <3>2
  <2> QED BY <1>1, <1>5, <2>1, PassKept
<1>6. CASE missed # {} /\ Launch(c, missed)
  BY <1>1, <1>2, <1>6, LaunchPass
<1> QED BY <1>3, <1>4, <1>5, <1>6

LEMMA HostDonePass == ASSUME TypeInv, PassInv, NEW c \in Chats, HostDone(c) PROVE PassInv'
<1> DEFINE batch == run[c].batch
<1>1. /\ UNCHANGED <<log, loop>> /\ log' = log /\ InPhase(c, "host") /\ run[c] # Null
  BY DEF HostDone, InPhase
<1>2. Covers(c, batch, lastAgentTimestamp[c]) /\ lastAgentTimestamp[c] \in Behind(c)
  BY <1>1 DEF PassInv, HostOK
<1>3. batch \in SUBSET Ids
  BY <1>1, RunIs
<1> HIDE DEF batch
<1>4. \/ /\ run' = [run EXCEPT ![c] = Null] /\ UNCHANGED saved
         /\ lastAgentTimestamp' = [lastAgentTimestamp EXCEPT ![c] = log[Last(batch)].stamp]
         /\ handed' = handed \cup batch
      \/ Launch(c, batch) /\ UNCHANGED answered
  BY Zenon DEF HostDone, batch
<1>5. CASE /\ run' = [run EXCEPT ![c] = Null] /\ UNCHANGED saved
           /\ lastAgentTimestamp' = [lastAgentTimestamp EXCEPT ![c] = log[Last(batch)].stamp]
           /\ handed' = handed \cup batch
  <2>1. log[Last(batch)].stamp \in Behind(c)'
    BY <1>1, <1>2, <1>5, CoveredBehind
  <2>2. /\ lastAgentTimestamp'[c] = log[Last(batch)].stamp
        /\ \A d \in Chats \ {c} : lastAgentTimestamp'[d] = lastAgentTimestamp[d]
    BY <1>5 DEF TypeInv, CursorsOK
  <2>3. \A d \in Chats : Behind(d) \subseteq Behind(d)'
    BY <1>1, <1>5, BehindGrows
  <2>4. \A d \in Chats : lastAgentTimestamp'[d] \in Behind(d)' /\ saved'.agent[d] \in Behind(d)'
    BY <1>5, <2>1, <2>2, <2>3 DEF PassInv
  <2>5. \A d \in Chats : RunStep(d)
    BY <1>5, <2>2 DEF RunStep, TypeInv, RunsOK
  <2> QED BY <1>1, <1>5, <2>4, <2>5, PassStep
<1>6. CASE Launch(c, batch) /\ UNCHANGED answered
  BY <1>1, <1>2, <1>6, LaunchPass
<1> QED BY <1>4, <1>5, <1>6

\* A run that goes on or ends with the cursors where they are.
LEMMA RunGoesOn ==
  ASSUME TypeInv, PassInv, NEW c \in Chats, NEW r, run' = [run EXCEPT ![c] = r],
         UNCHANGED cursor, log' = log, handed' = handed,
         r = Null \/ (run[c] # Null /\ r.prev = run[c].prev /\ r.phase # "host") \/ (r.prev = 0 /\ r.phase # "host")
  PROVE  PassInv'
<1>1. run'[c] = r /\ \A d \in Chats \ {c} : run'[d] = run[d]
  BY DEF TypeInv, RunsOK
<1>2. r = Null \/ (r.prev \in Behind(c) /\ r.phase # "host")
  BY ZeroBehind DEF PassInv
<1>3. \A d \in Chats : RunStep(d)
  BY <1>1, <1>2 DEF RunStep, cursor
<1> QED BY <1>3, PassKept

LEMMA FinishFailedPass ==
  ASSUME TypeInv, PassInv, NEW c \in Chats, run[c] # Null, NEW count, FinishFailed(c, count)
  PROVE  PassInv'
<1>1. /\ log' = log /\ handed' = handed /\ run' = [run EXCEPT ![c] = Null]
      /\ UNCHANGED <<log, loop>> /\ (UNCHANGED cursor \/ RollBack(c))
  BY DEF FinishFailed, history
<1>2. CASE UNCHANGED cursor
  BY <1>1, <1>2, RunGoesOn
<1>3. CASE RollBack(c)
  <2>1. /\ lastAgentTimestamp'[c] = run[c].prev /\ saved'.agent = lastAgentTimestamp'
        /\ \A d \in Chats \ {c} : lastAgentTimestamp'[d] = lastAgentTimestamp[d]
    BY <1>1, <1>3, RollBackIs
  <2>2. \A d \in Chats : Behind(d) \subseteq Behind(d)'
    BY <1>1, BehindGrows
  <2>3. \A d \in Chats : lastAgentTimestamp'[d] \in Behind(d)'
    BY <2>1, <2>2 DEF PassInv
  <2>4. \A d \in Chats : RunStep(d)
    BY <1>1, <2>1 DEF RunStep, TypeInv, RunsOK
  <2> QED BY <1>1, <2>1, <2>3, <2>4, PassStep
<1> QED BY <1>1, <1>2, <1>3

\* What the steps of a container make of its run; what it was given counts as
\* answered when it ends, or has output, and no longer when it fails with the
\* output not through.
RunLike(c, r) ==
  \/ /\ r = Null
     /\ \/ Counted' \subseteq Counted
        \/ run[c] # Null /\ run[c].phase # "host" /\ Counted' \subseteq Counted \cup run[c].batch
  \/ r = run[c] /\ Counted' \subseteq Counted
  \/ /\ run[c] # Null /\ run[c].phase # "host" /\ r.phase # "host"
     /\ r.batch = run[c].batch /\ r.prev = run[c].prev
     /\ run[c].phase = "task" => r.phase = "task"
     /\ r.up => run[c].up \/ ~ woken
     /\ \A m \in Counted' :
          \/ m \in Counted /\ (m \in run[c].batch /\ Unspoken(r) => Unspoken(run[c]))
          \/ m \in run[c].batch /\ ~ Unspoken(r)
  \/ run[c] = Null /\ r = NewRun("task", {}, 0) /\ Counted' \subseteq Counted

LEMMA CountedKept ==
  ASSUME UNCHANGED <<answered, disowned>> PROVE Counted' = Counted
  BY DEF Counted

\* What of a failed turn was answered no longer counts, unless its run was silent.
LEMMA FailTakesBack ==
  ASSUME NEW c \in Chats, Fail(c), answered' = answered
  PROVE  \A m \in Counted' : m \in Counted /\ (m \in run[c].batch => Unspoken(run[c]))
<1>1. /\ ~ run[c].sent
      /\ disowned' = IF run[c].out = "idle" THEN disowned
                     ELSE disowned \cup (run[c].batch \cap answered)
  BY DEF Fail
<1>2. CASE run[c].out = "idle"
  BY <1>1, <1>2 DEF Counted, Unspoken
<1>3. CASE run[c].out # "idle"
  BY <1>1, <1>3 DEF Counted
<1> QED BY <1>2, <1>3

\* What the steps of a container do to its run.
LEMMA RunChanges ==
  ASSUME TypeInv, NEW c \in Chats,
         ContainerUp(c) \/ Output(c) \/ (\E ok \in BOOLEAN : Sent(c, ok) \/ EndWell(c, ok))
           \/ TaskEnds(c) \/ TaskStarts(c) \/ RetryFires(c) \/ (Fail(c) /\ ~ FinishFailed(c, consecutiveErrors[c] + 1))
  PROVE  /\ UNCHANGED <<log, loop, cursor, handed>>
         /\ woken' = woken /\ crashes' = crashes
         /\ \E r : run' = [run EXCEPT ![c] = r] /\ RunLike(c, r)
<1>1. CASE ContainerUp(c)
  <2>1. run[c] # Null /\ run[c] \in Run /\ run[c].phase \in {"agent", "task"} /\ ~ woken
    BY <1>1, RunIs DEF ContainerUp, InPhase
  <2> DEFINE r == [run[c] EXCEPT !.up = TRUE]
  <2>2. /\ r.phase = run[c].phase /\ r.batch = run[c].batch /\ r.prev = run[c].prev
        /\ r.sent = run[c].sent /\ r.out = run[c].out
    BY <2>1 DEF Run
  <2>3. /\ run' = [run EXCEPT ![c] = r] /\ UNCHANGED <<log, loop, cursor, handed, woken>>
        /\ Counted' = Counted /\ crashes' = crashes /\ woken' = woken
    BY <1>1, CountedKept DEF ContainerUp, history, bounds
  <2> HIDE DEF r
  <2>4. RunLike(c, r)
    BY <2>1, <2>2, <2>3 DEF RunLike, Unspoken
  <2> QED BY <2>3, <2>4
<1>2. CASE Output(c)
  <2>1. run[c] # Null /\ run[c] \in Run /\ run[c].phase \in {"agent", "task"}
    BY <1>2, RunIs DEF Output, InPhase
  <2> DEFINE r == [run[c] EXCEPT !.out = "sending"]
  <2>2. /\ r.phase = run[c].phase /\ r.batch = run[c].batch /\ r.prev = run[c].prev
        /\ r.up = run[c].up /\ r.out = "sending"
    BY <2>1 DEF Run
  <2>3. /\ run' = [run EXCEPT ![c] = r] /\ UNCHANGED <<log, loop, cursor, handed, woken>>
        /\ Counted' \subseteq Counted \cup run[c].batch /\ crashes' = crashes /\ woken' = woken
    BY <1>2 DEF Output, Counted, bounds
  <2> HIDE DEF r
  <2>4. ~ Unspoken(r)
    BY <2>1, <2>2 DEF Unspoken
  <2>5. RunLike(c, r)
    BY <2>1, <2>2, <2>3, <2>4 DEF RunLike
  <2> QED BY <2>3, <2>5
<1>3. ASSUME NEW ok \in BOOLEAN, Sent(c, ok)
      PROVE  /\ UNCHANGED <<log, loop, cursor, handed>> /\ woken' = woken /\ crashes' = crashes
             /\ \E r : run' = [run EXCEPT ![c] = r] /\ RunLike(c, r)
  <2>1. /\ run[c] # Null /\ run[c] \in Run /\ run[c].phase \in {"agent", "task"}
        /\ run[c].out = "sending"
    BY <1>3, RunIs DEF Sent, InPhase
  <2>2. PICK r : /\ run' = [run EXCEPT ![c] = r]
                 /\ r.phase = run[c].phase /\ r.batch = run[c].batch /\ r.prev = run[c].prev
                 /\ r.up = run[c].up /\ (r.sent \/ r.out = "broken")
    <3> DEFINE x == [run[c] EXCEPT !.out = "idle", !.sent = TRUE]
               y == [run[c] EXCEPT !.out = "broken"]
    <3>1. /\ x.phase = run[c].phase /\ x.batch = run[c].batch /\ x.prev = run[c].prev
          /\ x.up = run[c].up /\ x.sent
      BY <2>1 DEF Run
    <3>2. /\ y.phase = run[c].phase /\ y.batch = run[c].batch /\ y.prev = run[c].prev
          /\ y.up = run[c].up /\ y.out = "broken"
      BY <2>1 DEF Run
    <3>3. run' = [run EXCEPT ![c] = x] \/ run' = [run EXCEPT ![c] = y]
      BY <1>3 DEF Sent
    <3> QED BY <3>1, <3>2, <3>3
  <2>3. /\ UNCHANGED <<log, loop, cursor, handed>> /\ woken' = woken /\ crashes' = crashes
        /\ Counted' = Counted
    BY <1>3, CountedKept DEF Sent, history, bounds
  <2>4. ~ Unspoken(r)
    BY <2>1, <2>2 DEF Unspoken
  <2>5. RunLike(c, r)
    BY <2>1, <2>2, <2>3, <2>4 DEF RunLike
  <2> QED BY <2>2, <2>3, <2>5
<1>4. CASE (\E ok \in BOOLEAN : EndWell(c, ok)) \/ TaskEnds(c)
  <2>1. /\ run' = [run EXCEPT ![c] = Null] /\ UNCHANGED <<log, loop, cursor, handed, woken>>
        /\ crashes' = crashes /\ woken' = woken /\ run[c] # Null /\ run[c].phase # "host"
        /\ disowned' = disowned /\ (answered' = answered \/ answered' = answered \cup run[c].batch)
    BY <1>4 DEF EndWell, TaskEnds, history, bounds, InPhase
  <2>2. Counted' \subseteq Counted \cup run[c].batch
    BY <2>1 DEF Counted
  <2>3. RunLike(c, Null)
    BY <2>1, <2>2, Zenon DEF RunLike
  <2> QED BY <2>1, <2>3
<1>5. CASE TaskStarts(c)
  <2>1. Counted' = Counted
    BY <1>5, CountedKept DEF TaskStarts, history
  <2> QED BY <1>5, <2>1 DEF TaskStarts, history, RunLike
<1>6. CASE RetryFires(c)
  <2>1. run' = run /\ run = [run EXCEPT ![c] = run[c]]
    BY <1>6 DEF RetryFires, TypeInv, RunsOK
  <2>2. /\ UNCHANGED <<log, loop, cursor, handed>> /\ woken' = woken /\ crashes' = crashes
        /\ Counted' = Counted
    BY <1>6, CountedKept DEF RetryFires, history, bounds
  <2>3. RunLike(c, run[c])
    BY <2>2 DEF RunLike
  <2> QED BY <2>1, <2>2, <2>3
<1>7. CASE Fail(c) /\ ~ FinishFailed(c, consecutiveErrors[c] + 1)
  <2>1. run[c] # Null /\ run[c] \in Run /\ run[c].phase = "agent"
    BY <1>7, RunIs DEF Fail, InPhase
  <2>2. /\ run' = [run EXCEPT ![c].phase = "failed"]
        /\ UNCHANGED <<log, loop, cursor, woken, bounds, handed, answered>>
    BY <1>7, Zenon DEF Fail
  <2> DEFINE r == [run[c] EXCEPT !.phase = "failed"]
  <2>3. /\ r.phase = "failed" /\ r.batch = run[c].batch /\ r.prev = run[c].prev
        /\ r.up = run[c].up
    BY <2>1 DEF Run
  <2>4. run' = [run EXCEPT ![c] = r]
    BY <2>2
  <2> HIDE DEF r
  <2>5. \A m \in Counted' : m \in Counted /\ (m \in run[c].batch => Unspoken(run[c]))
    BY <1>7, <2>2, FailTakesBack
  <2>6. RunLike(c, r)
    BY <2>1, <2>2, <2>3, <2>5 DEF RunLike
  <2> QED BY <2>2, <2>4, <2>6 DEF bounds
<1> QED BY <1>1, <1>2, <1>3, <1>4, <1>5, <1>6, <1>7, Zenon

LEMMA ContainerPass ==
  ASSUME TypeInv, PassInv, NEW c \in Chats,
         ContainerUp(c) \/ Output(c) \/ (\E ok \in BOOLEAN : Sent(c, ok) \/ EndWell(c, ok))
           \/ TaskEnds(c) \/ TaskStarts(c) \/ RetryFires(c) \/ (Fail(c) /\ ~ FinishFailed(c, consecutiveErrors[c] + 1))
  PROVE  PassInv'
<1>1. UNCHANGED <<log, loop, cursor, handed>> /\ log' = log /\ handed' = handed
  BY RunChanges
<1>2. PICK r : /\ run' = [run EXCEPT ![c] = r]
               /\ \/ r = Null
                  \/ r = run[c]
                  \/ run[c] # Null /\ r.phase # "host" /\ r.prev = run[c].prev
                  \/ r = NewRun("task", {}, 0)
  <2>1. PICK r : run' = [run EXCEPT ![c] = r] /\ RunLike(c, r)
    BY RunChanges
  <2> QED BY <2>1 DEF RunLike
<1>3. CASE r = run[c]
  <2>1. \A d \in Chats : RunStep(d)
    BY <1>1, <1>2, <1>3 DEF RunStep, TypeInv, RunsOK, cursor
  <2> QED BY <1>1, <2>1, PassKept
<1>4. CASE r # run[c]
  <2>1. r = Null \/ (run[c] # Null /\ r.prev = run[c].prev /\ r.phase # "host") \/ (r.prev = 0 /\ r.phase # "host")
    BY <1>2, <1>4 DEF NewRun
  <2> QED BY <1>1, <1>2, <2>1, RunGoesOn
<1> QED BY <1>3, <1>4

LEMMA TurnPass == ASSUME TypeInv, PassInv, NEW c \in Chats, Turn(c) PROVE PassInv'
<1>1. CASE FinishFailed(c, consecutiveErrors[c] + 1) /\ Fail(c)
  BY <1>1, FinishFailedPass DEF Fail, InPhase
<1>2. CASE AfterFailure(c)
  BY <1>2, FinishFailedPass DEF AfterFailure, InPhase
<1> QED BY <1>1, <1>2, ProcessPass, HostDonePass, ContainerPass, Zenon DEF Turn, SlotMoves

LEMMA LoopPass == ASSUME TypeInv, PassInv, MessageLoop PROVE PassInv'
<1>0. log' = log
  BY DEF MessageLoop
<1>1. CASE UNCHANGED <<loop, cursor, run, pendingMessages, handed>>
  <2>1. \A c \in Chats : RunStep(c)
    BY <1>1 DEF RunStep, cursor
  <2> QED BY <1>0, <1>1, <2>1, PassKept
<1>2. CASE ~ UNCHANGED <<loop, cursor, run, pendingMessages, handed>>
  <2>1. handed' = handed \cup UNION {ToSend(c) : c \in Piped}
    BY <1>2, LoopIs
  <2>2. \A c \in Chats : Behind(c) \subseteq Behind(c)'
    BY <1>0, <2>1, BehindGrows
  <2>3. ASSUME NEW c \in Piped
        PROVE  /\ lastAgentTimestamp'[c] \in Behind(c)' /\ run'[c].prev = run[c].prev
               /\ run'[c].phase # "host" /\ run[c] # Null
    <3>1. c \in Chats /\ Wanted(c) /\ run[c] # Null /\ run[c].up
      BY DEF Piped, Up
    <3>2. lastAgentTimestamp'[c] = log[Last(ToSend(c))].stamp
      BY <1>2, <3>1, LoopIs
    <3>3. run'[c] = [run[c] EXCEPT !.batch = @ \cup ToSend(c)] /\ run[c] \in Run
      BY <1>2, <3>1, LoopIs, RunIs
    <3>4. run'[c].prev = run[c].prev /\ run'[c].phase # "host"
      BY <3>1, <3>3 DEF Run, PassInv, HostOK, InPhase
    <3>5. handed \cup ToSend(c) \subseteq handed'
      BY <2>1
    <3>6. lastAgentTimestamp[c] \in Behind(c)
      BY <3>1 DEF PassInv
    <3> DEFINE pending == MessagesSince(c, lastAgentTimestamp[c])
    <3>7. CASE pending # {}
      <4>1. ToSend(c) = pending /\ Covers(c, pending, lastAgentTimestamp[c])
        BY <3>7, AllCovered DEF ToSend
      <4>2. log[Last(ToSend(c))].stamp \in Behind(c)'
        BY <1>0, <3>1, <3>5, <3>6, <4>1, CoveredBehind
      <4> QED BY <3>1, <3>2, <3>4, <4>2
    <3>8. CASE pending = {}
      <4>1. \A m \in Ids : log[m].chat = c => m \in handed
        <5>1. \A m \in Ids : log[m].chat = c => log[m].stamp <= lastAgentTimestamp[c]
          BY <3>1, <3>8, MessageAt, CursorAt DEF MessagesSince, TypeInv
        <5> QED BY <3>6, <5>1 DEF Behind
      <4>2. Last(ToSend(c)) \in Ids /\ log[Last(ToSend(c))].stamp \in Nat
        BY <3>1, ToSendIs
      <4>3. PICK u \in Nat : u = log[Last(ToSend(c))].stamp
        BY <4>2
      <4>4. \E m \in Ids : u <= log[m].stamp
        BY <4>2, <4>3
      <4>5. u \in Behind(c)
        BY <4>1, <4>4 DEF Behind, Reached
      <4> QED BY <2>2, <3>1, <3>2, <3>4, <4>3, <4>5
    <3> QED BY <3>7, <3>8
  <2>4. ASSUME NEW c \in Chats, c \notin Piped
        PROVE  lastAgentTimestamp'[c] = lastAgentTimestamp[c] /\ run'[c] = run[c]
    BY <1>2, <2>4, LoopIs
  <2>5. \A c \in Chats : lastAgentTimestamp'[c] \in Behind(c)'
    BY <2>2, <2>3, <2>4 DEF PassInv
  <2>6. \A c \in Chats : RunStep(c)
    BY <2>3, <2>4 DEF RunStep, PassInv, Piped
  <2>7. saved'.agent = lastAgentTimestamp' /\ handed \subseteq handed'
    BY <1>2, <2>1, LoopIs
  <2> QED BY <1>0, <2>5, <2>6, <2>7, PassStep
<1> QED BY <1>1, <1>2

LEMMA CrashPass == ASSUME TypeInv, PassInv, Crash PROVE PassInv'
<1>1. log' = log /\ saved' = saved /\ handed' = handed /\ lastAgentTimestamp' = saved.agent
      /\ run' = [c \in Chats |-> Null]
  BY DEF Crash, history
<1>2. \A c \in Chats : saved.agent[c] \in Behind(c)'
  BY <1>1, BehindGrows DEF PassInv
<1>3. \A c \in Chats : RunStep(c)
  BY <1>1 DEF RunStep
<1> QED BY <1>1, <1>2, <1>3, PassStep

\* A message stored later is past every cursor.
LEMMA StorePass ==
  ASSUME Later, TypeInv, PassInv, NEW c \in Chats, NEW what \in Contents, NEW d \in StampSteps,
         StoreMessage(c, what, d)
  PROVE  PassInv'
<1> DEFINE n == Len(log) + 1
<1>1. /\ Ids' = Ids \cup {n} /\ n \notin Ids /\ \A m \in Ids : log'[m] = log[m]
      /\ log'[n].stamp = Newest + d
  BY StoreIs
<1>2. UNCHANGED <<cursor, run, handed>>
  BY DEF StoreMessage, history
<1>3. /\ log'[n].stamp \in Nat /\ log'[n].stamp > 0
      /\ \A m \in Ids : log[m].stamp \in Nat /\ log[m].stamp < log'[n].stamp
  <2>1. d \in Int /\ d > 0
    BY StampsAssumption DEF Later
  <2>2. Newest \in Nat /\ \A m \in Ids : log[m].stamp <= Newest
    BY NewestIs DEF TypeInv
  <2> QED BY <1>1, <2>1, <2>2, MessageAt DEF TypeInv
<1> HIDE DEF n
<1>4. ASSUME NEW e \in Chats PROVE Behind(e) \subseteq Behind(e)'
  <2> SUFFICES ASSUME NEW t \in Behind(e) PROVE t \in Behind(e)'
    OBVIOUS
  <2>1. t \in Nat /\ Reached(t)
    BY DEF Behind
  <2>2. t < log'[n].stamp
    BY <1>3, <2>1 DEF Reached
  <2>3. Reached(t)'
    BY <1>1, <2>1 DEF Reached
  <2>4. ASSUME NEW m \in Ids', log'[m].chat = e, log'[m].stamp <= t PROVE m \in handed'
    <3>1. m # n
      BY <1>3, <2>1, <2>2, <2>4
    <3> QED BY <1>1, <1>2, <2>4, <3>1 DEF Behind
  <2> QED BY <2>1, <2>3, <2>4 DEF Behind
<1>5. ASSUME NEW e \in Chats, HostOK(e) PROVE HostOK(e)'
  <2> SUFFICES ASSUME InPhase(e, "host") PROVE Covers(e, run[e].batch, run[e].prev)'
    BY <1>2, <1>5 DEF HostOK, InPhase, cursor
  <2> DEFINE batch == run[e].batch
             t == run[e].prev
  <2>1. Covers(e, batch, t) /\ run' = run
    BY <1>2, <1>5 DEF HostOK
  <2>2. batch # {} /\ batch \subseteq MessagesSince(e, t)'
    BY <1>1, <1>2, <2>1 DEF Covers, MessagesSince
  <2>3. ASSUME NEW m \in MessagesSince(e, t)', m \notin batch, NEW b \in batch
        PROVE  log'[b].stamp < log'[m].stamp
    <3>1. b \in Ids /\ log'[b] = log[b]
      BY <1>1, <2>1 DEF Covers, MessagesSince
    <3>2. CASE m = n
      BY <1>3, <3>1, <3>2
    <3>3. CASE m # n
      <4>1. m \in MessagesSince(e, t) /\ log'[m] = log[m]
        BY <1>1, <2>1, <2>3, <3>3 DEF MessagesSince
      <4> QED BY <2>1, <2>3, <3>1, <4>1 DEF Covers
    <3> QED BY <3>2, <3>3
  <2> QED BY <2>1, <2>2, <2>3 DEF Covers
<1>6. /\ \A e \in Chats : lastAgentTimestamp'[e] \in Behind(e)' /\ saved'.agent[e] \in Behind(e)'
      /\ \A e \in Chats : run'[e] # Null => run'[e].prev \in Behind(e)'
  BY <1>2, <1>4 DEF PassInv, cursor
<1> QED BY <1>5, <1>6 DEF PassInv

LEMMA NextPass == ASSUME Later, TypeInv, PassInv, [Next]_vars PROVE PassInv'
<1>1. CASE UNCHANGED vars
  <2>1. UNCHANGED <<log, cursor, run, handed>> /\ log' = log
    BY <1>1 DEF vars, history
  <2>2. \A c \in Chats : RunStep(c)
    BY <2>1 DEF RunStep, cursor
  <2> QED BY <2>1, <2>2, PassKept
<1> QED BY <1>1, StorePass, LoopPass, TurnPass, CrashPass, Zenon DEF Next

LEMMA InitPass == ASSUME Init PROVE PassInv
<1>1. \A c \in Chats : 0 \in Behind(c)
  BY InitType, ZeroBehind
<1> QED BY <1>1 DEF Init, PassInv, HostOK, InPhase

LEMMA NothingPassed == ASSUME Later PROVE Spec => []PassInv
<1>1. Init => PassInv
  BY InitPass
<1>2. TypeInv /\ PassInv /\ [Next]_vars => PassInv'
  BY NextPass
<1> QED BY <1>1, <1>2, Typed, PTL DEF Spec

(***************************************************************************)
(* What a run was given, and what was answered                             *)
(***************************************************************************)
\* A chat that is not concerned, or whose cursors stay.
LEMMA ChatKept ==
  ASSUME TypeInv, TurnInv, log' = log, crashes' >= crashes, NEW d \in Chats, run'[d] = run[d],
         lastAgentTimestamp'[d] = lastAgentTimestamp[d],
         saved'.agent[d] \in {saved.agent[d], lastAgentTimestamp[d]}, crashes' \in Nat
  PROVE  BatchOK(d)' /\ \A m \in Counted : AnsweredOK(m, d)'
<1>1. BatchOK(d) /\ \A m \in Counted : AnsweredOK(m, d)
  BY DEF TurnInv
<1>2. BatchOK(d)'
  BY <1>1 DEF BatchOK
<1>3. ASSUME NEW m \in Counted PROVE AnsweredOK(m, d)'
  <2>1. crashes > 0 => crashes' > 0
    BY DEF TurnInv, BoundsOK
  <2>2. AnsweredOK(m, d) /\ (Forgotten(m) => Forgotten(m)' /\ log[m].command)
    BY <1>1, <2>1 DEF Forgotten
  <2> QED BY <2>2 DEF AnsweredOK
<1> QED BY <1>2, <1>3

LEMMA LoopKept ==
  ASSUME LoopOK, UNCHANGED <<log, loop>>, woken' = woken,
         \A c \in Chats : Up(c)' =>
           NewMessages = {} \/ (Up(c) /\ lastAgentTimestamp'[c] = lastAgentTimestamp[c])
  PROVE  LoopOK'
<1>1. Ids' = Ids /\ RawMessages' = RawMessages
  BY DEF Ids, RawMessages, loop
<1>2. NewMessages' = NewMessages
  BY <1>1 DEF NewMessages, loop
<1>3. ASSUME NEW c \in Chats, Up(c)' PROVE (NewIn(c) \subseteq MessagesSince(c, lastAgentTimestamp[c]))'
  <2>1. NewIn(c)' = NewIn(c)
    BY <1>2 DEF NewIn
  <2>2. CASE NewMessages = {}
    BY <2>1, <2>2 DEF NewIn
  <2>3. CASE Up(c) /\ lastAgentTimestamp'[c] = lastAgentTimestamp[c]
    <3>1. NewIn(c) \subseteq MessagesSince(c, lastAgentTimestamp[c])
      BY <2>3 DEF LoopOK
    <3> QED BY <1>1, <2>1, <2>3, <3>1 DEF MessagesSince
  <2> QED BY <1>3, <2>2, <2>3
<1>4. ~ woken' => NewMessages' = {}
  BY <1>2 DEF LoopOK
<1> QED BY <1>3, <1>4 DEF LoopOK

\* One chat's step, the others being as they were.
LEMMA TurnStep ==
  ASSUME TypeInv, TurnInv, log' = log, crashes' >= crashes, NEW c \in Chats,
         \A d \in Chats \ {c} : /\ run'[d] = run[d]
                                /\ lastAgentTimestamp'[d] = lastAgentTimestamp[d]
                                /\ saved'.agent[d] \in {saved.agent[d], lastAgentTimestamp[d]},
         \A m \in Counted' \ Counted : log[m].chat = c,
         BatchOK(c)', \A m \in Counted' : AnsweredOK(m, c)', LoopOK', crashes' \in Nat
  PROVE  TurnInv'
<1>1. ASSUME NEW d \in Chats PROVE BatchOK(d)' /\ \A m \in Counted' : AnsweredOK(m, d)'
  <2>1. CASE d = c
    BY <2>1
  <2>2. CASE d # c
    <3>1. BatchOK(d)' /\ \A m \in Counted : AnsweredOK(m, d)'
      BY <2>2, ChatKept
    <3>2. ASSUME NEW m \in Counted', m \notin Counted PROVE AnsweredOK(m, d)'
      BY <2>2, <3>2 DEF AnsweredOK
    <3> QED BY <3>1, <3>2
  <2> QED BY <2>1, <2>2
<1> QED BY <1>1 DEF TurnInv, BoundsOK

\* What is known of a message that was answered.
LEMMA AnsweredIs ==
  ASSUME TypeInv, TurnInv, NEW m \in Counted, NEW c \in Chats, log[m].chat = c
  PROVE  /\ m \in Ids /\ log[m].stamp \in Nat
         /\ log[m].stamp <= lastAgentTimestamp[c] \/ Forgotten(m)
         /\ log[m].stamp <= saved.agent[c] \/ log[m].command
<1>1. m \in Ids /\ AnsweredOK(m, c)
  BY DEF TypeInv, RunsOK, TurnInv, Counted
<1> QED BY <1>1, MessageAt DEF AnsweredOK, TypeInv

LEMMA LaunchTurn ==
  ASSUME TypeInv, TurnInv, NEW c \in Chats, NEW batch, batch # {},
         batch \subseteq MessagesSince(c, lastAgentTimestamp[c]),
         Launch(c, batch), UNCHANGED <<log, loop, answered, disowned>>, woken' = woken, crashes' = crashes
  PROVE  TurnInv'
<1>1. batch \in SUBSET Ids /\ \A m \in batch : log[m].chat = c /\ log[m].stamp > lastAgentTimestamp[c]
  BY DEF MessagesSince
<1> DEFINE t == log[Last(batch)].stamp
<1>2. /\ run'[c] = NewRun("agent", batch, lastAgentTimestamp[c])
      /\ \A d \in Chats \ {c} : run'[d] = run[d]
      /\ lastAgentTimestamp'[c] = t /\ saved'.agent[c] = t
      /\ \A d \in Chats \ {c} :
           lastAgentTimestamp'[d] = lastAgentTimestamp[d] /\ saved'.agent[d] = lastAgentTimestamp[d]
  BY <1>1, LaunchType
<1>3. /\ t \in Nat /\ lastAgentTimestamp[c] \in Nat /\ lastAgentTimestamp[c] < t
      /\ \A m \in batch : log[m].stamp <= t
  BY <1>1, LastIs, MessageAt, CursorAt DEF TypeInv
<1> HIDE DEF t
<1>4. log' = log /\ Counted' = Counted /\ crashes \in Nat /\ crashes' >= crashes /\ crashes' \in Nat
  BY CountedKept DEF TurnInv, BoundsOK
<1>5. BatchOK(c)'
  BY <1>1, <1>2, <1>3, <1>4 DEF BatchOK, NewRun
<1>6. ASSUME NEW m \in Counted' PROVE AnsweredOK(m, c)'
  <2> SUFFICES ASSUME log[m].chat = c PROVE AnsweredOK(m, c)'
    BY <1>4 DEF AnsweredOK
  <2>1. /\ log[m].stamp \in Nat /\ (log[m].stamp <= lastAgentTimestamp[c] \/ Forgotten(m))
    BY <1>4, AnsweredIs
  <2>2. Forgotten(m) => Forgotten(m)' /\ log[m].command
    BY <1>4 DEF Forgotten
  <2> QED BY <1>2, <1>3, <1>4, <2>1, <2>2 DEF AnsweredOK, NewRun
<1>7. LoopOK'
  <2>1. \A d \in Chats : Up(d)' => Up(d) /\ lastAgentTimestamp'[d] = lastAgentTimestamp[d]
    BY <1>2 DEF Up, NewRun
  <2> QED BY <2>1, LoopKept DEF TurnInv
<1> QED BY <1>2, <1>4, <1>5, <1>6, <1>7, TurnStep

LEMMA ProcessTurn == ASSUME TypeInv, TurnInv, NEW c \in Chats, ProcessGroupMessages(c) PROVE TurnInv'
<1> DEFINE missed == MessagesSince(c, lastAgentTimestamp[c])
<1>1. /\ UNCHANGED <<log, loop, answered, disowned>> /\ log' = log /\ Counted' = Counted
      /\ woken' = woken /\ crashes' = crashes /\ crashes' >= crashes /\ crashes' \in Nat
  BY CountedKept DEF ProcessGroupMessages, bounds, TurnInv, BoundsOK
<1>2. \A m \in missed : log[m].chat = c /\ log[m].stamp > lastAgentTimestamp[c]
  BY DEF MessagesSince
<1> HIDE DEF missed
<1>3. \/ UNCHANGED <<cursor, run, handed>>
      \/ /\ run' = [run EXCEPT ![c] = NewRun("host", missed, lastAgentTimestamp[c])]
         /\ UNCHANGED <<cursor, handed>>
      \/ missed # {} /\ Launch(c, missed)
  BY Zenon DEF ProcessGroupMessages, Engages, missed
<1>4. CASE UNCHANGED <<cursor, run, handed>>
  <2>1. \A d \in Chats : /\ run'[d] = run[d] /\ lastAgentTimestamp'[d] = lastAgentTimestamp[d]
                         /\ saved'.agent[d] \in {saved.agent[d], lastAgentTimestamp[d]}
    BY <1>4 DEF cursor
  <2>2. LoopOK'
    BY <1>1, <1>4, <2>1, LoopKept DEF Up, TurnInv
  <2> QED BY <1>1, <2>1, <2>2, ChatKept, TurnStep
<1>5. CASE /\ run' = [run EXCEPT ![c] = NewRun("host", missed, lastAgentTimestamp[c])]
           /\ UNCHANGED <<cursor, handed>>
  <2>1. /\ run'[c] = NewRun("host", missed, lastAgentTimestamp[c])
        /\ \A d \in Chats \ {c} : run'[d] = run[d]
        /\ \A d \in Chats : /\ lastAgentTimestamp'[d] = lastAgentTimestamp[d]
                            /\ saved'.agent[d] = saved.agent[d]
    BY <1>5 DEF TypeInv, RunsOK, cursor
  <2>2. LoopOK'
    <3>1. \A d \in Chats : Up(d)' => Up(d) /\ lastAgentTimestamp'[d] = lastAgentTimestamp[d]
      BY <2>1 DEF Up, NewRun
    <3> QED BY <1>1, <3>1, LoopKept DEF TurnInv
  <2>3. BatchOK(c)'
    BY <1>1, <1>2, <2>1, CursorAt DEF BatchOK, NewRun
  <2>4. ASSUME NEW m \in Counted' PROVE AnsweredOK(m, c)'
    <3> SUFFICES ASSUME log[m].chat = c PROVE AnsweredOK(m, c)'
      BY <1>1 DEF AnsweredOK
    <3>1. /\ log[m].stamp <= lastAgentTimestamp[c] \/ Forgotten(m)
          /\ log[m].stamp <= saved.agent[c] \/ log[m].command
      BY <1>1, AnsweredIs
    <3>2. Forgotten(m) => Forgotten(m)'
      BY <1>1 DEF Forgotten
    <3> QED BY <1>1, <2>1, <3>1, <3>2 DEF AnsweredOK, NewRun
  <2> QED BY <1>1, <2>1, <2>2, <2>3, <2>4, TurnStep
<1>6. CASE missed # {} /\ Launch(c, missed)
  BY <1>1, <1>6, LaunchTurn DEF missed
<1> QED BY <1>3, <1>4, <1>5, <1>6

LEMMA HostDoneTurn == ASSUME TypeInv, PassInv, TurnInv, NEW c \in Chats, HostDone(c) PROVE TurnInv'
<1> DEFINE batch == run[c].batch
           t == log[Last(batch)].stamp
<1>1. /\ UNCHANGED <<log, loop>> /\ log' = log /\ InPhase(c, "host") /\ run[c] # Null
      /\ woken' = woken /\ crashes' = crashes /\ crashes' >= crashes /\ crashes' \in Nat
      /\ disowned' = disowned
  BY DEF HostDone, InPhase, bounds, TurnInv, BoundsOK
<1>2. batch # {} /\ batch \subseteq MessagesSince(c, lastAgentTimestamp[c]) /\ batch \in SUBSET Ids
  BY <1>1 DEF PassInv, HostOK, Covers, MessagesSince
<1>3. \A m \in batch : log[m].chat = c /\ log[m].stamp > lastAgentTimestamp[c] /\ log[m].stamp <= t
  BY <1>2, LastIs DEF TypeInv, MessagesSince
<1>4. t \in Nat /\ lastAgentTimestamp[c] < t /\ lastAgentTimestamp[c] \in Nat
  BY <1>2, <1>3, LastIs, MessageAt, CursorAt DEF TypeInv
<1> HIDE DEF t, batch
<1>5. CASE Launch(c, batch) /\ UNCHANGED answered
  BY <1>1, <1>2, <1>5, LaunchTurn
<1>6. CASE ~ (Launch(c, batch) /\ UNCHANGED answered)
  <2>1. /\ ForHost(batch) /\ run' = [run EXCEPT ![c] = Null] /\ saved' = saved
        /\ lastAgentTimestamp' = [lastAgentTimestamp EXCEPT ![c] = t]
        /\ answered' = answered \cup batch
    BY <1>6, Zenon DEF HostDone, batch, t
  <2>a. Counted' \subseteq Counted \cup batch
    BY <1>1, <2>1 DEF Counted
  <2>2. /\ run'[c] = Null /\ \A d \in Chats \ {c} : run'[d] = run[d]
        /\ lastAgentTimestamp'[c] = t
        /\ \A d \in Chats \ {c} : lastAgentTimestamp'[d] = lastAgentTimestamp[d]
    BY <2>1 DEF TypeInv, RunsOK, CursorsOK
  <2>3. LoopOK'
    <3>1. \A d \in Chats : Up(d)' => Up(d) /\ lastAgentTimestamp'[d] = lastAgentTimestamp[d]
      BY <2>2 DEF Up
    <3> QED BY <1>1, <3>1, LoopKept DEF TurnInv
  <2>4. BatchOK(c)'
    BY <2>2 DEF BatchOK
  <2>5. ASSUME NEW m \in Counted', log[m].chat = c PROVE AnsweredOK(m, c)'
    <3>1. CASE m \in batch
      <4>1. log[m].command
        BY <2>1, <3>1 DEF ForHost
      <4> QED BY <1>1, <1>3, <2>2, <3>1, <4>1 DEF AnsweredOK
    <3>2. CASE m \in Counted
      <4>1. /\ log[m].stamp \in Nat
            /\ log[m].stamp <= lastAgentTimestamp[c] \/ Forgotten(m)
            /\ log[m].stamp <= saved.agent[c] \/ log[m].command
        BY <2>5, <3>2, AnsweredIs
      <4>2. Forgotten(m) => Forgotten(m)'
        BY <1>1 DEF Forgotten
      <4>3. log[m].stamp <= t \/ Forgotten(m)
        BY <1>4, <4>1
      <4> QED BY <1>1, <2>1, <2>2, <4>1, <4>2, <4>3 DEF AnsweredOK
    <3> QED BY <2>a, <2>5, <3>1, <3>2
  <2>6. \A m \in Counted' : AnsweredOK(m, c)'
    BY <1>1, <2>5 DEF AnsweredOK
  <2>7. \A m \in Counted' \ Counted : log[m].chat = c
    BY <1>3, <2>a
  <2> QED BY <1>1, <2>1, <2>2, <2>3, <2>4, <2>6, <2>7, TurnStep
<1> QED BY <1>5, <1>6

LEMMA FinishFailedTurn ==
  ASSUME TypeInv, TurnInv, NEW c \in Chats, run[c] # Null,
         run[c].phase \in {"agent", "failed"}, NEW count, FinishFailed(c, count),
         \A m \in Counted' : m \in Counted /\ (m \in run[c].batch => Unspoken(run[c]))
  PROVE  TurnInv'
<1>1. /\ UNCHANGED <<log, loop>> /\ log' = log
      /\ run' = [run EXCEPT ![c] = Null] /\ (UNCHANGED cursor \/ RollBack(c))
      /\ woken' = woken /\ crashes' = crashes /\ crashes' >= crashes /\ crashes' \in Nat
  BY DEF FinishFailed, bounds, TurnInv, BoundsOK
<1>2. run'[c] = Null /\ \A d \in Chats \ {c} : run'[d] = run[d]
  BY <1>1 DEF TypeInv, RunsOK
<1>3. /\ \A d \in Chats \ {c} : /\ lastAgentTimestamp'[d] = lastAgentTimestamp[d]
                                /\ saved'.agent[d] \in {saved.agent[d], lastAgentTimestamp[d]}
      /\ \/ lastAgentTimestamp'[c] = lastAgentTimestamp[c] /\ saved'.agent[c] = saved.agent[c]
         \/ lastAgentTimestamp'[c] = run[c].prev /\ saved'.agent[c] = run[c].prev
  BY <1>1, RollBackIs DEF cursor
<1>4. LoopOK'
  <2>1. \A d \in Chats : Up(d)' => Up(d) /\ lastAgentTimestamp'[d] = lastAgentTimestamp[d]
    BY <1>2, <1>3 DEF Up
  <2> QED BY <1>1, <2>1, LoopKept DEF TurnInv
<1>5. BatchOK(c)'
  BY <1>2 DEF BatchOK
<1>6. ASSUME NEW m \in Counted' PROVE AnsweredOK(m, c)'
  <2>1. AnsweredOK(m, c) /\ (Forgotten(m) => Forgotten(m)' /\ log[m].command)
    BY <1>1, <1>6 DEF TurnInv, Forgotten
  <2>2. m \in run[c].batch => Unspoken(run[c])
    BY <1>6
  <2> QED BY <1>1, <1>2, <1>3, <2>1, <2>2 DEF AnsweredOK
<1> QED BY <1>1, <1>2, <1>3, <1>4, <1>5, <1>6, TurnStep

LEMMA ContainerTurn ==
  ASSUME TypeInv, TurnInv, NEW c \in Chats,
         ContainerUp(c) \/ Output(c) \/ (\E ok \in BOOLEAN : Sent(c, ok) \/ EndWell(c, ok))
           \/ TaskEnds(c) \/ TaskStarts(c) \/ RetryFires(c) \/ (Fail(c) /\ ~ FinishFailed(c, consecutiveErrors[c] + 1))
  PROVE  TurnInv'
<1>1. /\ UNCHANGED <<log, loop, cursor>> /\ log' = log
      /\ woken' = woken /\ crashes' = crashes /\ crashes' >= crashes /\ crashes' \in Nat
  <2>1. UNCHANGED <<log, loop, cursor>> /\ woken' = woken /\ crashes' = crashes
    BY RunChanges
  <2> QED BY <2>1 DEF TurnInv, BoundsOK
<1>2. PICK r : run' = [run EXCEPT ![c] = r] /\ RunLike(c, r)
  BY RunChanges
<1>3. run'[c] = r /\ \A d \in Chats \ {c} : run'[d] = run[d]
  BY <1>2 DEF TypeInv, RunsOK
<1>4. \A d \in Chats : lastAgentTimestamp'[d] = lastAgentTimestamp[d] /\ saved'.agent[d] = saved.agent[d]
  BY <1>1 DEF cursor
<1>5. BatchOK(c) /\ \A m \in Counted : AnsweredOK(m, c) /\ (Forgotten(m) => Forgotten(m)')
  BY <1>1 DEF TurnInv, Forgotten
<1>6. \/ run[c] # Null /\ run[c].phase # "host" /\ Counted' \subseteq Counted \cup run[c].batch
      \/ Counted' \subseteq Counted
  BY <1>2 DEF RunLike
<1>7. LoopOK'
  <2>1. ASSUME NEW d \in Chats, Up(d)' PROVE NewMessages = {} \/ Up(d)
    <3>1. CASE d = c
      <4>1. r # Null /\ r.up
        BY <1>3, <2>1, <3>1 DEF Up
      <4>2. (run[c] # Null /\ run[c].up) \/ ~ woken
        BY <1>2, <4>1 DEF RunLike, NewRun
      <4> QED BY <3>1, <4>2 DEF Up, TurnInv, LoopOK
    <3>2. CASE d # c
      BY <1>3, <2>1, <3>2 DEF Up
    <3> QED BY <3>1, <3>2
  <2> QED BY <1>1, <1>4, <2>1, LoopKept DEF TurnInv
<1>8. BatchOK(c)'
  <2>1. CASE r = Null
    BY <1>3, <2>1 DEF BatchOK
  <2>2. CASE r = run[c]
    BY <1>1, <1>3, <1>4, <1>5, <2>2 DEF BatchOK
  <2>3. CASE r = NewRun("task", {}, 0)
    BY <1>3, <1>4, <2>3, CursorAt DEF BatchOK, NewRun
  <2>4. CASE /\ run[c] # Null /\ run[c].phase # "host" /\ r.phase # "host"
             /\ r.batch = run[c].batch /\ r.prev = run[c].prev
    BY <1>1, <1>3, <1>4, <1>5, <2>4 DEF BatchOK
  <2> QED BY <1>2, <2>1, <2>2, <2>3, <2>4 DEF RunLike
<1>9. ASSUME NEW m \in Counted' PROVE AnsweredOK(m, c)'
  <2>1. CASE m \in Counted
    <3>1. r # Null /\ r.phase # "task"
            => /\ run[c] # Null /\ run[c].phase # "task"
               /\ r.prev = run[c].prev /\ r.batch = run[c].batch
               /\ m \in run[c].batch /\ Unspoken(r) => Unspoken(run[c])
      BY <1>2, <1>9 DEF RunLike, NewRun
    <3> QED BY <1>1, <1>3, <1>4, <1>5, <2>1, <3>1 DEF AnsweredOK
  <2>2. CASE m \notin Counted
    <3>1. run[c] # Null /\ run[c].phase # "host" /\ m \in run[c].batch
      BY <1>6, <2>2, <1>9
    <3>2. log[m].stamp <= lastAgentTimestamp[c] /\ log[m].stamp <= saved.agent[c]
      BY <1>5, <3>1 DEF BatchOK
    <3>3. r = Null \/ (m \in r.batch /\ ~ Unspoken(r))
      BY <1>2, <1>9, <2>2 DEF RunLike
    <3> QED BY <1>1, <1>3, <1>4, <3>2, <3>3 DEF AnsweredOK
  <2> QED BY <2>1, <2>2
<1>10. ASSUME NEW m \in Counted', m \notin Counted PROVE log[m].chat = c
  BY <1>5, <1>6, <1>10 DEF BatchOK
<1> QED BY <1>1, <1>3, <1>4, <1>7, <1>8, <1>9, <1>10, TurnStep

LEMMA TurnTurn == ASSUME TypeInv, PassInv, TurnInv, NEW c \in Chats, Turn(c) PROVE TurnInv'
<1>1. CASE FinishFailed(c, consecutiveErrors[c] + 1) /\ Fail(c)
  <2>1. run[c] # Null /\ run[c].phase = "agent" /\ answered' = answered
    BY <1>1 DEF Fail, InPhase, FinishFailed
  <2>2. \A m \in Counted' : m \in Counted /\ (m \in run[c].batch => Unspoken(run[c]))
    BY <1>1, <2>1, FailTakesBack
  <2> QED BY <1>1, <2>1, <2>2, FinishFailedTurn
<1>2. CASE AfterFailure(c)
  <2>1. run[c] # Null /\ run[c].phase = "failed" /\ FinishFailed(c, consecutiveErrors[c])
    BY <1>2 DEF AfterFailure, InPhase
  <2>2. Counted' = Counted /\ Unspoken(run[c])
    BY <1>2, <2>1, CountedKept DEF AfterFailure, FinishFailed, Unspoken
  <2> QED BY <2>1, <2>2, FinishFailedTurn
<1> QED BY <1>1, <1>2, ProcessTurn, HostDoneTurn, ContainerTurn, Zenon DEF Turn, SlotMoves

\* What a round of the loop pipes to a container is new to it.
LEMMA PipedIsNew ==
  ASSUME TypeInv, TurnInv, NEW c \in Piped
  PROVE  \A m \in ToSend(c) : m \in Ids /\ log[m].chat = c /\ log[m].stamp > lastAgentTimestamp[c]
<1>1. c \in Chats /\ Wanted(c) /\ Up(c)
  BY DEF Piped
<1>2. NewIn(c) # {} /\ NewIn(c) \subseteq MessagesSince(c, lastAgentTimestamp[c])
  BY <1>1, ToSendIs DEF TurnInv, LoopOK
<1>3. ToSend(c) = MessagesSince(c, lastAgentTimestamp[c])
  BY <1>2 DEF ToSend
<1> QED BY <1>3 DEF MessagesSince

LEMMA PipedTurn ==
  ASSUME TypeInv, PassInv, TurnInv, NEW c \in Piped, log' = log, crashes' = crashes,
         NEW t \in Nat, t = log[Last(ToSend(c))].stamp,
         lastAgentTimestamp'[c] = t, saved'.agent[c] = t,
         run'[c] = [run[c] EXCEPT !.batch = @ \cup ToSend(c)]
  PROVE  BatchOK(c)' /\ \A m \in Counted : AnsweredOK(m, c)'
<1>1. c \in Chats /\ Wanted(c) /\ run[c] # Null /\ run[c].up /\ run[c] \in Run
  BY RunIs DEF Piped, Up
<1>2. run[c].phase # "host"
  BY <1>1 DEF PassInv, HostOK, InPhase
<1>3. /\ run'[c] # Null => run'[c].phase = run[c].phase /\ run'[c].prev = run[c].prev
      /\ run'[c] # Null => /\ run'[c].sent = run[c].sent /\ run'[c].out = run[c].out
                           /\ run'[c].batch = run[c].batch \cup ToSend(c)
  BY <1>1 DEF Run
<1>4. \A m \in ToSend(c) : log[m].chat = c /\ log[m].stamp > lastAgentTimestamp[c]
  BY PipedIsNew
<1>5. /\ ToSend(c) \subseteq Ids /\ \A m \in ToSend(c) : log[m].stamp <= t /\ log[m].stamp \in Nat
      /\ Last(ToSend(c)) \in ToSend(c)
  BY <1>1, ToSendIs, MessageAt DEF TypeInv
<1>6. lastAgentTimestamp[c] \in Nat /\ lastAgentTimestamp[c] < t /\ run[c].prev \in Nat
  BY <1>1, <1>4, <1>5, CursorAt DEF Run
<1>7. \A m \in run[c].batch : m \in Ids /\ log[m].stamp \in Nat
  <2>1. run[c].batch \subseteq Ids
    BY <1>1 DEF TypeInv, RunsOK, BatchGiven
  <2> QED BY <2>1, MessageAt DEF TypeInv
<1>8. BatchOK(c)
  BY <1>1 DEF TurnInv
<1>9. BatchOK(c)'
  <2>1. SUFFICES ASSUME run'[c] # Null PROVE BatchOK(c)'
    BY DEF BatchOK
  <2>3. run'[c].prev <= lastAgentTimestamp'[c]
    BY <1>1, <1>3, <1>6, <1>8, <2>1 DEF BatchOK
  <2>4. ASSUME NEW m \in run'[c].batch
        PROVE  /\ log[m].chat = c /\ log[m].stamp > run'[c].prev /\ log[m].stamp <= t
    <3>1. CASE m \in ToSend(c)
      BY <1>1, <1>3, <1>4, <1>5, <1>6, <1>8, <2>1, <3>1 DEF BatchOK
    <3>2. CASE m \in run[c].batch
      BY <1>1, <1>2, <1>3, <1>6, <1>7, <1>8, <2>1, <3>2 DEF BatchOK
    <3> QED BY <1>3, <2>1, <2>4, <3>1, <3>2
  <2> QED BY <2>3, <2>4 DEF BatchOK
<1>10. ASSUME NEW m \in Counted, log[m].chat = c PROVE AnsweredOK(m, c)'
  <2>1. /\ log[m].stamp \in Nat /\ AnsweredOK(m, c)
        /\ log[m].stamp <= lastAgentTimestamp[c] \/ Forgotten(m)
    BY <1>1, <1>10, AnsweredIs DEF TurnInv
  <2>2. (Forgotten(m) <=> Forgotten(m)') /\ (Forgotten(m) => log[m].command)
    BY DEF Forgotten
  <2>3. log[m].stamp <= t \/ Forgotten(m)
    BY <1>6, <2>1
  <2> QED BY <1>1, <1>3, <1>10, <2>1, <2>2, <2>3 DEF AnsweredOK, Unspoken
<1> QED BY <1>9, <1>10 DEF AnsweredOK

LEMMA LoopTurn == ASSUME Remembered, TypeInv, PassInv, TurnInv, MessageLoop PROVE TurnInv'
<1>1. /\ log' = log /\ Counted' = Counted /\ crashes' = crashes /\ woken' = FALSE
      /\ crashes' \in Nat /\ crashes' >= crashes
  BY CountedKept DEF MessageLoop, bounds, TurnInv, BoundsOK
<1>2. CASE NewMessages = {} /\ UNCHANGED <<loop, cursor, run, pendingMessages, handed>>
  <2>1. NewMessages' = {}
    BY <1>1, <1>2 DEF NewMessages, RawMessages, Ids, loop
  <2>2. LoopOK'
    BY <2>1 DEF LoopOK, NewIn
  <2>3. \A d \in Chats : /\ run'[d] = run[d] /\ lastAgentTimestamp'[d] = lastAgentTimestamp[d]
                         /\ saved'.agent[d] = saved.agent[d]
    BY <1>2 DEF cursor
  <2>4. \A d \in Chats : BatchOK(d)' /\ \A m \in Counted : AnsweredOK(m, d)'
    BY <1>1, <2>3, ChatKept
  <2> QED BY <1>1, <2>2, <2>4 DEF TurnInv, BoundsOK
<1>3. CASE NewMessages # {} \/ ~ UNCHANGED <<loop, cursor, run, pendingMessages, handed>>
  <2>1. /\ RememberIds
        /\ saved' = [last |-> lastTimestamp', agent |-> lastAgentTimestamp']
        /\ run' = [c \in Chats |->
             IF c \in Piped THEN [run[c] EXCEPT !.batch = @ \cup ToSend(c)] ELSE run[c]]
        /\ lastAgentTimestamp' = [c \in Chats |->
             IF c \in Piped THEN log[Last(ToSend(c))].stamp ELSE lastAgentTimestamp[c]]
    BY <1>3, LoopIs
  <2>2. NewMessages' = {}
    <3>1. lastTimestamp' \in Nat /\ lastTimestamp' >= lastTimestamp /\ RawMessages \subseteq processedIds'
      BY <1>1, <2>1, RememberIs DEF Remembered
    <3>2. Ids' = Ids /\ lastTimestamp \in Nat
      BY <1>1 DEF Ids, TypeInv, CursorsOK
    <3>3. \A m \in Ids : log[m].stamp \in Nat
      BY MessageAt DEF TypeInv
    <3>4. RawMessages' \subseteq RawMessages
      BY <1>1, <3>1, <3>2, <3>3 DEF RawMessages
    <3> QED BY <3>1, <3>4 DEF NewMessages
  <2>3. LoopOK'
    BY <2>2 DEF LoopOK, NewIn
  <2>4. ASSUME NEW d \in Chats PROVE BatchOK(d)' /\ \A m \in Counted : AnsweredOK(m, d)'
    <3>1. CASE d \in Piped
      <4>1. Wanted(d)
        BY <3>1 DEF Piped
      <4>2. log[Last(ToSend(d))].stamp \in Nat
        BY <4>1, ToSendIs
      <4>3. PICK t \in Nat : t = log[Last(ToSend(d))].stamp
        BY <4>2
      <4>4. /\ lastAgentTimestamp'[d] = t /\ saved'.agent[d] = t
            /\ run'[d] = [run[d] EXCEPT !.batch = @ \cup ToSend(d)]
        BY <2>1, <3>1, <4>3
      <4> QED BY <1>1, <3>1, <4>3, <4>4, PipedTurn
    <3>2. CASE d \notin Piped
      <4>1. run'[d] = run[d] /\ lastAgentTimestamp'[d] = lastAgentTimestamp[d]
            /\ saved'.agent[d] = lastAgentTimestamp[d]
        BY <2>1, <3>2
      <4> QED BY <1>1, <4>1, ChatKept
    <3> QED BY <3>1, <3>2
  <2> QED BY <1>1, <2>3, <2>4 DEF TurnInv, BoundsOK
<1> QED BY <1>2, <1>3

LEMMA StoreTurn ==
  ASSUME Later, TypeInv, PassInv, TurnInv, NEW c \in Chats, NEW what \in Contents,
         NEW d \in StampSteps, StoreMessage(c, what, d)
  PROVE  TurnInv'
<1> DEFINE n == Len(log) + 1
<1>1. /\ Ids' = Ids \cup {n} /\ n \notin Ids /\ \A m \in Ids : log'[m] = log[m]
      /\ log'[n].stamp = Newest + d
  BY StoreIs
<1>2. /\ UNCHANGED <<loop, cursor, run, handed>> /\ Counted' = Counted /\ crashes' = crashes
      /\ woken' = TRUE
  BY CountedKept DEF StoreMessage, history, bounds
<1> HIDE DEF n
<1>3. ASSUME NEW e \in Chats
      PROVE  log'[n].stamp > lastAgentTimestamp[e]
  <2>1. d \in Int /\ d > 0
    BY StampsAssumption DEF Later
  <2>2. Newest \in Nat /\ \A m \in Ids : log[m].stamp <= Newest /\ log[m].stamp \in Nat
    BY NewestIs, MessageAt DEF TypeInv
  <2>3. lastAgentTimestamp[e] \in Nat /\ Reached(lastAgentTimestamp[e])
    BY DEF PassInv, Behind
  <2> QED BY <1>1, <2>1, <2>2, <2>3 DEF Reached
<1>4. ASSUME NEW e \in Chats, Up(e)'
      PROVE  (NewIn(e) \subseteq MessagesSince(e, lastAgentTimestamp[e]))'
  <2>1. NewIn(e) \subseteq MessagesSince(e, lastAgentTimestamp[e])
    BY <1>2, <1>4 DEF Up, TurnInv, LoopOK
  <2>2. lastAgentTimestamp' = lastAgentTimestamp
    BY <1>2 DEF cursor
  <2>3. ASSUME NEW m \in NewIn(e)' PROVE m \in MessagesSince(e, lastAgentTimestamp[e])'
    <3>1. m \in Ids' /\ log'[m].chat = e
      BY <2>3 DEF NewIn, NewMessages, RawMessages
    <3>2. CASE m = n
      BY <1>3, <2>2, <3>1, <3>2 DEF MessagesSince
    <3>3. CASE m # n
      <4>1. m \in Ids /\ log'[m] = log[m]
        BY <1>1, <3>1, <3>3
      <4>2. m \in NewIn(e)
        BY <1>2, <2>3, <4>1 DEF NewIn, NewMessages, RawMessages, loop
      <4> QED BY <2>1, <2>2, <3>1, <4>1, <4>2 DEF MessagesSince
    <3> QED BY <3>2, <3>3
  <2> QED BY <2>3
<1>5. LoopOK'
  BY <1>2, <1>4 DEF LoopOK
<1>6. ASSUME NEW e \in Chats PROVE BatchOK(e)'
  <2>1. run' = run /\ (run[e] # Null => \A m \in run[e].batch : log'[m] = log[m])
    BY <1>1, <1>2 DEF TypeInv, RunsOK, BatchGiven
  <2> QED BY <1>2, <2>1 DEF TurnInv, BatchOK, cursor
<1>7. ASSUME NEW m \in Counted, NEW e \in Chats PROVE AnsweredOK(m, e)'
  <2>1. log'[m] = log[m] /\ AnsweredOK(m, e)
    BY <1>1 DEF TypeInv, RunsOK, TurnInv, Counted
  <2> QED BY <1>2, <2>1 DEF AnsweredOK, Forgotten, cursor
<1> QED BY <1>2, <1>5, <1>6, <1>7 DEF TurnInv, BoundsOK

LEMMA CrashTurn == ASSUME TypeInv, TurnInv, Crash PROVE TurnInv'
<1>1. /\ log' = log /\ saved' = saved /\ Counted' = Counted /\ lastAgentTimestamp' = saved.agent
      /\ run' = [c \in Chats |-> Null] /\ woken' = TRUE /\ crashes' = crashes + 1
  BY CountedKept DEF Crash, history
<1>2. crashes' \in Nat /\ crashes' > 0
  BY <1>1 DEF TurnInv, BoundsOK
<1>3. \A c \in Chats : run'[c] = Null
  BY <1>1
<1>4. LoopOK'
  BY <1>1, <1>3 DEF LoopOK, Up
<1>5. \A c \in Chats : BatchOK(c)'
  BY <1>3 DEF BatchOK
<1>6. ASSUME NEW m \in Counted, NEW c \in Chats PROVE AnsweredOK(m, c)'
  <2>1. AnsweredOK(m, c) /\ (log[m].command => Forgotten(m)')
    BY <1>1, <1>2 DEF TurnInv, Forgotten
  <2> QED BY <1>1, <1>3, <2>1 DEF AnsweredOK
<1> QED BY <1>1, <1>2, <1>4, <1>5, <1>6 DEF TurnInv, BoundsOK

LEMMA NextTurn ==
  ASSUME Later, Remembered, TypeInv, PassInv, TurnInv, [Next]_vars PROVE TurnInv'
<1>1. CASE UNCHANGED vars
  <2>1. /\ UNCHANGED <<log, loop, cursor, run>> /\ log' = log /\ run' = run
        /\ Counted' = Counted /\ woken' = woken /\ crashes' = crashes
    BY <1>1, CountedKept DEF vars, history, bounds
  <2>2. crashes' \in Nat /\ crashes' >= crashes
    BY <2>1 DEF TurnInv, BoundsOK
  <2>3. \A d \in Chats : /\ run'[d] = run[d] /\ lastAgentTimestamp'[d] = lastAgentTimestamp[d]
                         /\ saved'.agent[d] = saved.agent[d]
    BY <2>1 DEF cursor
  <2>4. LoopOK'
    BY <2>1, <2>3, LoopKept DEF Up, TurnInv
  <2>5. \A d \in Chats : BatchOK(d)' /\ \A m \in Counted : AnsweredOK(m, d)'
    BY <2>1, <2>2, <2>3, ChatKept
  <2> QED BY <2>1, <2>2, <2>4, <2>5 DEF TurnInv, BoundsOK
<1> QED BY <1>1, StoreTurn, LoopTurn, TurnTurn, CrashTurn, Zenon DEF Next

LEMMA InitTurn == ASSUME Init PROVE TurnInv
<1>1. Ids = {} /\ Counted = {} /\ crashes = 0 /\ \A c \in Chats : run[c] = Null
  BY DEF Init, Ids, Counted
<1>2. NewMessages = {}
  BY <1>1 DEF NewMessages, RawMessages
<1> QED BY <1>1, <1>2 DEF TurnInv, BoundsOK, LoopOK, BatchOK, Up

LEMMA NothingLost == ASSUME Later, Remembered PROVE Spec => []TurnInv
<1>1. Init => TurnInv
  BY InitTurn
<1>2. TypeInv /\ PassInv /\ TurnInv /\ [Next]_vars => TurnInv'
  BY NextTurn
<1> QED BY <1>1, <1>2, Typed, NothingPassed, PTL DEF Spec

(***************************************************************************)
(* The theorems                                                            *)
(***************************************************************************)
\* Only what was answered is disowned.
LEMMA DisownedKept ==
  ASSUME disowned \subseteq answered, [Next]_vars PROVE (disowned \subseteq answered)'
<1>1. SUFFICES ASSUME NEW c \in Chats, Turn(c) PROVE (disowned \subseteq answered)'
  BY Zenon DEF Next, vars, history, StoreMessage, MessageLoop, Crash
<1>2. ASSUME Fail(c) \/ AfterFailure(c)
      PROVE  answered' = answered /\ disowned' \subseteq disowned \cup answered
  <2>1. answered' = answered
    BY <1>2, Zenon DEF Fail, AfterFailure, FinishFailed
  <2>2. \/ disowned' = disowned
        \/ disowned' = disowned \cup (run[c].batch \cap answered)
    BY <1>2, Zenon DEF Fail, AfterFailure
  <2> QED BY <2>1, <2>2
<1>3. CASE Fail(c) \/ AfterFailure(c)
  BY <1>2, <1>3
<1>4. CASE ~ (Fail(c) \/ AfterFailure(c))
  <2>1. answered \subseteq answered' /\ disowned' = disowned
    BY <1>1, <1>4
    DEF Turn, SlotMoves, ProcessGroupMessages, HostDone, ContainerUp, Output, Sent, EndWell,
       TaskStarts, TaskEnds, RetryFires, history, Launch
  <2> QED BY <2>1
<1> QED BY <1>3, <1>4

\* Cursors, counters and runs stay in their ranges: the errors in a row never pass
\* MAX_CONSECUTIVE_ERRORS nor the retries MAX_RETRIES, and only what was handed to
\* an agent or a host command is ever counted as answered.
THEOREM TypeCorrect == Spec => []TypeOK
<1>1. TypeInv /\ disowned \subseteq answered => TypeOK
  <2> SUFFICES ASSUME TypeInv, disowned \subseteq answered PROVE TypeOK
    OBVIOUS
  <2>1. DOMAIN log \subseteq 1 .. MaxMessages
    BY BoundsAssumption DEF TypeInv, LogOK
  <2>2. \A c \in Chats : run[c] = Null \/
         /\ run[c].phase \in {"host", "agent", "failed", "task"} /\ run[c].batch \subseteq Ids
         /\ run[c].prev \in Nat /\ {run[c].up, run[c].sent} \subseteq BOOLEAN
         /\ run[c].out \in {"idle", "sending", "broken"}
    <3> SUFFICES ASSUME NEW c \in Chats, run[c] # Null
                 PROVE  /\ run[c].phase \in {"host", "agent", "failed", "task"}
                        /\ run[c].batch \subseteq Ids /\ run[c].prev \in Nat
                        /\ {run[c].up, run[c].sent} \subseteq BOOLEAN
                        /\ run[c].out \in {"idle", "sending", "broken"}
      OBVIOUS
    <3>1. run[c] \in Run /\ BatchGiven(run[c])
      BY RunIs DEF TypeInv, RunsOK
    <3> QED BY <3>1 DEF Run, BatchGiven
  <2> QED BY <2>1, <2>2 DEF TypeInv, CursorsOK, QueueOK, RunsOK, TypeOK
<1>2. Init => disowned \subseteq answered
  BY DEF Init
<1> QED BY <1>1, <1>2, Typed, DisownedKept, PTL DEF Spec

\* When messages stored later have later timestamps, no cursor of a chat passes a
\* message that no agent and no host command was given, however runs, piping,
\* failures with their rollback, retries and crashes of the host follow each other.
THEOREM NothingSkipped == ASSUME Later PROVE Spec => []NoneSkipped
<1>1. TypeInv /\ PassInv => NoneSkipped
  <2> SUFFICES ASSUME TypeInv, PassInv, NEW m \in Ids,
                      log[m].stamp <= lastAgentTimestamp[log[m].chat]
               PROVE  m \in handed
    BY DEF NoneSkipped
  <2>1. log[m].chat \in Chats
    BY MessageAt DEF TypeInv
  <2> QED BY <2>1 DEF PassInv, Behind
<1> QED BY <1>1, Typed, NothingPassed, PTL

\* A turn of one chat leaves the runs of the others alone.
LEMMA TurnLocal ==
  ASSUME TypeInv, NEW c \in Chats, NEW d \in Chats, Turn(c), d # c PROVE run'[d] = run[d]
<1>1. SUFFICES \E r : run' = [run EXCEPT ![c] = r]
  BY DEF TypeInv, RunsOK
<1>2. run = [run EXCEPT ![c] = run[c]]
  BY DEF TypeInv, RunsOK
<1>3. CASE ProcessGroupMessages(c)
  <2>1. run' = run \/ \E r : run' = [run EXCEPT ![c] = r]
    BY <1>3, Zenon DEF ProcessGroupMessages, Launch
  <2> QED BY <1>2, <2>1
<1>4. CASE HostDone(c)
  BY <1>4, Zenon DEF HostDone, Launch
<1>5. CASE AfterFailure(c) \/ (Fail(c) /\ FinishFailed(c, consecutiveErrors[c] + 1))
  BY <1>5, Zenon DEF AfterFailure, FinishFailed
<1> QED BY <1>3, <1>4, <1>5, RunChanges, Zenon DEF Turn, SlotMoves

\* A round of the loop ends no run.
LEMMA LoopEndsNone ==
  ASSUME TypeInv, MessageLoop, NEW c \in Chats, run[c] # Null PROVE run'[c] # Null
<1>1. run[c] \in Run
  BY RunIs
<1>2. CASE UNCHANGED <<loop, cursor, run, pendingMessages, handed>>
  BY <1>2
<1>3. CASE ~ UNCHANGED <<loop, cursor, run, pendingMessages, handed>>
  <2>1. run'[c] = IF c \in Piped THEN [run[c] EXCEPT !.batch = @ \cup ToSend(c)] ELSE run[c]
    BY <1>3, LoopIs
  <2>2. CASE c \in Piped
    <3>1. ToSend(c) \subseteq Ids /\ Ids \subseteq 1 .. MaxMessages
      BY <2>2, ToSendIs, BoundsAssumption DEF Piped, TypeInv, LogOK, Ids
    <3>2. [run[c] EXCEPT !.batch = @ \cup ToSend(c)] \in Run
      BY <1>1, <3>1 DEF Run
    <3> QED BY <2>1, <2>2, <3>2, NullAssumption
  <2> QED BY <2>1, <2>2
<1> QED BY <1>2, <1>3

\* The only step that ends a turn and leaves an error counted is the rollback.
LEMMA ErrorMeansRollBack ==
  ASSUME TypeInv, TurnInv, NEW c \in Chats, Turn(c), InPhase(c, "agent") \/ InPhase(c, "failed"),
         run'[c] = Null, consecutiveErrors'[c] > 0
  PROVE  RollBack(c)
<1>1. run[c] # Null /\ run[c] \in Run /\ run[c].phase \in {"agent", "failed"}
  BY RunIs DEF InPhase
<1>2. /\ run \in [Chats -> {Null} \cup Run] /\ consecutiveErrors \in [Chats -> 0 .. MaxErrors]
      /\ \A r \in Run : r # Null
  BY NullAssumption DEF TypeInv, RunsOK, QueueOK
<1>3. ASSUME NEW count, FinishFailed(c, count) PROVE RollBack(c)
  <2>1. CASE consecutiveErrors' = [consecutiveErrors EXCEPT ![c] = 0]
    BY <1>2, <2>1
  <2> QED BY <1>3, <2>1 DEF FinishFailed
<1>4. ~ ProcessGroupMessages(c) /\ ~ HostDone(c) /\ ~ TaskStarts(c) /\ ~ TaskEnds(c)
  BY <1>1 DEF ProcessGroupMessages, HostDone, TaskStarts, TaskEnds, InPhase
<1>5. ASSUME ContainerUp(c) PROVE FALSE
  <2>1. [run[c] EXCEPT !.up = TRUE] \in Run
    BY <1>1 DEF Run
  <2>2. run'[c] = [run[c] EXCEPT !.up = TRUE]
    BY <1>2, <1>5 DEF ContainerUp
  <2> QED BY <1>2, <2>1, <2>2
<1>6. ASSUME Output(c) PROVE FALSE
  <2>1. [run[c] EXCEPT !.out = "sending"] \in Run
    BY <1>1 DEF Run
  <2>2. run'[c] = [run[c] EXCEPT !.out = "sending"]
    BY <1>2, <1>6 DEF Output
  <2> QED BY <1>2, <2>1, <2>2
<1>b. ASSUME NEW ok \in BOOLEAN, Sent(c, ok) PROVE FALSE
  <2>1. /\ [run[c] EXCEPT !.out = "idle", !.sent = TRUE] \in Run
        /\ [run[c] EXCEPT !.out = "broken"] \in Run
    BY <1>1 DEF Run
  <2>2. \/ run'[c] = [run[c] EXCEPT !.out = "idle", !.sent = TRUE]
        \/ run'[c] = [run[c] EXCEPT !.out = "broken"]
    BY <1>2, <1>b DEF Sent
  <2> QED BY <1>2, <2>1, <2>2
<1>7. ASSUME NEW ok \in BOOLEAN, EndWell(c, ok) PROVE FALSE
  <2>1. consecutiveErrors' = [consecutiveErrors EXCEPT ![c] = 0]
    BY <1>7 DEF EndWell
  <2> QED BY <1>2, <2>1
<1>8. ~ RetryFires(c)
  BY <1>1 DEF RetryFires
<1>9. ASSUME Fail(c), ~ FinishFailed(c, consecutiveErrors[c] + 1) PROVE FALSE
  <2>1. run' = [run EXCEPT ![c].phase = "failed"]
    BY <1>9, Zenon DEF Fail
  <2>2. [run[c] EXCEPT !.phase = "failed"] \in Run
    BY <1>1 DEF Run
  <2>3. run'[c] = [run[c] EXCEPT !.phase = "failed"]
    BY <1>2, <2>1
  <2> QED BY <1>2, <2>2, <2>3
<1>10. CASE AfterFailure(c)
  BY <1>3, <1>10 DEF AfterFailure
<1> QED BY <1>3, <1>4, <1>5, <1>6, <1>b, <1>7, <1>8, <1>9, <1>10, Zenon DEF Turn, SlotMoves

\* A turn that fails with no output recorded and is not the last of MAX_CONSECUTIVE_ERRORS
\* in a row puts its chat's cursor, in memory and saved, back before all it was
\* given, what was piped to it while it ran and while the user was told included.
THEOREM BatchComesBack == ASSUME Later, Remembered PROVE Spec => FailedBatchComesBack
<1> DEFINE Back(c) ==
      (InPhase(c, "agent") \/ InPhase(c, "failed")) /\ run'[c] = Null /\ consecutiveErrors'[c] > 0
        => \A m \in run[c].batch :
             log[m].stamp > lastAgentTimestamp'[c] /\ log[m].stamp > saved'.agent[c]
<1>1. ASSUME TypeInv, TurnInv, Next, NEW c \in Chats PROVE Back(c)
  <2> SUFFICES ASSUME InPhase(c, "agent") \/ InPhase(c, "failed"), run'[c] = Null,
                      consecutiveErrors'[c] > 0
               PROVE  \A m \in run[c].batch :
                        log[m].stamp > lastAgentTimestamp'[c] /\ log[m].stamp > saved'.agent[c]
    OBVIOUS
  <2>1. run[c] # Null
    BY DEF InPhase
  <2>2. ~ \E d \in Chats, what \in Contents, s \in StampSteps : StoreMessage(d, what, s)
    BY <2>1 DEF StoreMessage
  <2>3. ~ MessageLoop
    BY <1>1, <2>1, LoopEndsNone
  <2>4. ~ Crash
    BY DEF Crash
  <2>5. Turn(c)
    <3>1. PICK d \in Chats : Turn(d)
      BY <1>1, <2>2, <2>3, <2>4, Zenon DEF Next
    <3> QED BY <1>1, <2>1, <3>1, TurnLocal
  <2>6. RollBack(c)
    BY <1>1, <2>5, ErrorMeansRollBack
  <2>7. lastAgentTimestamp'[c] = run[c].prev /\ saved'.agent = lastAgentTimestamp'
    BY <1>1, <2>6 DEF RollBack, TypeInv, CursorsOK
  <2>8. BatchOK(c)
    BY <1>1 DEF TurnInv
  <2> QED BY <2>1, <2>7, <2>8 DEF BatchOK
<1>2. TypeInv /\ TurnInv /\ [Next]_vars => [\A c \in Chats : Back(c)]_vars
  BY <1>1
<1> QED BY <1>2, Typed, NothingLost, PTL DEF Spec, FailedBatchComesBack

\* What a step gives to a run lies past the cursor of its chat.
LEMMA GivenIsNew ==
  ASSUME TypeInv, TurnInv, Next, NEW c \in Chats, NEW m \in Given(c)
  PROVE  m \in Ids /\ log[m].chat = c /\ log[m].stamp > lastAgentTimestamp[c]
<1>1. /\ run'[c] # Null /\ m \in run'[c].batch /\ (run[c] # Null => m \notin run[c].batch)
      /\ run'[c] # run[c]
  BY DEF Given
<1>2. ~ \E d \in Chats, what \in Contents, s \in StampSteps : StoreMessage(d, what, s)
  BY <1>1 DEF StoreMessage
<1>3. ~ Crash
  BY <1>1 DEF Crash
<1>4. CASE MessageLoop
  <2>1. ~ UNCHANGED <<loop, cursor, run, pendingMessages, handed>>
    BY <1>1
  <2>2. run'[c] = IF c \in Piped THEN [run[c] EXCEPT !.batch = @ \cup ToSend(c)] ELSE run[c]
    BY <1>4, <2>1, LoopIs
  <2>3. c \in Piped
    BY <1>1, <2>2
  <2>4. run[c] # Null /\ run[c] \in Run
    BY <2>3, RunIs DEF Piped, Up
  <2>5. run'[c].batch = run[c].batch \cup ToSend(c)
    BY <2>2, <2>3, <2>4 DEF Run
  <2> QED BY <1>1, <2>3, <2>4, <2>5, PipedIsNew
<1>5. CASE \E d \in Chats : Turn(d)
  <2>1. Turn(c)
    BY <1>1, <1>5, TurnLocal
  <2>2. run \in [Chats -> {Null} \cup Run]
    BY DEF TypeInv, RunsOK
  <2>3. CASE ProcessGroupMessages(c)
    <3> DEFINE missed == MessagesSince(c, lastAgentTimestamp[c])
    <3>1. \/ run' = run
          \/ run' = [run EXCEPT ![c] = NewRun("host", missed, lastAgentTimestamp[c])]
          \/ run' = [run EXCEPT ![c] = NewRun("agent", missed, lastAgentTimestamp[c])]
      BY <2>3, Zenon DEF ProcessGroupMessages, Launch
    <3>2. run'[c].batch = missed
      BY <1>1, <2>2, <3>1 DEF NewRun
    <3> QED BY <1>1, <3>2 DEF MessagesSince
  <2>4. CASE HostDone(c)
    <3>1. \/ run' = [run EXCEPT ![c] = Null]
          \/ run' = [run EXCEPT ![c] = NewRun("agent", run[c].batch, lastAgentTimestamp[c])]
      BY <2>4, Zenon DEF HostDone, Launch
    <3>2. run'[c].batch = run[c].batch /\ run[c] # Null
      BY <1>1, <2>2, <2>4, <3>1 DEF NewRun, HostDone, InPhase
    <3> QED BY <1>1, <3>2
  <2>5. CASE AfterFailure(c) \/ (Fail(c) /\ FinishFailed(c, consecutiveErrors[c] + 1))
    <3>1. run' = [run EXCEPT ![c] = Null]
      BY <2>5, Zenon DEF AfterFailure, FinishFailed
    <3> QED BY <1>1, <2>2, <3>1
  <2>6. ASSUME NEW r, run' = [run EXCEPT ![c] = r], RunLike(c, r) PROVE FALSE
    <3>1. run'[c] = r
      BY <2>2, <2>6
    <3> QED BY <1>1, <2>6, <3>1 DEF RunLike, NewRun
  <2> QED BY <2>1, <2>3, <2>4, <2>5, <2>6, RunChanges, Zenon DEF Turn, SlotMoves
<1> QED BY <1>2, <1>3, <1>4, <1>5, Zenon DEF Next

\* What a turn that succeeded or sent output was given is not given to another:
\* not by a run the queue starts, not by the pipe, not after a failure is rolled
\* back and not after a crash, but for a host command whose cursor was not saved
\* and the batch of a turn that failed with its output not through.
THEOREM AnsweredOnce == ASSUME Later, Remembered PROVE Spec => NothingAnsweredTwice
<1> DEFINE Once(c) == \A m \in Given(c) \cap answered :
                        (log[m].command /\ crashes > 0) \/ m \in disowned
<1>1. ASSUME TypeInv, TurnInv, Next, NEW c \in Chats PROVE Once(c)
  <2> SUFFICES ASSUME NEW m \in Given(c), m \in Counted PROVE log[m].command /\ crashes > 0
    BY DEF Counted
  <2>1. log[m].chat = c /\ log[m].stamp > lastAgentTimestamp[c]
    BY <1>1, GivenIsNew
  <2>2. log[m].stamp \in Nat /\ (log[m].stamp <= lastAgentTimestamp[c] \/ Forgotten(m))
    BY <1>1, <2>1, AnsweredIs
  <2>3. lastAgentTimestamp[c] \in Nat
    BY <1>1, CursorAt
  <2>4. Forgotten(m)
    BY <2>1, <2>2, <2>3
  <2> QED BY <2>4 DEF Forgotten
<1>2. TypeInv /\ TurnInv /\ [Next]_vars => [\A c \in Chats : Once(c)]_vars
  BY <1>1
<1> QED BY <1>2, Typed, NothingLost, PTL DEF Spec, NothingAnsweredTwice
=============================================================================
