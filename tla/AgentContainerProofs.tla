------------------------ MODULE AgentContainerProofs ------------------------
(* Types, the order of the messages, the owner of a _close, what a success *)
(* means and the resume position, for any number of runs, messages,        *)
(* outputs and crashes.                                                    *)
EXTENDS AgentContainer, FiniteSetTheorems, TLAPS

(***************************************************************************)
(* The inductive invariant                                                 *)
(***************************************************************************)
\* The process is there only while the host listens; only a query that runs has
\* a stream, only one being set up a prompt.
PlacesOK ==
  /\ phase # "up" => agent.where = "exited"
  /\ stream # <<>> => agent.where = "query"
  /\ prompt # {} => agent.where = "setup"
  /\ agent.orphan => agent.where # "boot"

\* Every message piped is somewhere, and what lies in the directory is the end
\* of them: it is newer than what a query holds, which is in order itself.
MessagesOK ==
  /\ read \cup dropped \cup prompt \cup ToSet(stream) \cup files = 1 .. piped
  /\ \E b \in 1 .. piped + 1 : files = b .. piped
  /\ \A m \in prompt \cup ToSet(stream), f \in files : m < f
  /\ \A i, j \in DOMAIN stream : i < j => stream[i] < stream[j]
  /\ ReadInOrder

OrderInv == PlacesOK /\ MessagesOK

\* Once the container has unlinked the _close it found, the only one there can
\* be is its own: nobody but the run that goes on has a timer armed.
CloseInv ==
  /\ CloseIsOwn
  /\ late \/ (agent.where \notin {"boot", "exited"} => closeFor \subseteq {run})
  /\ late \/ \A r \in Runs : idleTimer[r] => r = run /\ phase # "idle"

\* The outcome of a run comes with its end.
ResultInv ==
  /\ phase # "idle" \/ result # "none" => run \in Runs
  /\ phase \in {"up", "closing"} => result = "none"
  /\ \A r \in Runs : sending[r] => chain[r] # <<>>
  /\ row = "spawn_error" => result = "error"
  /\ SuccessMeansHandled /\ RowAgrees

\* Runs fail in their turn, and the position of one that failed is gone.
ResumeInv ==
  /\ failed \subseteq 1 .. run
  /\ phase # "idle" => run \notin failed
  /\ late \/ resume \notin failed
  /\ FailedPositionForgotten

Inv == TypeOK /\ OrderInv /\ CloseInv /\ ResultInv /\ ResumeInv

\* The parts of TypeOK, by who changes them.
HostOK ==
  /\ run \in 0 .. MaxRuns
  /\ phase \in {"idle", "up", "closing", "resolved"}
  /\ timedOut \in BOOLEAN
  /\ result \in {"none", "success", "error"} /\ row \in RowStatus
  /\ failed \subseteq Runs /\ from \in 0 .. MaxRuns
  /\ crashes \in 0 .. MaxCrashes

ChainsOK ==
  /\ chain \in [Runs -> Seq(OutputKinds)]
  /\ sending \in [Runs -> BOOLEAN] /\ idleTimer \in [Runs -> BOOLEAN]
  /\ {hadOutput, broken, sent, late} \subseteq BOOLEAN
  /\ resume \in 0 .. MaxRuns

DirOK ==
  /\ files \subseteq Messages /\ closeFor \subseteq Runs
  /\ piped \in 0 .. MaxMessages /\ idleWaiting \in BOOLEAN

InsideOK ==
  /\ agent \in AgentType /\ foreign \in BOOLEAN
  /\ stream \in Seq(Messages)
  /\ prompt \subseteq Messages /\ read \subseteq Messages /\ dropped \subseteq Messages

\* The parts are the whole.
LEMMA InvParts ==
  /\ Inv <=> /\ HostOK /\ ChainsOK /\ DirOK /\ InsideOK /\ outputs \in Nat
             /\ OrderInv /\ CloseInv /\ ResultInv /\ ResumeInv
  /\ Inv' <=> /\ HostOK' /\ ChainsOK' /\ DirOK' /\ InsideOK' /\ outputs' \in Nat
              /\ OrderInv' /\ CloseInv' /\ ResultInv' /\ ResumeInv'
  BY Zenon DEF Inv, TypeOK, HostOK, ChainsOK, DirOK, InsideOK

(***************************************************************************)
(* The messages of the directory in order                                  *)
(***************************************************************************)
\* What is read from the directory is what was there, the oldest first.
LEMMA InOrderSorted ==
  ASSUME NEW n \in Nat, NEW b \in 1 .. n + 1
  PROVE  /\ InOrder(b .. n) \in Seq(b .. n)
         /\ ToSet(InOrder(b .. n)) = b .. n
         /\ \A i, j \in DOMAIN InOrder(b .. n) : i < j => InOrder(b .. n)[i] < InOrder(b .. n)[j]
<1> DEFINE S == b .. n
           c == n + 1 - b
           w == [i \in 1 .. c |-> b + i - 1]
           s == InOrder(S)
           Sorted(q) == \A i, j \in DOMAIN q : i < j => q[i] < q[j]
<1>1. c \in Nat /\ IsFiniteSet(S) /\ Cardinality(S) = c
  <2>1. b \in Int /\ n \in Int
    OBVIOUS
  <2>2. IsFiniteSet(S) /\ Cardinality(S) = IF b > n THEN 0 ELSE n - b + 1
    BY <2>1, FS_Interval, Zenon
  <2> QED BY <2>2
<1>2. w \in SetToSeqs(S) /\ Sorted(w)
  BY <1>1 DEF SetToSeqs
<1>3. s \in SetToSeqs(S) /\ Sorted(s)
  BY <1>2, Zenon DEF InOrder
<1> HIDE DEF s
<1>4. s \in [1 .. c -> S] /\ \A i, j \in 1 .. c : i # j => s[i] # s[j]
  BY <1>1, <1>3 DEF SetToSeqs
<1>5. s \in Surjection(1 .. c, S)
  <2>1. s \in Injection(1 .. c, S)
    BY <1>4 DEF Injection, IsInjective
  <2>2. Cardinality(1 .. c) = Cardinality(S)
    BY <1>1, FS_Interval
  <2> QED BY <1>1, <2>1, <2>2, FS_Injection
<1>6. ToSet(s) = S
  <2>1. \A m \in S : \E i \in 1 .. c : s[i] = m
    BY <1>5 DEF Surjection
  <2>2. DOMAIN s = 1 .. c /\ \A i \in 1 .. c : s[i] \in S
    BY <1>4
  <2> QED BY <2>1, <2>2, Zenon DEF ToSet
<1>7. s \in Seq(S)
  BY <1>1, <1>4
<1> QED BY <1>3, <1>6, <1>7 DEF s

(***************************************************************************)
(* Where a message goes                                                    *)
(***************************************************************************)
Moves == MessagesOK /\ DirOK /\ InsideOK

\* The end of the messages that is left when the directory is emptied.
LEMMA NothingLeft == DirOK => {} = piped + 1 .. piped /\ piped + 1 \in 1 .. piped + 1
  BY DEF DirOK

LEMMA TakenToPrompt ==
  ASSUME Moves, prompt = {}, stream = << >>, prompt' = files, files' = {},
         UNCHANGED <<stream, read, dropped, piped>>
  PROVE  MessagesOK'
<1>1. \E b \in 1 .. piped' + 1 : files' = b .. piped'
  BY NothingLeft DEF Moves
<1> QED BY <1>1 DEF Moves, MessagesOK, ReadInOrder

LEMMA TakenToNobody ==
  ASSUME Moves, dropped' = dropped \cup files, files' = {},
         UNCHANGED <<stream, prompt, read, piped>>
  PROVE  MessagesOK'
<1>1. \E b \in 1 .. piped' + 1 : files' = b .. piped'
  BY NothingLeft DEF Moves
<1> QED BY <1>1 DEF Moves, MessagesOK, ReadInOrder

LEMMA TakenToStream ==
  ASSUME Moves, stream' = stream \o InOrder(files), files' = {},
         UNCHANGED <<prompt, read, dropped, piped>>
  PROVE  MessagesOK' /\ stream' \in Seq(Messages)
<1> DEFINE s == InOrder(files)
<1>1. /\ s \in Seq(files) /\ ToSet(s) = files
      /\ \A i, j \in DOMAIN s : i < j => s[i] < s[j]
  <2>1. PICK b \in 1 .. piped + 1 : files = b .. piped
    BY DEF Moves, MessagesOK
  <2> QED BY <2>1, InOrderSorted DEF Moves, DirOK
<1> HIDE DEF s
<1>2. stream \in Seq(Messages) /\ s \in Seq(Messages) /\ stream' = stream \o s
  BY <1>1 DEF Moves, DirOK, InsideOK, s
<1>3. /\ Len(stream') = Len(stream) + Len(s) /\ DOMAIN stream' = 1 .. Len(stream')
      /\ \A i \in 1 .. Len(stream) : stream'[i] = stream[i] /\ stream[i] \in ToSet(stream)
      /\ \A i \in Len(stream) + 1 .. Len(stream') :
           /\ stream'[i] = s[i - Len(stream)] /\ i - Len(stream) \in DOMAIN s
           /\ s[i - Len(stream)] \in files
      /\ \A i \in DOMAIN s : i + Len(stream) \in DOMAIN stream' /\ stream'[i + Len(stream)] = s[i]
  BY <1>1, <1>2 DEF ToSet
<1>4. ToSet(stream') = ToSet(stream) \cup files
  <2>1. ToSet(stream') \subseteq ToSet(stream) \cup files
    BY <1>1, <1>2, <1>3 DEF ToSet
  <2>2. ToSet(stream) \subseteq ToSet(stream')
    BY <1>2, <1>3 DEF ToSet
  <2>3. ToSet(s) \subseteq ToSet(stream')
    <3> SUFFICES ASSUME NEW i \in DOMAIN s PROVE s[i] \in ToSet(stream')
      BY DEF ToSet
    <3>1. i + Len(stream) \in DOMAIN stream' /\ stream'[i + Len(stream)] = s[i]
      BY <1>3
    <3> QED BY <3>1, Zenon DEF ToSet
  <2> QED BY <1>1, <2>1, <2>2, <2>3
<1>5. \A i, j \in DOMAIN stream' : i < j => stream'[i] < stream'[j]
  <2> SUFFICES ASSUME NEW i \in DOMAIN stream', NEW j \in DOMAIN stream', i < j
               PROVE  stream'[i] < stream'[j]
    OBVIOUS
  <2>1. CASE j \in 1 .. Len(stream)
    <3>1. i \in 1 .. Len(stream)
      BY <1>2, <1>3, <2>1
    <3> QED BY <1>2, <1>3, <2>1, <3>1 DEF Moves, MessagesOK
  <2>2. CASE i \in 1 .. Len(stream) /\ j \in Len(stream) + 1 .. Len(stream')
    BY <1>2, <1>3, <2>2 DEF Moves, MessagesOK
  <2>3. CASE i \in Len(stream) + 1 .. Len(stream')
    <3>1. j \in Len(stream) + 1 .. Len(stream')
      BY <1>2, <1>3, <2>3
    <3> QED BY <1>1, <1>2, <1>3, <2>3, <3>1
  <2> QED BY <1>2, <1>3, <2>1, <2>2, <2>3
<1>6. \E b \in 1 .. piped' + 1 : files' = b .. piped'
  BY NothingLeft DEF Moves
<1>7. stream' \in Seq(Messages)
  BY <1>2
<1> QED BY <1>4, <1>5, <1>6, <1>7 DEF Moves, MessagesOK, ReadInOrder

\* What the directory holds is newer than the prompt: what is older was read.
LEMMA PromptRead ==
  ASSUME Moves, stream = << >>, read' = read \cup prompt, prompt' = {},
         UNCHANGED <<stream, dropped, files, piped>>
  PROVE  MessagesOK'
<1>1. ToSet(stream) = {}
  BY DEF ToSet
<1>2. ReadInOrder'
  <2> SUFFICES ASSUME NEW m \in prompt, NEW k \in Messages, k < m
               PROVE  k \in read \cup dropped \cup prompt
    BY DEF Moves, MessagesOK, ReadInOrder
  <2>1. m \in 1 .. piped /\ piped \in Nat
    BY DEF Moves, MessagesOK, DirOK
  <2>2. k \in 1 .. piped
    BY <2>1 DEF Messages
  <2>3. k \notin files
    BY <2>1, <2>2 DEF Moves, MessagesOK
  <2> QED BY <1>1, <2>2, <2>3 DEF Moves, MessagesOK
<1> QED BY <1>1, <1>2 DEF Moves, MessagesOK

\* So are the rest of the stream and the directory newer than its head.
LEMMA HeadRead ==
  ASSUME Moves, prompt = {}, stream # << >>,
         stream' = Tail(stream), read' = read \cup {Head(stream)},
         UNCHANGED <<prompt, dropped, files, piped>>
  PROVE  MessagesOK' /\ stream' \in Seq(Messages)
<1>1. /\ stream \in Seq(Messages) /\ stream' \in Seq(Messages)
      /\ 1 \in DOMAIN stream /\ Head(stream) = stream[1]
      /\ \A i \in DOMAIN stream : i # 1 => 1 < i /\ i - 1 \in DOMAIN stream'
                                           /\ stream'[i - 1] = stream[i]
      /\ \A i \in DOMAIN stream' : i + 1 \in DOMAIN stream /\ stream'[i] = stream[i + 1]
      /\ DOMAIN stream' \subseteq Nat /\ DOMAIN stream \subseteq Nat
  BY DEF Moves, InsideOK
<1>2. ToSet(stream) = {Head(stream)} \cup ToSet(stream')
  <2>1. ToSet(stream) \subseteq {Head(stream)} \cup ToSet(stream')
    <3> SUFFICES ASSUME NEW i \in DOMAIN stream, i # 1 PROVE stream[i] \in ToSet(stream')
      BY <1>1 DEF ToSet
    <3>1. i - 1 \in DOMAIN stream' /\ stream'[i - 1] = stream[i]
      BY <1>1
    <3> QED BY <3>1, Zenon DEF ToSet
  <2>2. {Head(stream)} \cup ToSet(stream') \subseteq ToSet(stream)
    BY <1>1 DEF ToSet
  <2> QED BY <2>1, <2>2
<1>3. \A m \in ToSet(stream) : m = Head(stream) \/ Head(stream) < m
  BY <1>1 DEF Moves, MessagesOK, ToSet
<1>4. ReadInOrder'
  <2> SUFFICES ASSUME NEW k \in Messages, k < Head(stream)
               PROVE  k \in read \cup dropped
    BY DEF Moves, MessagesOK, ReadInOrder
  <2>1. Head(stream) \in 1 .. piped /\ piped \in Nat
    BY <1>2 DEF Moves, MessagesOK, DirOK
  <2>2. k \in 1 .. piped
    BY <2>1 DEF Messages
  <2>3. k \notin files
    <3> SUFFICES ASSUME k \in files PROVE FALSE
      OBVIOUS
    <3>1. Head(stream) < k
      BY <1>2, Zenon DEF Moves, MessagesOK
    <3> QED BY <2>1, <2>2, <3>1
  <2>4. k \notin ToSet(stream)
    BY <1>3, <2>1, <2>2
  <2> QED BY <2>2, <2>3, <2>4 DEF Moves, MessagesOK
<1>5. \A i, j \in DOMAIN stream' : i < j => stream'[i] < stream'[j]
  BY <1>1 DEF Moves, MessagesOK
<1> QED BY <1>1, <1>2, <1>4, <1>5 DEF Moves, MessagesOK

\* A query that is given up takes its stream, and the prompt with it or not.
LEMMA HeldDropped ==
  ASSUME Moves, stream' = << >>, prompt' \subseteq prompt,
         dropped' = dropped \cup ToSet(stream) \cup (prompt \ prompt'),
         UNCHANGED <<read, files, piped>>
  PROVE  MessagesOK'
<1>1. ToSet(stream') = {}
  BY DEF ToSet
<1>2. ReadInOrder'
  BY DEF Moves, MessagesOK, ReadInOrder
<1>3. (read \cup dropped \cup prompt \cup ToSet(stream) \cup files)'
        = read \cup dropped \cup prompt \cup ToSet(stream) \cup files
  BY <1>1
<1>4. \A i, j \in DOMAIN stream' : i < j => stream'[i] < stream'[j]
  OBVIOUS
<1> QED BY <1>1, <1>2, <1>3, <1>4 DEF Moves, MessagesOK

\* A new message is the newest.
LEMMA MessageWritten ==
  ASSUME Moves, piped' = piped + 1, files' = files \cup {piped'},
         UNCHANGED <<stream, prompt, read, dropped>>
  PROVE  MessagesOK'
<1>1. piped \in Nat
  BY DEF Moves, DirOK
<1>2. PICK b \in 1 .. piped + 1 : files = b .. piped
  BY DEF Moves, MessagesOK
<1>3. b \in 1 .. piped' + 1 /\ files' = b .. piped'
  BY <1>1, <1>2
<1>4. (read \cup dropped \cup prompt \cup ToSet(stream) \cup files)' = 1 .. piped'
  <2>1. 1 .. piped' = 1 .. piped \cup {piped'}
    BY <1>1
  <2> QED BY <2>1 DEF Moves, MessagesOK
<1>5. \A m \in prompt \cup ToSet(stream) : m \in 1 .. piped
  BY DEF Moves, MessagesOK
<1>6. \A m \in prompt \cup ToSet(stream), f \in files' : m < f
  BY <1>1, <1>5 DEF Moves, MessagesOK
<1> QED BY <1>3, <1>4, <1>6 DEF Moves, MessagesOK, ReadInOrder

\* Nothing moves.
LEMMA NothingMoves ==
  ASSUME MessagesOK, UNCHANGED <<stream, prompt, read, dropped, files, piped>>
  PROVE  MessagesOK'
  BY DEF MessagesOK, ReadInOrder

(***************************************************************************)
(* The container: what it does to the chain of outputs                     *)
(***************************************************************************)
\* Every step of the container leaves the host alone but for its outputs.
LEMMA AgentWrites ==
  ASSUME AgentStep
  PROVE  /\ phase = "up" /\ agent.where # "exited" /\ UNCHANGED host
         /\ UNCHANGED chains \/ \E ks \in Seq(OutputKinds) : Write(ks)
<1> USE DEF Alive
<1>1. CASE Boot \/ ScriptWakes \/ Attach \/ Poll \/ OrphanPoll \/ QueryTakes \/ WaitPoll \/ Dies
  BY <1>1 DEF Boot, ScriptWakes, Attach, Poll, OrphanPoll, QueryTakes, WaitPoll, Dies
<1>2. CASE ScriptSkips
  <2>1. <<"null">> \in Seq(OutputKinds)
    BY DEF OutputKinds
  <2> QED BY <1>2, <2>1 DEF ScriptSkips
<1>3. CASE SetupThrows \/ StaleSession
  <2>1. <<"error">> \in Seq(OutputKinds)
    BY DEF OutputKinds
  <2> QED BY <1>3, <2>1, Zenon DEF SetupThrows, StaleSession, Caught
<1>4. CASE QueryEnds
  <2>1. << >> \in Seq(OutputKinds) /\ Append(<< >>, "null") \in Seq(OutputKinds)
    BY DEF OutputKinds
  <2> QED BY <1>4, <2>1, Zenon DEF QueryEnds, QueryReturns
<1>5. CASE QueryBreaks
  <2>1. <<"error">> \in Seq(OutputKinds) /\ Append(<<"error">>, "null") \in Seq(OutputKinds)
    BY DEF OutputKinds
  <2> QED BY <1>5, <2>1, Zenon DEF QueryBreaks, QueryReturns
<1>6. ASSUME NEW k \in OutputKinds, QueryEmits(k)
      PROVE  /\ phase = "up" /\ agent.where # "exited" /\ UNCHANGED host
             /\ \E ks \in Seq(OutputKinds) : Write(ks)
  <2>1. <<k>> \in Seq(OutputKinds)
    OBVIOUS
  <2> QED BY <1>6, <2>1, Zenon DEF QueryEmits
<1> QED BY <1>1, <1>2, <1>3, <1>4, <1>5, <1>6 DEF AgentStep

\* A run whose container writes is not over: its chain may grow.
LEMMA ChainGrows ==
  ASSUME Inv, phase = "up", NEW ks \in Seq(OutputKinds), Write(ks), UNCHANGED host
  PROVE  /\ ChainsOK' /\ ResultInv' /\ ResumeInv'
         /\ UNCHANGED <<late, idleTimer>>
<1>1. HostOK /\ ChainsOK /\ ResultInv /\ ResumeInv
  BY InvParts
<1>2. UNCHANGED <<sending, broken, sent, idleTimer, resume, late>>
  BY DEF Write
<1>3. /\ chain' \in [Runs -> Seq(OutputKinds)]
      /\ \A r \in Runs : chain[r] # << >> => chain'[r] # << >>
  <2>1. CASE broken
    BY <1>1, <2>1, Zenon DEF Write, ChainsOK
  <2>2. CASE ~ broken
    <3>1. chain' = [chain EXCEPT ![run] = @ \o ks] /\ run \in Runs
      BY <1>1, <2>2 DEF Write, ResultInv
    <3>2. chain[run] \in Seq(OutputKinds)
      BY <1>1, <3>1 DEF ChainsOK
    <3>3. /\ chain[run] \o ks \in Seq(OutputKinds)
          /\ chain[run] # << >> => chain[run] \o ks # << >>
      BY <3>2
    <3> QED BY <1>1, <3>1, <3>3 DEF ChainsOK
  <2> QED BY <2>1, <2>2
<1>4. hadOutput' \in BOOLEAN
  BY <1>1, Zenon DEF Write, ChainsOK
<1>5. ChainsOK'
  BY <1>1, <1>2, <1>3, <1>4, Zenon DEF ChainsOK
<1>6. ResultInv'
  BY <1>1, <1>2, <1>3, Zenon DEF host, ResultInv, SuccessMeansHandled, RowAgrees
<1>7. ResumeInv'
  BY <1>1, <1>2, Zenon DEF host, ResumeInv, FailedPositionForgotten
<1> QED BY <1>2, <1>5, <1>6, <1>7

LEMMA AgentChains ==
  ASSUME Inv, AgentStep
  PROVE  /\ HostOK' /\ ChainsOK' /\ ResultInv' /\ ResumeInv'
         /\ UNCHANGED <<host, late, idleTimer>>
<1>1. HostOK /\ ChainsOK /\ ResultInv /\ ResumeInv
  BY InvParts
<1>2. phase = "up" /\ UNCHANGED host
  BY AgentWrites
<1>3. HostOK'
  BY <1>1, <1>2, Zenon DEF host, HostOK
<1>4. CASE UNCHANGED chains
  <2>1. ChainsOK' /\ UNCHANGED <<late, idleTimer>>
    BY <1>1, <1>4, Zenon DEF chains, ChainsOK
  <2>2. ResultInv' /\ ResumeInv'
    BY <1>1, <1>2, <1>4, Zenon
       DEF host, chains, ResultInv, SuccessMeansHandled, RowAgrees, ResumeInv,
           FailedPositionForgotten
  <2> QED BY <1>2, <1>3, <2>1, <2>2
<1>5. ASSUME NEW ks \in Seq(OutputKinds), Write(ks)
      PROVE  /\ ChainsOK' /\ ResultInv' /\ ResumeInv'
             /\ UNCHANGED <<late, idleTimer>>
  BY <1>2, <1>5, ChainGrows
<1> QED BY <1>2, <1>3, <1>4, <1>5, AgentWrites

(***************************************************************************)
(* The container: its process                                              *)
(***************************************************************************)
LEMMA GoneType == \A ok \in BOOLEAN : Gone(ok) \in AgentType /\ Gone(ok).where = "exited"
                                      /\ ~ Gone(ok).orphan
  BY DEF Gone, AgentType

LEMMA BeginQueryType ==
  ASSUME agent \in AgentType, NEW more \in BOOLEAN, BeginQuery(more)
  PROVE  agent' \in AgentType /\ agent'.where = "setup"
<1>1. (agent.session \/ more) \in BOOLEAN
  OBVIOUS
<1> QED BY <1>1 DEF BeginQuery, AgentType

LEMMA MainReturnsType ==
  ASSUME agent \in AgentType
  PROVE  /\ MainReturns \in AgentType /\ MainReturns.where \in {"lingering", "exited"}
<1>1. CASE agent.orphan
  BY <1>1 DEF MainReturns, AgentType
<1>2. CASE ~ agent.orphan
  BY <1>2, GoneType DEF MainReturns
<1> QED BY <1>1, <1>2

\* After an exception the process is gone or sets a query up again.
LEMMA CaughtType ==
  ASSUME agent \in AgentType, NEW orphan \in BOOLEAN, Caught(orphan)
  PROVE  agent' \in AgentType /\ agent'.where \in {"setup", "exited"}
<1>1. CASE Retries
  <2>1. (agent.orphan \/ orphan) \in BOOLEAN
    OBVIOUS
  <2> QED BY <1>1, <2>1 DEF Caught, AgentType
<1>2. CASE ~ Retries
  BY <1>2, GoneType DEF Caught
<1> QED BY <1>1, <1>2

LEMMA QueryReturnsType ==
  ASSUME agent \in AgentType, NEW ks, QueryReturns(ks)
  PROVE  agent' \in AgentType /\ agent'.where \in {"wait", "lingering", "exited"}
<1>1. CASE agent.retried \/ agent.closed
  BY <1>1, MainReturnsType DEF QueryReturns
<1>2. CASE ~ (agent.retried \/ agent.closed)
  BY <1>2 DEF QueryReturns, AgentType
<1> QED BY <1>1, <1>2

\* The container never starts anew and has lost an orphan only with a query.
LEMMA AgentProcess ==
  ASSUME Inv, AgentStep
  PROVE  /\ agent' \in AgentType
         /\ agent'.where = "boot" => agent.where = "boot" /\ UNCHANGED agent
         /\ agent.where = "boot" /\ agent'.where \notin {"boot", "exited"} => Boot
<1>1. agent \in AgentType /\ (agent.orphan => agent.where # "boot")
  BY InvParts DEF InsideOK, OrderInv, PlacesOK
<1>2. CASE Boot
  BY <1>1, <1>2, BeginQueryType DEF Boot, AgentType
<1>3. CASE ScriptWakes
  BY <1>1, <1>3, BeginQueryType DEF ScriptWakes
<1>4. CASE ScriptSkips \/ Dies
  BY <1>4, GoneType DEF ScriptSkips, Dies
<1>5. CASE Attach
  BY <1>1, <1>5 DEF Attach, AgentType
<1>6. CASE Poll
  BY <1>1, <1>6 DEF Poll, Polling, AgentType
<1>7. CASE OrphanPoll
  <2>1. agent.where # "boot"
    BY <1>1, <1>7 DEF OrphanPoll
  <2>2. CASE agent' = Gone(TRUE)
    BY <2>1, <2>2, GoneType
  <2>3. CASE agent' = [agent EXCEPT !.orphan = FALSE]
    BY <1>1, <2>1, <2>3 DEF AgentType
  <2> QED BY <1>1, <1>7, <2>1, <2>2, <2>3, Zenon DEF OrphanPoll
<1>8. CASE SetupThrows \/ StaleSession
  <2>1. Polling \in BOOLEAN
    BY DEF Polling
  <2> QED BY <1>1, <1>8, <2>1, CaughtType DEF SetupThrows, StaleSession
<1>9. CASE QueryTakes
  BY <1>1, <1>9 DEF QueryTakes
<1>10. CASE QueryEnds \/ QueryBreaks
  BY <1>1, <1>10, QueryReturnsType DEF QueryEnds, QueryBreaks
<1>11. CASE WaitPoll
  BY <1>1, <1>11, MainReturnsType, BeginQueryType DEF WaitPoll
<1>12. CASE \E k \in OutputKinds : QueryEmits(k)
  <2>1. UNCHANGED agent /\ agent.where = "query"
    BY <1>12, Zenon DEF QueryEmits, inside
  <2> QED BY <1>1, <2>1
<1> QED BY <1>1, <1>2, <1>3, <1>4, <1>5, <1>6, <1>7, <1>8, <1>9, <1>10, <1>11, <1>12, Zenon DEF AgentStep

(***************************************************************************)
(* The container: the directory and the owner of a _close                  *)
(***************************************************************************)
\* A container takes what is there, or leaves it; a _close only once it has
\* unlinked the one it found.
LEMMA AgentTakes ==
  ASSUME AgentStep
  PROVE  /\ UNCHANGED <<piped, idleWaiting>> /\ files' \in {files, {}}
         /\ \/ UNCHANGED <<closeFor, foreign>>
            \/ closeFor' = {} /\ UNCHANGED foreign
            \/ TakeClose /\ (agent.where = "boot" => agent.orphan)
<1>1. CASE Boot
  BY <1>1, Zenon DEF Boot
<1>2. CASE ScriptWakes \/ ScriptSkips \/ Attach \/ SetupThrows \/ StaleSession \/ QueryTakes
           \/ QueryEnds \/ QueryBreaks \/ Dies
  BY <1>2, Zenon DEF ScriptWakes, ScriptSkips, Attach, SetupThrows, StaleSession, QueryTakes,
                     QueryEnds, QueryBreaks, Dies, TakeFiles, dir
<1>3. CASE Poll
  <2>1. agent.where # "boot"
    BY <1>3 DEF Poll, Polling
  <2> QED BY <1>3, <2>1, Zenon DEF Poll, TakeClose, TakeFiles, dir
<1>4. CASE OrphanPoll
  BY <1>4, Zenon DEF OrphanPoll, TakeClose, TakeFiles, dir
<1>5. CASE WaitPoll
  <2>1. agent.where # "boot"
    BY <1>5 DEF WaitPoll
  <2> QED BY <1>5, <2>1, Zenon DEF WaitPoll, TakeClose, TakeFiles, dir
<1>6. CASE \E k \in OutputKinds : QueryEmits(k)
  BY <1>6, Zenon DEF QueryEmits, dir, inside
<1> QED BY <1>1, <1>2, <1>3, <1>4, <1>5, <1>6, Zenon DEF AgentStep

LEMMA AgentClose ==
  ASSUME Inv, AgentStep
  PROVE  DirOK' /\ CloseInv' /\ foreign' \in BOOLEAN
<1>1. /\ DirOK /\ CloseInv /\ foreign \in BOOLEAN
      /\ agent.orphan => agent.where # "boot"
  BY InvParts DEF InsideOK, OrderInv, PlacesOK
<1>2. UNCHANGED <<late, idleTimer, run, phase>>
  BY AgentChains DEF host
<1>3. phase = "up" /\ agent.where # "exited"
  BY AgentWrites
<1>4. files' \subseteq Messages /\ UNCHANGED <<piped, idleWaiting>>
  BY <1>1, AgentTakes DEF DirOK
<1>5. late' \/ \A r \in Runs : idleTimer'[r] => r = run' /\ phase' # "idle"
  BY <1>1, <1>2, Zenon DEF CloseInv
<1>6. CASE UNCHANGED <<closeFor, foreign>>
  <2>1. CASE agent.where = "boot" /\ agent'.where \notin {"boot", "exited"}
    <3>1. closeFor' = {}
      BY <2>1, AgentProcess DEF Boot
    <3> QED BY <1>1, <1>2, <1>4, <1>5, <1>6, <3>1 DEF DirOK, CloseInv, CloseIsOwn
  <2>2. CASE ~ (agent.where = "boot" /\ agent'.where \notin {"boot", "exited"})
    BY <1>1, <1>2, <1>3, <1>4, <1>5, <1>6, <2>2 DEF DirOK, CloseInv, CloseIsOwn
  <2> QED BY <2>1, <2>2
<1>7. CASE closeFor' = {} /\ UNCHANGED foreign
  BY <1>1, <1>2, <1>4, <1>5, <1>7 DEF DirOK, CloseInv, CloseIsOwn
<1>8. CASE TakeClose /\ (agent.where = "boot" => agent.orphan)
  <2>1. late \/ (closeFor = {run} /\ run \in closeFor)
    BY <1>1, <1>3, <1>8 DEF CloseInv, TakeClose
  <2>2. closeFor' = {} /\ foreign' \in BOOLEAN /\ (foreign' => late)
    BY <1>1, <1>8, <2>1, Zenon DEF TakeClose, CloseInv, CloseIsOwn
  <2> QED BY <1>1, <1>2, <1>4, <1>5, <2>2 DEF DirOK, CloseInv, CloseIsOwn
<1> QED BY <1>6, <1>7, <1>8, AgentTakes

(***************************************************************************)
(* The container: the messages                                             *)
(***************************************************************************)
\* Where the messages are, and the types that go with it.
Placed == MessagesOK /\ stream \in Seq(Messages) /\ prompt \subseteq Messages
                     /\ read \subseteq Messages /\ dropped \subseteq Messages

\* The messages of an agent step, and the place of what is held.
LEMMA AgentMessages ==
  ASSUME Inv, AgentStep
  PROVE  Placed' /\ PlacesOK' /\ outputs' \in Nat
<1>1. Moves /\ PlacesOK /\ outputs \in Nat /\ agent \in AgentType
  BY InvParts DEF Moves, OrderInv, InsideOK
<1>2. phase = "up" /\ agent.where # "exited" /\ UNCHANGED phase
  BY AgentWrites DEF host
<1>3. /\ stream \in Seq(Messages) /\ files \subseteq Messages /\ prompt \subseteq Messages
      /\ read \subseteq Messages /\ dropped \subseteq Messages
      /\ ToSet(stream) \subseteq Messages
  BY <1>1 DEF Moves, DirOK, InsideOK, ToSet
<1>4. agent'.orphan => agent'.where # "boot"
  BY <1>1, AgentProcess DEF PlacesOK
<1>5. (prompt = {} \/ agent.where = "setup") /\ (stream = << >> \/ agent.where = "query")
  BY <1>1 DEF PlacesOK
<1>6. CASE Boot
  <2>1. prompt = {} /\ stream = << >>
    BY <1>5, <1>6 DEF Boot
  <2>2. CASE agent' = [agent EXCEPT !.where = "script"] /\ UNCHANGED <<files, prompt>>
    BY <1>1, <1>2, <1>3, <1>4, <1>6, <2>1, <2>2, NothingMoves DEF Boot, Placed, PlacesOK, Moves
  <2>3. CASE files' = {} /\ prompt' = files /\ BeginQuery(FALSE)
    <3>1. agent'.where = "setup"
      BY <1>1, <2>3, BeginQueryType
    <3>2. MessagesOK'
      BY <1>1, <1>6, <2>1, <2>3, TakenToPrompt DEF Boot
    <3> QED BY <1>1, <1>2, <1>3, <1>4, <1>6, <2>1, <2>3, <3>1, <3>2 DEF Boot, Placed, PlacesOK
  <2> QED BY <1>1, <1>6, <2>2, <2>3 DEF Boot
<1>7. CASE ScriptWakes
  <2>1. prompt = {} /\ stream = << >>
    BY <1>5, <1>7 DEF ScriptWakes
  <2>2. agent'.where = "setup"
    BY <1>1, <1>7, BeginQueryType DEF ScriptWakes
  <2>3. MessagesOK'
    BY <1>1, <1>7, <2>1, TakenToPrompt DEF ScriptWakes, TakeFiles
  <2> QED BY <1>1, <1>2, <1>3, <1>4, <1>7, <2>1, <2>2, <2>3 DEF ScriptWakes, Placed, PlacesOK
<1>8. CASE ScriptSkips
  <2>1. prompt = {} /\ stream = << >>
    BY <1>5, <1>8 DEF ScriptSkips
  <2> QED BY <1>1, <1>2, <1>3, <1>4, <1>8, <2>1, NothingMoves
          DEF ScriptSkips, dir, Placed, PlacesOK, Moves
<1>9. CASE Attach
  <2>1. stream = << >>
    BY <1>5, <1>9 DEF Attach
  <2>2. MessagesOK'
    BY <1>1, <1>9, <2>1, PromptRead DEF Attach, dir
  <2> QED BY <1>1, <1>2, <1>3, <1>4, <1>9, <2>1, <2>2 DEF Attach, Placed, PlacesOK
<1>10. CASE Poll
  <2>1. CASE TakeClose /\ UNCHANGED <<stream, dropped>>
             /\ agent' = [agent EXCEPT !.closed = TRUE, !.ended = agent.where = "query"]
    <3>1. agent'.where = agent.where
      BY <1>1, <2>1 DEF AgentType
    <3> QED BY <1>1, <1>2, <1>3, <1>4, <1>10, <2>1, <3>1, NothingMoves
            DEF Poll, TakeClose, Placed, PlacesOK, Moves
  <2>2. CASE TakeFiles /\ agent.where = "query" /\ stream' = stream \o InOrder(files)
             /\ UNCHANGED <<dropped, agent>>
    <3>1. MessagesOK' /\ stream' \in Seq(Messages)
      BY <1>1, <1>10, <2>2, TakenToStream DEF Poll, TakeFiles
    <3> QED BY <1>1, <1>2, <1>3, <1>4, <1>10, <2>2, <3>1 DEF Poll, Placed, PlacesOK
  <2>3. CASE TakeFiles /\ dropped' = dropped \cup files /\ UNCHANGED <<stream, agent>>
    <3>1. MessagesOK'
      BY <1>1, <1>10, <2>3, TakenToNobody DEF Poll, TakeFiles
    <3> QED BY <1>1, <1>2, <1>3, <1>4, <1>10, <2>3, <3>1 DEF Poll, Placed, PlacesOK
  <2> QED BY <1>10, <2>1, <2>2, <2>3, Zenon DEF Poll
<1>11. CASE OrphanPoll
  <2>1. CASE TakeClose /\ UNCHANGED dropped
             /\ agent' = IF agent.where = "lingering" THEN Gone(TRUE)
                         ELSE [agent EXCEPT !.orphan = FALSE]
    <3>1. (agent'.where = agent.where) \/ (agent.where = "lingering")
      BY <1>1, <2>1 DEF AgentType
    <3> QED BY <1>1, <1>2, <1>3, <1>4, <1>11, <2>1, <3>1, NothingMoves
            DEF OrphanPoll, TakeClose, Placed, PlacesOK, Moves
  <2>2. CASE TakeFiles /\ dropped' = dropped \cup files /\ UNCHANGED agent
    <3>1. MessagesOK'
      BY <1>1, <1>11, <2>2, TakenToNobody DEF OrphanPoll, TakeFiles
    <3> QED BY <1>1, <1>2, <1>3, <1>4, <1>11, <2>2, <3>1 DEF OrphanPoll, Placed, PlacesOK
  <2> QED BY <1>11, <2>1, <2>2, Zenon DEF OrphanPoll
<1>12. CASE SetupThrows \/ StaleSession
  <2>1. PICK orphan \in BOOLEAN : Caught(orphan)
    BY <1>12 DEF SetupThrows, StaleSession, Polling
  <2>2. /\ stream' = << >> /\ prompt' \subseteq prompt
        /\ dropped' = dropped \cup ToSet(stream) \cup (prompt \ prompt')
        /\ prompt' # {} => agent'.where = "setup"
    <3>1. CASE Retries
      <4>1. agent'.where = "setup"
        BY <1>1, <2>1, <3>1 DEF Caught, AgentType
      <4> QED BY <2>1, <3>1, <4>1 DEF Caught
    <3>2. CASE ~ Retries
      BY <2>1, <3>2 DEF Caught
    <3> QED BY <3>1, <3>2
  <2>3. UNCHANGED <<read, files, piped, outputs>>
    BY <1>12, Zenon DEF SetupThrows, StaleSession, dir
  <2>4. MessagesOK'
    BY <1>1, <2>2, <2>3, HeldDropped
  <2> QED BY <1>1, <1>2, <1>3, <1>4, <2>2, <2>3, <2>4 DEF Placed, PlacesOK
<1>13. CASE QueryTakes
  <2>1. prompt = {} /\ stream # << >>
    BY <1>5, <1>13 DEF QueryTakes
  <2>2. MessagesOK' /\ stream' \in Seq(Messages)
    BY <1>1, <1>13, <2>1, HeadRead DEF QueryTakes, dir
  <2>3. Head(stream) \in Messages
    BY <1>3, <2>1
  <2> QED BY <1>1, <1>2, <1>3, <1>4, <1>13, <2>1, <2>2, <2>3 DEF QueryTakes, Placed, PlacesOK
<1>14. CASE QueryEnds
  <2>1. prompt = {} /\ stream = << >>
    BY <1>5, <1>14 DEF QueryEnds
  <2> QED BY <1>1, <1>2, <1>3, <1>4, <1>14, <2>1, NothingMoves
          DEF QueryEnds, dir, Placed, PlacesOK, Moves
<1>15. CASE QueryBreaks
  <2>1. prompt = {}
    BY <1>5, <1>15 DEF QueryBreaks
  <2>2. MessagesOK'
    BY <1>1, <1>15, <2>1, HeldDropped DEF QueryBreaks, dir
  <2> QED BY <1>1, <1>2, <1>3, <1>4, <1>15, <2>1, <2>2 DEF QueryBreaks, Placed, PlacesOK
<1>16. CASE WaitPoll
  <2>1. prompt = {} /\ stream = << >>
    BY <1>5, <1>16 DEF WaitPoll
  <2>2. CASE TakeClose /\ UNCHANGED prompt
    BY <1>1, <1>2, <1>3, <1>4, <1>16, <2>1, <2>2, NothingMoves
       DEF WaitPoll, TakeClose, Placed, PlacesOK, Moves
  <2>3. CASE TakeFiles /\ prompt' = files /\ BeginQuery(TRUE)
    <3>1. agent'.where = "setup"
      BY <1>1, <2>3, BeginQueryType
    <3>2. MessagesOK'
      BY <1>1, <1>16, <2>1, <2>3, TakenToPrompt DEF WaitPoll, TakeFiles
    <3> QED BY <1>1, <1>2, <1>3, <1>4, <1>16, <2>1, <2>3, <3>1, <3>2
            DEF WaitPoll, Placed, PlacesOK
  <2> QED BY <1>16, <2>2, <2>3, Zenon DEF WaitPoll
<1>17. CASE Dies
  <2>1. MessagesOK'
    BY <1>1, <1>17, HeldDropped DEF Dies, dir
  <2>2. /\ stream' = << >> /\ prompt' = {} /\ UNCHANGED <<read, outputs>>
        /\ dropped' = dropped \cup ToSet(stream) \cup prompt
    BY <1>17, Zenon DEF Dies
  <2> QED BY <1>1, <1>2, <1>3, <1>4, <2>1, <2>2 DEF Placed, PlacesOK
<1>18. CASE \E k \in OutputKinds : QueryEmits(k)
  <2>1. outputs' = outputs + 1 /\ UNCHANGED <<files, piped, agent, stream, prompt, read, dropped>>
    BY <1>18, Zenon DEF QueryEmits, dir, inside
  <2> QED BY <1>1, <1>2, <1>3, <2>1, NothingMoves DEF Placed, PlacesOK, Moves
<1> QED BY <1>6, <1>7, <1>8, <1>9, <1>10, <1>11, <1>12, <1>13, <1>14, <1>15, <1>16, <1>17,
           <1>18, Zenon DEF AgentStep

LEMMA AgentInv == ASSUME Inv, AgentStep PROVE Inv'
<1>1. HostOK' /\ ChainsOK' /\ ResultInv' /\ ResumeInv'
  BY AgentChains
<1>2. DirOK' /\ CloseInv' /\ foreign' \in BOOLEAN
  BY AgentClose
<1>3. Placed' /\ PlacesOK' /\ outputs' \in Nat
  BY AgentMessages
<1>4. agent' \in AgentType
  BY AgentProcess
<1>5. InsideOK' /\ OrderInv'
  BY <1>2, <1>3, <1>4 DEF Placed, InsideOK, OrderInv
<1> QED BY <1>1, <1>2, <1>3, <1>5, InvParts

(***************************************************************************)
(* The host: piping and closing                                            *)
(***************************************************************************)
\* What the host leaves as it is in the container.
LEMMA InsideKept ==
  ASSUME Inv, UNCHANGED <<inside, outputs, files, piped>>, phase' = "up" \/ agent.where = "exited"
  PROVE  InsideOK' /\ OrderInv' /\ outputs' \in Nat
<1>1. InsideOK /\ PlacesOK /\ MessagesOK /\ outputs \in Nat
  BY InvParts DEF OrderInv
<1>2. MessagesOK'
  BY <1>1, NothingMoves DEF inside
<1>3. PlacesOK' /\ InsideOK'
  BY <1>1, Zenon DEF PlacesOK, InsideOK, inside
<1> QED BY <1>1, <1>2, <1>3 DEF OrderInv

LEMMA HostKept ==
  ASSUME Inv, UNCHANGED <<host, chains>>
  PROVE  HostOK' /\ ChainsOK' /\ ResultInv' /\ ResumeInv'
<1>1. HostOK /\ ChainsOK /\ ResultInv /\ ResumeInv
  BY InvParts
<1>2. HostOK' /\ ChainsOK'
  BY <1>1, Zenon DEF host, chains, HostOK, ChainsOK
<1>3. ResultInv' /\ ResumeInv'
  BY <1>1, Zenon DEF host, chains, ResultInv, SuccessMeansHandled, RowAgrees, ResumeInv,
                     FailedPositionForgotten
<1> QED BY <1>2, <1>3

\* A _close on behalf of a run that goes on, or of one that is late.
LEMMA CloseWritten ==
  ASSUME Inv, NEW r \in Runs, CloseStdin(r) \/ UNCHANGED closeFor,
         late => late', late' \/ r = run, UNCHANGED <<run, phase, agent, foreign>>,
         late' \/ \A q \in Runs : idleTimer'[q] => q = run /\ phase # "idle"
  PROVE  closeFor' \subseteq Runs /\ CloseInv'
<1>1. closeFor' \subseteq closeFor \cup {r}
  BY DEF CloseStdin
<1>2. CloseInv /\ closeFor \subseteq Runs
  BY InvParts DEF DirOK
<1> QED BY <1>1, <1>2 DEF CloseInv, CloseIsOwn

LEMMA PipeInv ==
  ASSUME Inv, SendMessage \/ TaskArrives \/ \E r \in Runs : IdleTimeout(r)
  PROVE  Inv'
<1>1. /\ HostOK /\ ChainsOK /\ DirOK /\ InsideOK /\ outputs \in Nat
      /\ OrderInv /\ CloseInv /\ ResultInv /\ ResumeInv
  BY InvParts
<1>2. UNCHANGED <<host, inside, outputs>> /\ UNCHANGED <<phase, run, agent, foreign>>
  BY Zenon DEF SendMessage, TaskArrives, IdleTimeout, host, inside
<1>3. phase' = "up" \/ agent.where = "exited"
  BY <1>1, <1>2 DEF OrderInv, PlacesOK
<1>4. CASE SendMessage
  <2>1. HostOK' /\ ChainsOK' /\ ResultInv' /\ ResumeInv'
    BY <1>4, HostKept DEF SendMessage
  <2>2. piped' \in 0 .. MaxMessages /\ files' \subseteq Messages
    BY <1>1, <1>4, BoundsAssumption DEF SendMessage, DirOK, Messages
  <2>3. DirOK' /\ CloseInv'
    BY <1>1, <1>2, <1>4, <2>2, Zenon DEF SendMessage, chains, DirOK, CloseInv, CloseIsOwn
  <2>4. MessagesOK'
    BY <1>1, <1>4, MessageWritten DEF SendMessage, inside, Moves, OrderInv
  <2>5. PlacesOK' /\ InsideOK' /\ outputs' \in Nat
    BY <1>1, <1>2, Zenon DEF OrderInv, PlacesOK, InsideOK, inside
  <2> QED BY <2>1, <2>3, <2>4, <2>5, InvParts DEF OrderInv
<1>5. CASE TaskArrives
  <2>1. HostOK' /\ ChainsOK' /\ ResultInv' /\ ResumeInv'
    BY <1>5, HostKept DEF TaskArrives
  <2>2. UNCHANGED <<late, idleTimer, files, piped, idleWaiting>> /\ CloseStdin(run)
    BY <1>5, Zenon DEF TaskArrives, chains
  <2>3. late' \/ \A q \in Runs : idleTimer'[q] => q = run /\ phase # "idle"
    BY <1>1, <2>2 DEF CloseInv
  <2>4. closeFor' \subseteq Runs /\ CloseInv'
    <3>1. CASE run \in Runs
      BY <1>2, <2>2, <2>3, <3>1, CloseWritten
    <3>2. CASE run \notin Runs
      <4>1. UNCHANGED closeFor
        BY <1>1, <2>2, <3>2 DEF CloseStdin, ResultInv
      <4> QED BY <1>1, <1>2, <2>2, <4>1, Zenon DEF DirOK, CloseInv, CloseIsOwn
    <3> QED BY <3>1, <3>2
  <2>5. DirOK'
    BY <1>1, <2>2, <2>4 DEF DirOK
  <2>6. InsideOK' /\ OrderInv' /\ outputs' \in Nat
    BY <1>2, <1>3, <2>2, InsideKept
  <2> QED BY <2>1, <2>4, <2>5, <2>6, InvParts
<1>6. ASSUME NEW r \in Runs, IdleTimeout(r) PROVE Inv'
  <2>1. /\ idleTimer[r] /\ idleTimer' = [idleTimer EXCEPT ![r] = FALSE] /\ CloseStdin(r)
        /\ UNCHANGED <<hadOutput, chain, sending, broken, sent, resume, late>>
        /\ UNCHANGED <<files, piped, idleWaiting>>
    BY <1>6 DEF IdleTimeout
  <2>2. /\ idleTimer' \in [Runs -> BOOLEAN]
        /\ \A q \in Runs : idleTimer'[q] => idleTimer[q]
    BY <1>1, <2>1 DEF ChainsOK
  <2>3. HostOK' /\ ChainsOK' /\ ResultInv' /\ ResumeInv'
    <3>1. HostOK' /\ ChainsOK'
      BY <1>1, <1>2, <2>1, <2>2, Zenon DEF host, HostOK, ChainsOK
    <3>2. ResultInv' /\ ResumeInv'
      BY <1>1, <1>2, <2>1, Zenon DEF host, ResultInv, SuccessMeansHandled, RowAgrees, ResumeInv,
                                     FailedPositionForgotten
    <3> QED BY <3>1, <3>2
  <2>4. late' \/ \A q \in Runs : idleTimer'[q] => q = run /\ phase # "idle"
    BY <1>1, <2>1, <2>2 DEF CloseInv
  <2>5. late' \/ r = run
    BY <1>1, <2>1 DEF CloseInv
  <2>6. closeFor' \subseteq Runs /\ CloseInv'
    BY <1>2, <2>1, <2>4, <2>5, CloseWritten
  <2>7. DirOK'
    BY <1>1, <2>1, <2>6 DEF DirOK
  <2>8. InsideOK' /\ OrderInv' /\ outputs' \in Nat
    BY <1>2, <1>3, <2>1, InsideKept
  <2> QED BY <2>3, <2>6, <2>7, <2>8, InvParts
<1> QED BY <1>4, <1>5, <1>6

(***************************************************************************)
(* The host: callbacks                                                     *)
(***************************************************************************)
LEMMA ChainShortened ==
  ASSUME ChainsOK, NEW r \in Runs, chain[r] # << >>, chain' = [chain EXCEPT ![r] = Tail(@)]
  PROVE  /\ chain' \in [Runs -> Seq(OutputKinds)]
         /\ \A q \in Runs \ {r} : chain'[q] = chain[q]
<1>1. chain[r] \in Seq(OutputKinds)
  BY DEF ChainsOK
<1>2. Tail(chain[r]) \in Seq(OutputKinds)
  BY <1>1
<1> QED BY <1>2 DEF ChainsOK

\* A callback of run r that takes its position over or arms its timer: both
\* belong to the run that goes on, or the callback is late.
LEMMA CallbackInv ==
  ASSUME Inv, NEW r \in Runs, UNCHANGED <<host, inside, outputs>>,
         chain[r] # << >>, late' = (late \/ Ended(r)),
         chain' \in [Runs -> Seq(OutputKinds)], sending' \in [Runs -> BOOLEAN],
         idleTimer' \in [Runs -> BOOLEAN],
         hadOutput' \in BOOLEAN, sent' \in BOOLEAN,
         UNCHANGED broken, resume' \in {resume, r},
         \A q \in Runs \ {r} : /\ chain'[q] = chain[q] /\ sending'[q] = sending[q]
                               /\ idleTimer'[q] = idleTimer[q],
         sending'[r] => chain'[r] # << >>,
         UNCHANGED dir \/ NotifyIdle(r)
  PROVE  Inv'
<1>1. /\ HostOK /\ ChainsOK /\ DirOK /\ InsideOK /\ outputs \in Nat
      /\ OrderInv /\ CloseInv /\ ResultInv /\ ResumeInv
  BY InvParts
<1>2. UNCHANGED <<run, phase, result, row, failed, from, agent, foreign>>
  BY Zenon DEF host, inside
<1>3. /\ late' \in BOOLEAN /\ late => late'
      /\ late' \/ (r = run /\ phase # "idle" /\ result = "none")
  BY Zenon DEF Ended
<1>4. HostOK' /\ ChainsOK'
  <2>1. HostOK'
    BY <1>1, Zenon DEF host, HostOK
  <2>2. resume' \in 0 .. MaxRuns
    BY <1>1, BoundsAssumption DEF ChainsOK, Runs
  <2>3. broken' \in BOOLEAN
    BY <1>1, Zenon DEF ChainsOK
  <2> QED BY <1>3, <2>1, <2>2, <2>3, Zenon DEF ChainsOK
<1>5. ResultInv'
  <2>1. result = "success" => r # run /\ run \in Runs
    BY <1>1 DEF ResultInv, SuccessMeansHandled
  <2>2. SuccessMeansHandled'
    BY <1>1, <1>2, <2>1 DEF ResultInv, SuccessMeansHandled
  <2>3. \A q \in Runs : sending'[q] => chain'[q] # << >>
    BY <1>1 DEF ResultInv
  <2> QED BY <1>1, <1>2, <2>2, <2>3, Zenon DEF ResultInv, RowAgrees
<1>6. ResumeInv'
  BY <1>1, <1>2, <1>3 DEF ResumeInv, FailedPositionForgotten
<1>7. /\ CloseStdin(r) \/ UNCHANGED closeFor
      /\ UNCHANGED <<files, piped>> /\ idleWaiting' \in BOOLEAN
  BY <1>1, Zenon DEF NotifyIdle, dir, DirOK
<1>8. late' \/ \A q \in Runs : idleTimer'[q] => q = run /\ phase # "idle"
  BY <1>1, <1>3 DEF CloseInv
<1>9. closeFor' \subseteq Runs /\ CloseInv'
  BY <1>2, <1>3, <1>7, <1>8, CloseWritten
<1>10. DirOK'
  BY <1>1, <1>7, <1>9 DEF DirOK
<1>11. InsideOK' /\ OrderInv' /\ outputs' \in Nat
  <2>1. phase' = "up" \/ agent.where = "exited"
    BY <1>1, <1>2 DEF OrderInv, PlacesOK
  <2> QED BY <1>7, <2>1, InsideKept
<1> QED BY <1>4, <1>5, <1>6, <1>9, <1>10, <1>11, InvParts

LEMMA OutputInv ==
  ASSUME Inv, NEW r \in Runs, Callback(r) \/ Sent(r)
  PROVE  Inv'
<1>1. ChainsOK /\ ResultInv
  BY InvParts
<1>2. hadOutput \in BOOLEAN /\ sent \in BOOLEAN /\ idleTimer \in [Runs -> BOOLEAN]
      /\ chain \in [Runs -> Seq(OutputKinds)] /\ sending \in [Runs -> BOOLEAN]
  BY <1>1, Zenon DEF ChainsOK
<1>3. CASE Callback(r)
  <2>1. /\ UNCHANGED <<host, inside, hadOutput, broken, sent, idleTimer, outputs>>
        /\ chain[r] # << >> /\ ~ sending[r] /\ late' = (late \/ Ended(r)) /\ resume' = r
    BY <1>3, Zenon DEF Callback
  <2>2. CASE /\ sending' = [sending EXCEPT ![r] = TRUE]
             /\ UNCHANGED <<chain, dir>>
    <3>1. /\ sending' \in [Runs -> BOOLEAN]
          /\ \A q \in Runs \ {r} : sending'[q] = sending[q]
      BY <1>2, <2>2
    <3> QED BY <1>2, <2>1, <2>2, <3>1, CallbackInv
  <2>3. CASE /\ chain' = [chain EXCEPT ![r] = Tail(@)] /\ UNCHANGED sending
             /\ UNCHANGED dir \/ NotifyIdle(r)
    <3>1. /\ chain' \in [Runs -> Seq(OutputKinds)]
          /\ \A q \in Runs \ {r} : chain'[q] = chain[q]
      BY <1>1, <2>1, <2>3, ChainShortened
    <3> QED BY <1>2, <2>1, <2>3, <3>1, CallbackInv
  <2> QED BY <1>3, <2>2, <2>3 DEF Callback
<1>4. CASE Sent(r)
  <2>1. /\ UNCHANGED <<host, inside, hadOutput, broken, resume, outputs>>
        /\ chain[r] # << >> /\ late' = (late \/ Ended(r)) /\ NotifyIdle(r)
        /\ chain' = [chain EXCEPT ![r] = Tail(@)]
        /\ sending' = [sending EXCEPT ![r] = FALSE]
        /\ idleTimer' = [idleTimer EXCEPT ![r] = TRUE]
    BY <1>1, <1>4, Zenon DEF Sent, ResultInv
  <2>2. sent' \in BOOLEAN
    BY <1>4, Zenon DEF Sent
  <2>3. /\ sending' \in [Runs -> BOOLEAN] /\ idleTimer' \in [Runs -> BOOLEAN] /\ ~ sending'[r]
        /\ \A q \in Runs \ {r} : sending'[q] = sending[q] /\ idleTimer'[q] = idleTimer[q]
    BY <1>2, <2>1
  <2>4. /\ chain' \in [Runs -> Seq(OutputKinds)]
        /\ \A q \in Runs \ {r} : chain'[q] = chain[q]
    BY <1>1, <2>1, ChainShortened
  <2> QED BY <1>2, <2>1, <2>2, <2>3, <2>4, CallbackInv
<1> QED BY <1>3, <1>4

LEMMA SendFailsInv ==
  ASSUME Inv, NEW r \in Runs, SendFails(r)
  PROVE  Inv'
<1>1. /\ HostOK /\ ChainsOK /\ DirOK /\ CloseInv /\ ResultInv /\ ResumeInv
      /\ OrderInv
  BY InvParts
<1>2. /\ sending[r] /\ sending' = [sending EXCEPT ![r] = FALSE]
      /\ chain' = [chain EXCEPT ![r] = << >>]
      /\ UNCHANGED <<host, dir, inside, hadOutput, sent, idleTimer, resume, late, outputs>>
  BY DEF SendFails
<1>3. broken' \in BOOLEAN /\ (r # run /\ ~ broken => ~ broken')
  BY Zenon DEF SendFails
<1>4. /\ sending' \in [Runs -> BOOLEAN] /\ chain' \in [Runs -> Seq(OutputKinds)]
      /\ \A q \in Runs : sending'[q] => sending[q] /\ q # r
      /\ \A q \in Runs \ {r} : chain'[q] = chain[q]
  BY <1>1, <1>2 DEF ChainsOK
<1>5. HostOK' /\ ChainsOK' /\ DirOK'
  BY <1>1, <1>2, <1>3, <1>4, Zenon DEF host, dir, HostOK, ChainsOK, DirOK
<1>6. UNCHANGED <<run, phase, result, row, failed, from, agent, foreign, closeFor, files, piped>>
  BY <1>2, Zenon DEF host, inside, dir
<1>7. ResultInv'
  <2>1. result = "success" => r # run /\ run \in Runs
    BY <1>1, <1>2 DEF ResultInv, SuccessMeansHandled
  <2>2. SuccessMeansHandled'
    <3>1. ASSUME result = "success" PROVE chain'[run] = << >> /\ ~ sending'[run] /\ ~ broken'
      BY <1>1, <1>3, <1>4, <2>1, <3>1, Zenon DEF ResultInv, SuccessMeansHandled
    <3> QED BY <1>6, <3>1, Zenon DEF SuccessMeansHandled
  <2>3. \A q \in Runs : sending'[q] => chain'[q] # << >>
    BY <1>1, <1>4 DEF ResultInv
  <2> QED BY <1>1, <1>6, <2>2, <2>3, Zenon DEF ResultInv, RowAgrees
<1>8. ResumeInv' /\ CloseInv'
  BY <1>1, <1>2, <1>6, Zenon DEF ResumeInv, FailedPositionForgotten, CloseInv, CloseIsOwn
<1>9. InsideOK' /\ OrderInv' /\ outputs' \in Nat
  <2>1. phase' = "up" \/ agent.where = "exited"
    BY <1>1, <1>6 DEF OrderInv, PlacesOK
  <2> QED BY <1>2, <1>6, <2>1, InsideKept
<1> QED BY <1>5, <1>7, <1>8, <1>9, InvParts

(***************************************************************************)
(* The host: the end of a run                                              *)
(***************************************************************************)
\* The phase and the row on the way to the end: what is decided there is the
\* outcome, and a success only with a chain that is handled.
LEMMA EndingInv ==
  ASSUME Inv, UNCHANGED <<crashes, run, from, failed, chains, dir, inside, outputs>>,
         timedOut' \in BOOLEAN, phase # "idle", phase' # "idle",
         phase' = "up" => phase = "up", phase' # "up" => agent.where = "exited",
         \/ phase' \in {"up", "closing"} /\ result' = "none"
            /\ row' \in RowStatus \ {"spawn_error"}
         \/ phase' = "resolved" /\ result' = "error" /\ row' \in {"failed", "timeout"}
         \/ phase' = "resolved" /\ result' = "success" /\ row' = "completed"
            /\ chain[run] = << >> /\ ~ broken
  PROVE  Inv'
<1>1. /\ HostOK /\ ChainsOK /\ DirOK /\ CloseInv /\ ResultInv /\ ResumeInv /\ OrderInv
  BY InvParts
<1>2. HostOK'
  BY <1>1, Zenon DEF HostOK, RowStatus
<1>3. ChainsOK' /\ DirOK'
  BY <1>1, Zenon DEF chains, dir, ChainsOK, DirOK
<1>4. UNCHANGED <<chain, sending, broken, late, idleTimer, resume, agent, foreign, closeFor,
                  files, piped>>
  BY Zenon DEF chains, dir, inside
<1>5. run \in Runs
  BY <1>1 DEF ResultInv
<1>6. ResultInv'
  <2>1. SuccessMeansHandled'
    BY <1>1, <1>4, <1>5 DEF ResultInv, SuccessMeansHandled
  <2>2. RowAgrees'
    BY DEF RowAgrees, RowStatus
  <2>3. \A r \in Runs : sending'[r] => chain'[r] # << >>
    BY <1>1, <1>4 DEF ResultInv
  <2>4. row' = "spawn_error" => result' = "error"
    OBVIOUS
  <2>5. phase' \in {"up", "closing"} => result' = "none"
    OBVIOUS
  <2> QED BY <1>5, <2>1, <2>2, <2>3, <2>4, <2>5, Zenon DEF ResultInv
<1>7. ResumeInv' /\ CloseInv'
  BY <1>1, <1>4 DEF ResumeInv, FailedPositionForgotten, CloseInv, CloseIsOwn
<1>8. InsideOK' /\ OrderInv' /\ outputs' \in Nat
  BY <1>4, InsideKept
<1> QED BY <1>2, <1>3, <1>6, <1>7, <1>8, InvParts

LEMMA CloseInvs ==
  ASSUME Inv, HardTimeout \/ HostClose \/ Settle
  PROVE  Inv'
<1>1. HostOK /\ ResultInv /\ PlacesOK
  BY InvParts DEF OrderInv
<1>2. timedOut' \in BOOLEAN
  BY <1>1, Zenon DEF HardTimeout, HostClose, Settle, HostOK
<1>3. row \in RowStatus /\ (phase \in {"up", "closing"} => row # "spawn_error" /\ result = "none")
  BY <1>1 DEF HostOK, ResultInv
<1>4. CASE HardTimeout
  BY <1>1, <1>2, <1>3, <1>4, EndingInv DEF HardTimeout
<1>5. CASE HostClose
  BY <1>1, <1>2, <1>3, <1>5, EndingInv
     DEF HostClose, ClosedByTimeout, ClosedByExit, TimeoutStatus, Resolve, RowStatus
<1>6. CASE Settle
  BY <1>1, <1>2, <1>3, <1>6, EndingInv
     DEF Settle, ChainSettled, ChainError, Resolve, PlacesOK
<1> QED BY <1>4, <1>5, <1>6

LEMMA LateCloseInv == ASSUME Inv, LateClose PROVE Inv'
<1>1. /\ HostOK /\ ChainsOK /\ DirOK /\ CloseInv /\ ResultInv /\ ResumeInv /\ OrderInv
  BY InvParts
<1>2. /\ row = "spawn_error" /\ row' = "failed"
      /\ UNCHANGED <<phase, timedOut, result, crashes, run, from, failed, chains, dir, inside,
                     outputs>>
  BY DEF LateClose
<1>3. HostOK' /\ ChainsOK' /\ DirOK'
  <2>1. row' \in RowStatus
    BY <1>2 DEF RowStatus
  <2> QED BY <1>1, <1>2, <2>1, Zenon DEF HostOK, chains, dir, ChainsOK, DirOK
<1>4. UNCHANGED <<chain, sending, broken, late, idleTimer, resume, agent, foreign, closeFor,
                  files, piped>>
  BY <1>2, Zenon DEF chains, dir, inside
<1>5. ResultInv' /\ ResumeInv' /\ CloseInv'
  <2>1. RowAgrees'
    BY <1>1, <1>2 DEF ResultInv, RowAgrees, RowStatus
  <2>2. SuccessMeansHandled'
    BY <1>1, <1>2, <1>4, Zenon DEF ResultInv, SuccessMeansHandled
  <2> QED BY <1>1, <1>2, <1>4, <2>1, <2>2
          DEF ResultInv, ResumeInv, FailedPositionForgotten, CloseInv, CloseIsOwn
<1>6. InsideOK' /\ OrderInv' /\ outputs' \in Nat
  BY <1>1, <1>2, <1>4, InsideKept DEF OrderInv, PlacesOK
<1> QED BY <1>3, <1>5, <1>6, InvParts

\* With its slot a run that failed gives its resume position back.
LEMMA EndRunInv == ASSUME Inv, EndRun PROVE Inv'
<1>1. /\ HostOK /\ ChainsOK /\ DirOK /\ CloseInv /\ ResultInv /\ ResumeInv /\ OrderInv
  BY InvParts
<1>2. /\ phase = "resolved" /\ phase' = "idle" /\ idleWaiting' = FALSE
      /\ idleTimer' = [idleTimer EXCEPT ![run] = FALSE]
      /\ UNCHANGED <<timedOut, result, row, crashes, run, from, hadOutput,
                     chain, sending, broken, sent, late, files, closeFor, piped,
                     inside, outputs>>
  BY DEF EndRun
<1>3. \/ result = "error" /\ resume' = 0 /\ failed' = failed \cup {run}
      \/ result # "error" /\ UNCHANGED <<resume, failed>>
  BY DEF EndRun, ForgetsPosition
<1>4. run \in Runs /\ MaxRuns \in Nat
  BY <1>1, <1>2, BoundsAssumption DEF ResultInv
<1>5. idleTimer' \in [Runs -> BOOLEAN] /\ \A q \in Runs : idleTimer'[q] => idleTimer[q] /\ q # run
  BY <1>1, <1>2, <1>4 DEF ChainsOK
<1>6. HostOK' /\ ChainsOK' /\ DirOK'
  <2>1. failed' \subseteq Runs
    BY <1>1, <1>3, <1>4 DEF HostOK
  <2>2. resume' \in 0 .. MaxRuns
    BY <1>1, <1>3, <1>4 DEF ChainsOK
  <2> QED BY <1>1, <1>2, <1>5, <2>1, <2>2, Zenon DEF HostOK, ChainsOK, DirOK
<1>7. UNCHANGED <<agent, foreign>> /\ agent.where = "exited"
  BY <1>1, <1>2 DEF inside, OrderInv, PlacesOK
<1>8. ResultInv'
  BY <1>1, <1>2, <1>4, Zenon DEF ResultInv, SuccessMeansHandled, RowAgrees
<1>9. ResumeInv'
  <2>1. failed' \subseteq 1 .. run
    <3>1. run \in 1 .. run
      BY <1>4 DEF Runs
    <3> QED BY <1>1, <1>3, <3>1 DEF ResumeInv
  <2>2. 0 \notin failed'
    BY <2>1
  <2> QED BY <1>1, <1>2, <1>3, <2>1, <2>2 DEF ResumeInv, FailedPositionForgotten
<1>10. CloseInv'
  <2>1. late \/ \A q \in Runs : ~ idleTimer'[q]
    BY <1>1, <1>5 DEF CloseInv
  <2> QED BY <1>1, <1>2, <1>7, <2>1 DEF CloseInv, CloseIsOwn
<1>11. InsideOK' /\ OrderInv' /\ outputs' \in Nat
  BY <1>2, <1>7, InsideKept
<1> QED BY <1>6, <1>8, <1>9, <1>10, <1>11, InvParts

(***************************************************************************)
(* The host: the beginning of a run, and a crash                           *)
(***************************************************************************)
LEMMA StartRunInv == ASSUME Inv, NEW s \in BOOLEAN, StartRun(s) PROVE Inv'
<1>1. /\ HostOK /\ ChainsOK /\ DirOK /\ InsideOK /\ CloseInv /\ ResultInv /\ ResumeInv
      /\ OrderInv
  BY InvParts
<1>2. agent' = [Gone(TRUE) EXCEPT !.where = "boot", !.session = s \/ resume # 0]
  BY DEF StartRun
<1>3. /\ phase = "idle" /\ run < MaxRuns /\ run' = run + 1 /\ phase' = "up"
      /\ timedOut' = FALSE /\ hadOutput' = FALSE /\ outputs' = 0 /\ from' = resume
      /\ row' = "running" /\ result' = "none" /\ broken' = FALSE /\ sent' = FALSE
      /\ stream' = << >> /\ prompt' = {} /\ idleWaiting' = FALSE
      /\ UNCHANGED <<chain, sending, idleTimer, resume, late, failed, crashes, files, closeFor,
                     piped, read, dropped, foreign>>
  BY DEF StartRun
<1>4. run' \in Runs /\ run \in Nat /\ 1 .. run \subseteq 1 .. run' /\ run' \notin 1 .. run
  BY <1>1, <1>3, BoundsAssumption DEF HostOK, Runs
<1>5. agent' \in AgentType /\ agent'.where = "boot" /\ ~ agent'.orphan
  <2>1. (s \/ resume # 0) \in BOOLEAN
    OBVIOUS
  <2> QED BY <1>2, <2>1 DEF Gone, AgentType
<1>6. stream = << >> /\ prompt = {}
  BY <1>1, <1>3 DEF OrderInv, PlacesOK
<1>7. HostOK'
  <2>1. run' \in 0 .. MaxRuns
    BY <1>4, BoundsAssumption DEF Runs
  <2> QED BY <1>1, <1>3, <2>1, Zenon DEF HostOK, ChainsOK, RowStatus
<1>8. ChainsOK' /\ DirOK'
  BY <1>1, <1>3, Zenon DEF ChainsOK, DirOK
<1>9. ResultInv'
  BY <1>1, <1>3, <1>4, Zenon DEF ResultInv, SuccessMeansHandled, RowAgrees
<1>10. ResumeInv'
  BY <1>1, <1>3, <1>4 DEF ResumeInv, FailedPositionForgotten
<1>11. CloseInv'
  BY <1>1, <1>3, <1>5 DEF CloseInv, CloseIsOwn
<1>12. OrderInv'
  <2>1. MessagesOK'
    BY <1>1, <1>3, <1>6, NothingMoves DEF OrderInv
  <2> QED BY <1>3, <1>5, <2>1 DEF OrderInv, PlacesOK
<1>13. InsideOK' /\ outputs' \in Nat
  BY <1>1, <1>3, <1>5, <1>6 DEF InsideOK
<1> QED BY <1>7, <1>8, <1>9, <1>10, <1>11, <1>12, <1>13, InvParts

LEMMA SpawnErrorInv == ASSUME Inv, SpawnError PROVE Inv'
<1>1. /\ HostOK /\ ChainsOK /\ DirOK /\ InsideOK /\ outputs \in Nat
      /\ CloseInv /\ ResultInv /\ ResumeInv /\ OrderInv
  BY InvParts
<1>2. /\ phase = "up" /\ agent.where = "boot" /\ agent' = Gone(FALSE)
      /\ row' = "spawn_error" /\ result' = "error" /\ phase' = "resolved"
      /\ UNCHANGED <<timedOut, crashes, run, from, failed, chains, dir,
                     stream, prompt, read, dropped, foreign, outputs>>
  BY DEF SpawnError, Resolve
<1>3. agent' \in AgentType /\ agent'.where = "exited" /\ ~ agent'.orphan
  BY <1>2, GoneType
<1>4. UNCHANGED <<chain, sending, broken, late, idleTimer, resume, closeFor, files, piped>>
  BY <1>2, Zenon DEF chains, dir
<1>5. HostOK' /\ ChainsOK' /\ DirOK'
  BY <1>1, <1>2, Zenon DEF chains, dir, HostOK, ChainsOK, DirOK, RowStatus
<1>6. ResultInv'
  <2>1. RowAgrees'
    BY <1>2 DEF RowAgrees, RowStatus
  <2>2. SuccessMeansHandled'
    BY <1>2 DEF SuccessMeansHandled
  <2> QED BY <1>1, <1>2, <1>4, <2>1, <2>2 DEF ResultInv
<1>7. ResumeInv' /\ CloseInv'
  BY <1>1, <1>2, <1>3, <1>4 DEF ResumeInv, FailedPositionForgotten, CloseInv, CloseIsOwn
<1>8. OrderInv'
  <2>1. stream = << >> /\ prompt = {}
    BY <1>1, <1>2 DEF OrderInv, PlacesOK
  <2>2. MessagesOK'
    BY <1>1, <1>2, <1>4, NothingMoves DEF OrderInv
  <2> QED BY <1>2, <1>3, <2>1, <2>2 DEF OrderInv, PlacesOK
<1>9. InsideOK' /\ outputs' \in Nat
  BY <1>1, <1>2, <1>3, Zenon DEF InsideOK
<1> QED BY <1>5, <1>6, <1>7, <1>8, <1>9, InvParts

LEMMA HostCrashInv == ASSUME Inv, HostCrash PROVE Inv'
<1>1. /\ HostOK /\ ChainsOK /\ DirOK /\ InsideOK /\ outputs \in Nat
      /\ CloseInv /\ ResultInv /\ ResumeInv /\ OrderInv
  BY InvParts
<1>2. /\ phase # "idle" /\ phase' = "idle" /\ hadOutput' = FALSE
      /\ chain' = [r \in Runs |-> << >>]
      /\ sending' = [r \in Runs |-> FALSE] /\ idleTimer' = [r \in Runs |-> FALSE]
      /\ resume' = 0 /\ idleWaiting' = FALSE /\ agent' = Gone(FALSE)
      /\ stream' = << >> /\ prompt' = {} /\ dropped' = dropped \cup ToSet(stream) \cup prompt
      /\ UNCHANGED <<timedOut, result, row, run, from, failed, broken,
                     sent, late, files, closeFor, piped, read, foreign, outputs>>
  BY DEF HostCrash
<1>3. agent' \in AgentType /\ agent'.where = "exited" /\ ~ agent'.orphan
  BY <1>2, GoneType
<1>4. run \in Runs /\ 0 \in 0 .. MaxRuns
  BY <1>1, <1>2, BoundsAssumption DEF ResultInv
<1>5. HostOK' /\ ChainsOK' /\ DirOK'
  <2>1. crashes' \in 0 .. MaxCrashes
    BY <1>1, BoundsAssumption DEF HostCrash, HostOK
  <2>2. /\ chain' \in [Runs -> Seq(OutputKinds)]
        /\ sending' \in [Runs -> BOOLEAN] /\ idleTimer' \in [Runs -> BOOLEAN]
    BY <1>2
  <2> QED BY <1>1, <1>2, <1>4, <2>1, <2>2, Zenon DEF HostOK, ChainsOK, DirOK
<1>6. ResultInv'
  <2>1. \A r \in Runs : chain'[r] = << >> /\ ~ sending'[r]
    BY <1>2
  <2> QED BY <1>1, <1>2, <1>4, <2>1 DEF ResultInv, SuccessMeansHandled, RowAgrees
<1>7. ResumeInv'
  <2>1. 0 \notin failed
    BY <1>1 DEF ResumeInv
  <2> QED BY <1>1, <1>2, <2>1 DEF ResumeInv, FailedPositionForgotten
<1>8. CloseInv'
  <2>1. \A q \in Runs : ~ idleTimer'[q]
    BY <1>2
  <2> QED BY <1>1, <1>2, <1>3, <2>1 DEF CloseInv, CloseIsOwn
<1>9. OrderInv'
  <2>1. MessagesOK'
    BY <1>1, <1>2, HeldDropped DEF OrderInv, Moves
  <2> QED BY <1>2, <1>3, <2>1 DEF OrderInv, PlacesOK
<1>10. InsideOK' /\ outputs' \in Nat
  <2>1. ToSet(stream) \subseteq Messages
    BY <1>1 DEF InsideOK, ToSet
  <2>2. dropped' \subseteq Messages /\ stream' \in Seq(Messages)
    BY <1>1, <1>2, <2>1 DEF InsideOK
  <2> QED BY <1>1, <1>2, <1>3, <2>2, Zenon DEF InsideOK
<1> QED BY <1>5, <1>6, <1>7, <1>8, <1>9, <1>10, InvParts

(***************************************************************************)
(* Every step keeps the invariant                                          *)
(***************************************************************************)
LEMMA InitInv == Init => Inv
<1> SUFFICES ASSUME Init PROVE Inv
  OBVIOUS
<1>1. HostOK
  <2>1. 0 \in 0 .. MaxRuns /\ 0 \in 0 .. MaxCrashes
    BY BoundsAssumption
  <2> QED BY <2>1, Zenon DEF Init, HostOK, RowStatus
<1>2. ChainsOK /\ DirOK
  <2>1. 0 \in 0 .. MaxRuns /\ 0 \in 0 .. MaxMessages
    BY BoundsAssumption
  <2>2. /\ chain \in [Runs -> Seq(OutputKinds)]
        /\ sending \in [Runs -> BOOLEAN] /\ idleTimer \in [Runs -> BOOLEAN]
    BY DEF Init
  <2> QED BY <2>1, <2>2, Zenon DEF Init, ChainsOK, DirOK
<1>3. agent \in AgentType /\ agent.where = "exited" /\ ~ agent.orphan
  BY GoneType DEF Init
<1>4. InsideOK /\ outputs \in Nat
  <2>1. stream \in Seq(Messages) /\ outputs \in Nat
    BY DEF Init
  <2> QED BY <1>3, <2>1, Zenon DEF Init, InsideOK
<1>5. ToSet(stream) = {}
  BY DEF Init, ToSet
<1>6. OrderInv
  <2>1. \E b \in 1 .. piped + 1 : files = b .. piped
    <3>1. 1 \in 1 .. piped + 1 /\ files = 1 .. piped
      BY DEF Init
    <3> QED BY <3>1
  <2>2. MessagesOK
    BY <1>5, <2>1 DEF Init, MessagesOK, ReadInOrder
  <2> QED BY <1>3, <2>2 DEF Init, OrderInv, PlacesOK
<1>7. CloseInv /\ ResultInv /\ ResumeInv
  BY <1>3 DEF Init, CloseInv, CloseIsOwn, ResultInv, SuccessMeansHandled, RowAgrees, ResumeInv,
              FailedPositionForgotten
<1> QED BY <1>1, <1>2, <1>4, <1>6, <1>7, InvParts

LEMMA NextInv == ASSUME Inv, [Next]_vars PROVE Inv'
<1>1. CASE UNCHANGED vars
  <2>1. UNCHANGED <<host, chains, dir, inside, outputs>>
    BY <1>1 DEF vars
  <2>2. HostOK' /\ ChainsOK' /\ ResultInv' /\ ResumeInv'
    BY <2>1, HostKept
  <2>3. UNCHANGED <<files, piped, phase, agent>>
    BY <2>1, Zenon DEF dir, host, inside
  <2>4. phase' = "up" \/ agent.where = "exited"
    BY <2>3, InvParts DEF OrderInv, PlacesOK
  <2>5. InsideOK' /\ OrderInv' /\ outputs' \in Nat
    BY <2>1, <2>3, <2>4, InsideKept
  <2>6. DirOK' /\ CloseInv'
    BY <2>1, InvParts, Zenon DEF host, chains, dir, inside, DirOK, CloseInv, CloseIsOwn
  <2> QED BY <2>2, <2>5, <2>6, InvParts
<1>2. CASE AgentStep
  BY <1>2, AgentInv
<1>3. CASE HostStep
  BY <1>3, StartRunInv, PipeInv, OutputInv, SendFailsInv, LateCloseInv, CloseInvs,
     SpawnErrorInv, EndRunInv, HostCrashInv, Zenon DEF HostStep
<1> QED BY <1>1, <1>2, <1>3 DEF Next

LEMMA Invariance == Spec => []Inv
<1>1. Init => Inv
  BY InitInv
<1>2. Inv /\ [Next]_vars => Inv'
  BY NextInv
<1> QED BY <1>1, <1>2, PTL DEF Spec

(***************************************************************************)
(* Theorems                                                                *)
(***************************************************************************)
\* Every variable keeps its type, whatever the container does and whenever the
\* host dies.
THEOREM TypeCorrect == Spec => []TypeOK
<1>1. Inv => TypeOK
  BY DEF Inv
<1> QED BY <1>1, Invariance, PTL

\* No agent is given a message before an older one that is still to be given:
\* over the directory, the stream, retries and containers.
THEOREM MessagesReadInOrder == Spec => []ReadInOrder
<1>1. Inv => ReadInOrder
  BY DEF Inv, OrderInv, MessagesOK
<1> QED BY <1>1, Invariance, PTL

\* Without late outputs no container obeys the _close of another one.
THEOREM EveryCloseIsOwn == Spec => []CloseIsOwn
<1>1. Inv => CloseIsOwn
  BY DEF Inv, CloseInv
<1> QED BY <1>1, Invariance, PTL

\* A success has handled all its outputs.
THEOREM SuccessIsHandled == Spec => []SuccessMeansHandled
<1>1. Inv => SuccessMeansHandled
  BY DEF Inv, ResultInv
<1> QED BY <1>1, Invariance, PTL

\* runtime_containers says how a run ended.
THEOREM RowIsOutcome == Spec => []RowAgrees
<1>1. Inv => RowAgrees
  BY DEF Inv, ResultInv
<1> QED BY <1>1, Invariance, PTL

\* Without late outputs no run starts from the position of one that failed.
THEOREM NoFailedPosition == Spec => []FailedPositionForgotten
<1>1. Inv => FailedPositionForgotten
  BY DEF Inv, ResumeInv
<1> QED BY <1>1, Invariance, PTL
=============================================================================
