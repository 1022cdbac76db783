-------------------------- MODULE IpcWatcherProofs --------------------------
(* Types, the order of the requests and the wiring they are judged by, for  *)
(* any number of groups, chats, requests, moves and kills.                  *)
EXTENDS IpcWatcher, FiniteSetTheorems, WellFoundedInduction, TLAPS

(***************************************************************************)
(* The inductive invariant                                                 *)
(***************************************************************************)
ForChat == {"send", "schedule", "register"}
ForTask == {"pause", "resume", "update", "cancel"}

\* A file names a chat or a task there is, and was written by now; none is older
\* than what was handled of its directory, and no two have one name.
FileOK(p, f) ==
  /\ f \in Files /\ f.tick \in last[p] .. now
  /\ f.kind \in ForChat => f.arg \in Chats
  /\ f.kind \in ForTask => f.arg \in DOMAIN tasks

Distinct(S) == \A f, o \in S : <<f.tick, f.suffix>> = <<o.tick, o.suffix>> => f = o

InboxOK ==
  /\ DOMAIN inbox = Places
  /\ \A p \in Places : IsFiniteSet(inbox[p]) /\ Distinct(inbox[p])
  /\ \A p \in Places : \A f \in inbox[p] : FileOK(p, f)

ClockOK ==
  /\ now \in 1 .. MaxTicks /\ written \in 0 .. MaxFiles
  /\ last \in [Places -> 0 .. MaxTicks] /\ \A p \in Places : last[p] <= now

\* What is still to be handled of the directory gone over: each file is there,
\* each once, and an older one that is there comes before it.
ListingOK ==
  /\ listing \in Seq(Files) /\ place \in Places
  /\ \A i \in DOMAIN listing : listing[i] \in inbox[place]
  /\ \A i, j \in DOMAIN listing : i # j => listing[i] # listing[j]
  /\ \A i \in DOMAIN listing, o \in inbox[place] :
       \/ o.tick >= listing[i].tick
       \/ \E j \in DOMAIN listing : j < i /\ listing[j] = o

\* What a row of a task may be, of these groups.
Rows(A) == [group : A, status : Statuses]

TablesOK ==
  /\ agents \subseteq Groups /\ Main \in agents
  /\ wired \in [Chats -> agents \cup {Nobody}] /\ map \in [Chats -> agents \cup {Nobody}]
  /\ tasks \in Seq(Rows(agents))
  /\ paused \in BOOLEAN

PhaseOK ==
  /\ phase \in {"off", "idle", "pass", "file", "waiting", "handled"}
  /\ todo \subseteq Places
  /\ phase \in {"waiting", "handled"} => listing # << >>

\* During a pass the wiring of its beginning differs from the current one in the
\* chats that were moved and in no other.
MapOK ==
  /\ moved \subseteq Chats
  /\ phase \notin {"off", "idle"} => \A c \in Chats \ moved : map[c] = wired[c]

Inv == InboxOK /\ ClockOK /\ ListingOK /\ TablesOK /\ PhaseOK /\ MapOK

(***************************************************************************)
(* The files of a directory in the order of their names                    *)
(***************************************************************************)
Rank(f) == 2 * f.tick + f.suffix

LEMMA RankType == ASSUME NEW f \in Files PROVE Rank(f) \in Nat
  BY DEF Rank, Files

LEMMA RankOrder ==
  ASSUME NEW S \in SUBSET Files, Distinct(S), NEW f \in S, NEW o \in S, f # o,
         ~ (Rank(o) < Rank(f))
  PROVE  ByName(f, o)
<1>1. /\ f.tick \in Nat /\ o.tick \in Nat /\ f.suffix \in {0, 1} /\ o.suffix \in {0, 1}
  BY DEF Files
<1>2. ~ (f.tick = o.tick /\ f.suffix = o.suffix)
  BY Zenon DEF Distinct
<1> QED BY <1>1, <1>2 DEF Rank, ByName

\* The oldest file of a set that is not empty.
LEMMA Oldest ==
  ASSUME NEW S \in SUBSET Files, S # {}
  PROVE  \E m \in S : \A f \in S : ~ (Rank(f) < Rank(m))
<1> DEFINE K == {Rank(f) : f \in S}
<1>1. K \subseteq Nat /\ K # {}
  BY RankType
<1>2. \E x \in K : \A y \in K : ~ (<<y, x>> \in OpToRel(<, Nat))
  BY <1>1, NatLessThanWellFounded, WFMin, Zenon
<1> QED BY <1>1, <1>2 DEF OpToRel

SortedOver(n, s, S) ==
  /\ s \in [1 .. n -> S]
  /\ \A i, j \in 1 .. n : i < j => ByName(s[i], s[j])
  /\ \A f \in S : \E i \in 1 .. n : s[i] = f

Sortable(S) == \E n \in Nat : \E s : SortedOver(n, s, S)

LEMMA AddOldest ==
  ASSUME NEW S \in SUBSET Files, Distinct(S), NEW m \in S,
         \A f \in S : ~ (Rank(f) < Rank(m)), Sortable(S \ {m})
  PROVE  Sortable(S)
<1>1. PICK n \in Nat : \E s : SortedOver(n, s, S \ {m})
  BY DEF Sortable
<1>2. PICK s : SortedOver(n, s, S \ {m})
  BY <1>1
<1> DEFINE u == [i \in 1 .. n + 1 |-> IF i = 1 THEN m ELSE s[i - 1]]
<1>3. \A i \in 1 .. n : s[i] \in S /\ ByName(m, s[i])
  <2> SUFFICES ASSUME NEW i \in 1 .. n PROVE s[i] \in S /\ ByName(m, s[i])
    OBVIOUS
  <2>1. s[i] \in S /\ s[i] # m
    BY <1>2 DEF SortedOver
  <2> QED BY <2>1, RankOrder
<1>4. u \in [1 .. n + 1 -> S]
  BY <1>3
<1>5. ASSUME NEW i \in 1 .. n + 1, NEW j \in 1 .. n + 1, i < j PROVE ByName(u[i], u[j])
  <2>1. j - 1 \in 1 .. n /\ u[j] = s[j - 1]
    BY <1>5
  <2>2. CASE i = 1
    BY <1>3, <2>1, <2>2
  <2>3. CASE i # 1
    <3>1. i - 1 \in 1 .. n /\ u[i] = s[i - 1] /\ i - 1 < j - 1
      BY <1>5, <2>3
    <3> QED BY <1>2, <2>1, <3>1 DEF SortedOver
  <2> QED BY <2>2, <2>3
<1>6. ASSUME NEW f \in S PROVE \E i \in 1 .. n + 1 : u[i] = f
  <2>1. CASE f = m
    BY <2>1
  <2>2. CASE f # m
    <3>1. PICK i \in 1 .. n : s[i] = f
      BY <1>2, <2>2 DEF SortedOver
    <3>2. i + 1 \in 1 .. n + 1 /\ u[i + 1] = f
      BY <3>1
    <3> QED BY <3>2
  <2> QED BY <2>1, <2>2
<1> HIDE DEF u
<1>7. SortedOver(n + 1, u, S)
  BY <1>4, <1>5, <1>6 DEF SortedOver
<1> QED BY <1>7 DEF Sortable

LEMMA FinitelySortable ==
  ASSUME NEW S \in SUBSET Files, IsFiniteSet(S), Distinct(S)
  PROVE  Sortable(S)
<1> DEFINE T == {A \in SUBSET S : ~ Sortable(A)}
<1>1. SUFFICES ASSUME T # {} PROVE FALSE
  BY <1>1
<1>2. T \subseteq FiniteSubsetsOf(S)
  BY FS_Subset DEF FiniteSubsetsOf
<1>3. PICK A \in T : \A B \in T : ~ (<<B, A>> \in StrictSubsetOrdering(S))
  BY <1>1, <1>2, FS_StrictSubsetOrderingWellFounded, WFMin, Zenon
<1>4. A \in SUBSET Files /\ A \subseteq S /\ Distinct(A) /\ ~ Sortable(A)
  BY <1>3 DEF Distinct
<1>5. A # {}
  <2>1. SortedOver(0, [i \in 1 .. 0 |-> i], {})
    BY DEF SortedOver
  <2> QED BY <1>4, <2>1 DEF Sortable
<1>6. PICK m \in A : \A f \in A : ~ (Rank(f) < Rank(m))
  BY <1>4, <1>5, Oldest
<1>7. Sortable(A \ {m})
  <2>1. <<A \ {m}, A>> \in StrictSubsetOrdering(S) /\ A \ {m} \in SUBSET S
    BY <1>4, <1>6 DEF StrictSubsetOrdering
  <2> QED BY <1>3, <2>1
<1> QED BY <1>4, <1>6, <1>7, AddOldest

\* The listing has each file of the directory once, in the order of the names.
LEMMA Listed ==
  ASSUME NEW S \in SUBSET Files, IsFiniteSet(S), Distinct(S)
  PROVE  /\ InNameOrder(S) \in Seq(S)
         /\ \A f \in S : \E i \in DOMAIN InNameOrder(S) : InNameOrder(S)[i] = f
         /\ \A i, j \in DOMAIN InNameOrder(S) :
              i < j => ByName(InNameOrder(S)[i], InNameOrder(S)[j])
<1> DEFINE s == InNameOrder(S)
           c == Cardinality(S)
<1>1. c \in Nat
  BY FS_CardinalityType
<1>2. \E w \in SetToSeqs(S) : \A i, j \in DOMAIN w : i < j => ByName(w[i], w[j])
  <2>1. PICK n \in Nat : \E w : SortedOver(n, w, S)
    BY FinitelySortable DEF Sortable
  <2>2. PICK w : SortedOver(n, w, S)
    BY <2>1
  <2>3. \A i, j \in 1 .. n : i # j => w[i] # w[j]
    <3> SUFFICES ASSUME NEW i \in 1 .. n, NEW j \in 1 .. n, i # j PROVE w[i] # w[j]
      OBVIOUS
    <3>1. ByName(w[i], w[j]) \/ ByName(w[j], w[i])
      BY <2>2 DEF SortedOver
    <3>2. w[i] \in Files
      BY <2>2 DEF SortedOver
    <3>3. ~ ByName(w[i], w[i])
      BY <3>2 DEF ByName, Files
    <3> QED BY <3>1, <3>3
  <2>4. w \in Injection(1 .. n, S) /\ w \in Surjection(1 .. n, S)
    BY <2>2, <2>3 DEF SortedOver, Injection, IsInjective, Surjection
  <2>5. IsFiniteSet(1 .. n) /\ Cardinality(1 .. n) = n
    <3>1. 1 \in Int /\ n \in Int
      OBVIOUS
    <3>2. IsFiniteSet(1 .. n) /\ Cardinality(1 .. n) = IF 1 > n THEN 0 ELSE n - 1 + 1
      BY <3>1, FS_Interval, Zenon
    <3> QED BY <3>2
  <2>6. c = n
    BY <2>4, <2>5, FS_Surjection
  <2> QED BY <2>2, <2>3, <2>6 DEF SetToSeqs, SortedOver
<1>3. s \in SetToSeqs(S) /\ \A i, j \in DOMAIN s : i < j => ByName(s[i], s[j])
  BY <1>2, Zenon DEF InNameOrder
<1> HIDE DEF s
<1>4. s \in [1 .. c -> S] /\ \A i, j \in 1 .. c : i # j => s[i] # s[j]
  BY <1>3 DEF SetToSeqs
<1>5. s \in Surjection(1 .. c, S)
  <2>1. s \in Injection(1 .. c, S)
    BY <1>4 DEF Injection, IsInjective
  <2>2. Cardinality(1 .. c) = c
    <3>1. 1 \in Int /\ c \in Int
      BY <1>1
    <3>2. Cardinality(1 .. c) = IF 1 > c THEN 0 ELSE c - 1 + 1
      BY <3>1, FS_Interval, Zenon
    <3> QED BY <1>1, <3>2
  <2> QED BY <2>1, <2>2, FS_Injection
<1>6. DOMAIN s = 1 .. c /\ \A f \in S : \E i \in 1 .. c : s[i] = f
  BY <1>4, <1>5 DEF Surjection
<1>7. s \in Seq(S)
  BY <1>1, <1>4
<1> QED BY <1>3, <1>6, <1>7 DEF s

(***************************************************************************)
(* Steps on the directories                                                *)
(***************************************************************************)
\* What the tables, the clock and the listing leave alone.
LEMMA InboxKept ==
  ASSUME InboxOK, ClockOK, inbox' = inbox, last' = last, now' \in Nat, now' >= now,
         DOMAIN tasks \subseteq DOMAIN tasks'
  PROVE  InboxOK'
<1> SUFFICES ASSUME NEW p \in Places, NEW f \in inbox[p] PROVE FileOK(p, f)'
  BY Zenon DEF InboxOK, Distinct
<1>1. FileOK(p, f) /\ last[p] \in Nat /\ now \in Nat
  BY DEF InboxOK, ClockOK
<1> QED BY <1>1 DEF FileOK

LEMMA ListingKept == ASSUME ListingOK, UNCHANGED <<inbox, place, listing>> PROVE ListingOK'
  BY DEF ListingOK

\* The file at hand is in the directory, and none there is older.
LEMMA AtHand ==
  ASSUME Inv, listing # << >>
  PROVE  /\ place \in Places /\ F \in inbox[place] /\ F \in Files /\ FileOK(place, F)
         /\ \A o \in inbox[place] : o.tick >= F.tick
<1>1. 1 \in DOMAIN listing /\ F = listing[1] /\ \A j \in DOMAIN listing : ~ (j < 1)
  BY DEF Inv, ListingOK, F
<1>2. place \in Places /\ F \in inbox[place] /\ \A o \in inbox[place] : o.tick >= F.tick
  BY <1>1 DEF Inv, ListingOK
<1> QED BY <1>2 DEF Inv, InboxOK, FileOK

\* A handler: the files stay, the newest one handled is the one at hand.
LEMMA HandlerInv ==
  ASSUME Inv, phase = "file", listing # << >>, phase' \in {"waiting", "handled"},
         last' = [last EXCEPT ![place] = F.tick],
         UNCHANGED <<agentVars, todo, place, listing>>,
         DOMAIN tasks \subseteq DOMAIN tasks', TablesOK', MapOK'
  PROVE  Inv' /\ \A p \in Places : last'[p] >= last[p]
<1>1. /\ place \in Places /\ F \in inbox[place] /\ FileOK(place, F) /\ F.tick \in 1 .. MaxTicks
      /\ \A o \in inbox[place] : o.tick >= F.tick
  BY AtHand DEF Files
<1>2. last'[place] = F.tick /\ \A p \in Places \ {place} : last'[p] = last[p]
  BY <1>1 DEF Inv, ClockOK
<1>3. F.tick >= last[place] /\ F.tick <= now /\ \A p \in Places : last[p] \in Nat
  BY <1>1 DEF Inv, ClockOK, FileOK
<1>4. ClockOK'
  BY <1>1, <1>2, <1>3 DEF Inv, ClockOK, agentVars
<1>5. InboxOK'
  <2>1. \A p \in Places : IsFiniteSet(inbox'[p]) /\ Distinct(inbox'[p])
    BY Zenon DEF Inv, InboxOK, agentVars
  <2>2. ASSUME NEW p \in Places, NEW f \in inbox[p] PROVE FileOK(p, f)'
    <3>1. FileOK(p, f) /\ f.tick \in Nat /\ now \in Nat
      BY DEF Inv, InboxOK, FileOK, Files, ClockOK
    <3>2. f.tick >= last'[p] /\ last'[p] \in Nat
      BY <1>1, <1>2, <1>3, <3>1 DEF FileOK
    <3> QED BY <3>1, <3>2 DEF FileOK, agentVars
  <2> QED BY <2>1, <2>2 DEF Inv, InboxOK, agentVars
<1>6. ListingOK' /\ PhaseOK'
  BY ListingKept DEF Inv, PhaseOK, agentVars
<1>7. \A p \in Places : last'[p] >= last[p]
  BY <1>2, <1>3
<1> QED BY <1>4, <1>5, <1>6, <1>7 DEF Inv

\* The file at hand is gone from its directory and from the listing.
LEMMA GoneInv ==
  ASSUME Inv, listing # << >>, Gone,
         UNCHANGED <<tableVars, now, written, map, todo, place, historyVars>>, phase \notin {"off", "idle"}
  PROVE  Inv'
<1>1. /\ place \in Places /\ F \in inbox[place] /\ F = listing[1] /\ 1 \in DOMAIN listing
  BY AtHand DEF Inv, ListingOK, F
<1>2. /\ DOMAIN inbox' = Places
      /\ inbox'[place] = inbox[place] \ {F}
      /\ \A p \in Places \ {place} : inbox'[p] = inbox[p]
  BY <1>1 DEF Inv, InboxOK, Gone
<1>3. InboxOK'
  <2>1. ASSUME NEW p \in Places PROVE IsFiniteSet(inbox'[p]) /\ Distinct(inbox'[p])
    <3>1. IsFiniteSet(inbox[p]) /\ Distinct(inbox[p])
      BY DEF Inv, InboxOK
    <3>2. inbox'[p] = inbox[p] \/ inbox'[p] = inbox[p] \ {F}
      BY <1>2
    <3>3. IsFiniteSet(inbox[p] \ {F})
      <4>1. \A S, x : IsFiniteSet(S) => IsFiniteSet(S \ {x})
        BY FS_RemoveElement
      <4> QED BY <3>1, <4>1
    <3>4. Distinct(inbox[p] \ {F})
      BY <3>1 DEF Distinct
    <3> QED BY <3>1, <3>2, <3>3, <3>4, Zenon
  <2>2. ASSUME NEW p \in Places, NEW f \in inbox'[p] PROVE FileOK(p, f)'
    <3>1. f \in inbox[p]
      BY <1>2
    <3> QED BY <3>1 DEF Inv, InboxOK, FileOK, historyVars, tableVars
  <2> QED BY <1>2, <2>1, <2>2 DEF InboxOK
<1>4. ListingOK'
  <2>1. /\ listing' \in Seq(Files) /\ Len(listing') = Len(listing) - 1 /\ Len(listing) \in Nat
        /\ \A i \in DOMAIN listing' : i + 1 \in DOMAIN listing /\ listing'[i] = listing[i + 1]
        /\ \A i \in DOMAIN listing : i # 1 => i - 1 \in DOMAIN listing' /\ listing'[i - 1] = listing[i]
        /\ DOMAIN listing = 1 .. Len(listing) /\ DOMAIN listing' = 1 .. Len(listing')
    BY DEF Inv, ListingOK, Gone
  <2>2. \A i \in DOMAIN listing' : listing'[i] \in inbox'[place]
    <3> SUFFICES ASSUME NEW i \in DOMAIN listing' PROVE listing'[i] \in inbox'[place]
      OBVIOUS
    <3>1. i + 1 \in DOMAIN listing /\ i + 1 # 1 /\ listing'[i] = listing[i + 1]
      BY <2>1
    <3> QED BY <1>1, <1>2, <3>1 DEF Inv, ListingOK
  <2>3. \A i, j \in DOMAIN listing' : i # j => listing'[i] # listing'[j]
    <3> SUFFICES ASSUME NEW i \in DOMAIN listing', NEW j \in DOMAIN listing', i # j
                 PROVE  listing'[i] # listing'[j]
      OBVIOUS
    <3>1. i + 1 # j + 1
      BY <2>1
    <3> QED BY <2>1, <3>1 DEF Inv, ListingOK
  <2>4. ASSUME NEW i \in DOMAIN listing', NEW o \in inbox'[place]
        PROVE  \/ o.tick >= listing'[i].tick
               \/ \E j \in DOMAIN listing' : j < i /\ listing'[j] = o
    <3>1. o \in inbox[place] /\ o # listing[1] /\ i + 1 \in DOMAIN listing /\ listing'[i] = listing[i + 1]
      BY <1>1, <1>2, <2>1
    <3>2. CASE o.tick >= listing[i + 1].tick
      BY <3>1, <3>2
    <3>3. CASE \E j \in DOMAIN listing : j < i + 1 /\ listing[j] = o
      <4>1. PICK j \in DOMAIN listing : j < i + 1 /\ listing[j] = o
        BY <3>3
      <4>2. j - 1 \in DOMAIN listing' /\ listing'[j - 1] = o /\ j - 1 < i
        BY <2>1, <3>1, <4>1
      <4> QED BY <4>2
    <3> QED BY <3>1, <3>2, <3>3 DEF Inv, ListingOK
  <2> QED BY <1>1, <2>1, <2>2, <2>3, <2>4 DEF ListingOK
<1>5. TablesOK' /\ PhaseOK' /\ ClockOK' /\ MapOK'
  BY DEF Inv, TablesOK, tableVars, PhaseOK, ClockOK, MapOK, historyVars, Gone
<1> QED BY <1>3, <1>4, <1>5 DEF Inv

\* A container writes a file that names a chat or a task there is.
LEMMA WriteInv ==
  ASSUME Inv, NEW g \in Groups, NEW dir \in Dirs, NEW kind \in MessageKinds \cup TaskKinds,
         NEW arg \in Chats \cup Nat, kind \in ForChat => arg \in Chats,
         kind \in ForTask => arg \in DOMAIN tasks, WriteIpcFile(g, dir, kind, arg)
  PROVE  Inv'
<1> DEFINE q == <<g, dir>>
<1>1. PICK s \in {0, 1} :
        /\ \A o \in inbox[q] : <<o.tick, o.suffix>> # <<now, s>>
        /\ inbox' = [inbox EXCEPT ![q] = @ \cup {[kind |-> kind, arg |-> arg, tick |-> now, suffix |-> s]}]
  BY DEF WriteIpcFile
<1> DEFINE f == [kind |-> kind, arg |-> arg, tick |-> now, suffix |-> s]
<1>2. q \in Places /\ f \in Files /\ f.tick = now /\ f.suffix = s /\ f.kind = kind /\ f.arg = arg
  BY DEF Places, Files, Inv, ClockOK
<1> HIDE DEF f, q
<1>3. /\ DOMAIN inbox' = Places /\ inbox'[q] = inbox[q] \cup {f}
      /\ \A p \in Places \ {q} : inbox'[p] = inbox[p]
  BY <1>1, <1>2 DEF Inv, InboxOK, f
<1>4. UNCHANGED <<tableVars, now, passVars, historyVars>> /\ written' \in 0 .. MaxFiles
  BY IpcAssumption DEF WriteIpcFile, Inv, ClockOK
<1>5. FileOK(q, f)
  BY <1>2 DEF FileOK, Inv, ClockOK
<1>6. InboxOK'
  <2>1. ASSUME NEW p \in Places PROVE IsFiniteSet(inbox'[p]) /\ Distinct(inbox'[p])
    <3>1. CASE p = q
      <4>1. IsFiniteSet(inbox[q]) /\ Distinct(inbox[q])
        BY <1>2 DEF Inv, InboxOK
      <4>2. \A o \in inbox[q] : <<o.tick, o.suffix>> # <<f.tick, f.suffix>>
        BY <1>1, <1>2
      <4>3. Distinct(inbox[q] \cup {f})
        BY <4>1, <4>2 DEF Distinct
      <4>4. \A S, x : IsFiniteSet(S) => IsFiniteSet(S \cup {x})
        BY FS_AddElement
      <4>5. IsFiniteSet(inbox[q] \cup {f})
        BY <4>1, <4>4
      <4>6. inbox'[p] = inbox[q] \cup {f}
        BY <1>3, <3>1
      <4> QED BY <4>3, <4>5, <4>6, Zenon
    <3>2. CASE p # q
      BY <1>3, <3>2 DEF Inv, InboxOK
    <3> QED BY <3>1, <3>2
  <2>2. ASSUME NEW p \in Places, NEW o \in inbox'[p] PROVE FileOK(p, o)'
    <3>1. FileOK(p, o)
      BY <1>2, <1>3, <1>5 DEF Inv, InboxOK
    <3> QED BY <1>4, <3>1 DEF FileOK, historyVars, tableVars
  <2> QED BY <1>3, <2>1, <2>2 DEF InboxOK
<1>7. ListingOK'
  <2>1. listing' = listing /\ place' = place /\ place \in Places
    BY <1>4 DEF passVars, Inv, ListingOK
  <2>2. inbox[place] \subseteq inbox'[place]
    BY <1>3, <2>1
  <2>3. ASSUME NEW i \in DOMAIN listing, NEW o \in inbox'[place], o \notin inbox[place]
        PROVE  o.tick >= listing[i].tick
    <3>1. o = f
      BY <1>3, <2>1, <2>3
    <3>2. FileOK(place, listing[i])
      BY <2>1 DEF Inv, ListingOK, InboxOK
    <3> QED BY <1>2, <3>1, <3>2 DEF FileOK, Inv, ClockOK
  <2> QED BY <2>1, <2>2, <2>3 DEF ListingOK, Inv
<1>8. TablesOK' /\ PhaseOK' /\ ClockOK' /\ MapOK'
  BY <1>4 DEF Inv, TablesOK, tableVars, PhaseOK, ClockOK, MapOK, historyVars, passVars
<1> QED BY <1>6, <1>7, <1>8 DEF Inv

(***************************************************************************)
(* Steps of the watcher                                                    *)
(***************************************************************************)
Forward == \A p \in Places : last'[p] >= last[p]

LEMMA Still == ASSUME Inv, last' = last PROVE Forward
  BY DEF Forward, Inv, ClockOK

LEMMA SeqFacts ==
  ASSUME NEW T, NEW s \in Seq(T)
  PROVE  /\ \A x \in T : Append(s, x) \in Seq(T) /\ DOMAIN s \subseteq DOMAIN Append(s, x)
         /\ \A i \in DOMAIN s : s[i] \in T
         /\ \A i \in DOMAIN s, x \in T :
              [s EXCEPT ![i] = x] \in Seq(T) /\ DOMAIN [s EXCEPT ![i] = x] = DOMAIN s
         /\ \A U : T \subseteq U => s \in Seq(U)
<1>1. ASSUME NEW x \in T PROVE Append(s, x) \in Seq(T) /\ DOMAIN s \subseteq DOMAIN Append(s, x)
  OBVIOUS
<1>2. ASSUME NEW i \in DOMAIN s, NEW x \in T
      PROVE  [s EXCEPT ![i] = x] \in Seq(T) /\ DOMAIN [s EXCEPT ![i] = x] = DOMAIN s
  OBVIOUS
<1>3. ASSUME NEW U, T \subseteq U PROVE s \in Seq(U)
  <2>1. Len(s) \in Nat /\ s \in [1 .. Len(s) -> U]
    BY <1>3
  <2> QED BY <2>1
<1>4. \A i \in DOMAIN s : s[i] \in T
  OBVIOUS
<1> QED BY <1>1, <1>2, <1>3, <1>4, Zenon

\* A task created for a group there is, one changed, and groups added.
LEMMA TasksTyped ==
  ASSUME NEW A, NEW ts \in Seq(Rows(A))
  PROVE  /\ \A g \in A :
              /\ Append(ts, [group |-> g, status |-> "active"]) \in Seq(Rows(A))
              /\ DOMAIN ts \subseteq DOMAIN Append(ts, [group |-> g, status |-> "active"])
         /\ \A t \in DOMAIN ts, st \in Statuses :
              /\ [ts EXCEPT ![t].status = st] \in Seq(Rows(A))
              /\ DOMAIN [ts EXCEPT ![t].status = st] = DOMAIN ts
         /\ \A B : A \subseteq B => ts \in Seq(Rows(B))
         /\ \A t \in DOMAIN ts : ts[t].group \in A /\ ts[t].status \in Statuses
<1>1. \A g \in A : [group |-> g, status |-> "active"] \in Rows(A)
  BY DEF Rows, Statuses
<1>2. ASSUME NEW t \in DOMAIN ts, NEW st \in Statuses
      PROVE  /\ [ts EXCEPT ![t].status = st] \in Seq(Rows(A))
             /\ DOMAIN [ts EXCEPT ![t].status = st] = DOMAIN ts
  <2> DEFINE x == [ts[t] EXCEPT !.status = st]
  <2>1. ts[t] \in Rows(A)
    BY SeqFacts
  <2>2. x \in Rows(A)
    BY <2>1 DEF Rows
  <2>3. [ts EXCEPT ![t].status = st] = [ts EXCEPT ![t] = x]
    BY Zenon
  <2> HIDE DEF x
  <2> QED BY <2>2, <2>3, SeqFacts
<1>3. \A B : A \subseteq B => Rows(A) \subseteq Rows(B)
  BY DEF Rows
<1>4. \A t \in DOMAIN ts : ts[t] \in Rows(A)
  BY SeqFacts
<1>5. \A r \in Rows(A) : r.group \in A /\ r.status \in Statuses
  BY DEF Rows
<1>6. ASSUME NEW g \in A
      PROVE  /\ Append(ts, [group |-> g, status |-> "active"]) \in Seq(Rows(A))
             /\ DOMAIN ts \subseteq DOMAIN Append(ts, [group |-> g, status |-> "active"])
  <2> DEFINE x == [group |-> g, status |-> "active"]
  <2>1. x \in Rows(A)
    BY <1>1
  <2> HIDE DEF x
  <2>2. Append(ts, x) \in Seq(Rows(A)) /\ DOMAIN ts \subseteq DOMAIN Append(ts, x)
    BY <2>1, SeqFacts
  <2> QED BY <2>2 DEF x
<1>7. \A B : A \subseteq B => ts \in Seq(Rows(B))
  BY <1>3, SeqFacts
<1> QED BY <1>2, <1>4, <1>5, <1>6, <1>7, Zenon

LEMMA ScheduleInv == ASSUME Inv, ScheduleTask PROVE Inv' /\ Forward
<1>1. FileOK(place, F) /\ F.kind = "schedule" /\ F.arg \in Chats
  BY AtHand DEF ScheduleTask, Handling, FileOK, ForChat
<1>2. wired[F.arg] # Nobody => wired[F.arg] \in agents
  BY <1>1 DEF Inv, TablesOK
<1>3. /\ tasks' \in Seq(Rows(agents))
      /\ DOMAIN tasks \subseteq DOMAIN tasks'
  <2>1. CASE tasks' = tasks
    BY <2>1, Zenon DEF Inv, TablesOK
  <2>2. CASE tasks' # tasks
    <3>1. /\ wired[F.arg] \in agents
          /\ tasks' = Append(tasks, [group |-> wired[F.arg], status |-> "active"])
      BY <1>2, <2>2, Zenon DEF ScheduleTask
    <3> QED BY <3>1, TasksTyped, Zenon DEF Inv, TablesOK
  <2> QED BY <2>1, <2>2, Zenon
<1>4. TablesOK' /\ MapOK'
  BY <1>3 DEF ScheduleTask, Handled, Inv, TablesOK, MapOK, Handling
<1> QED BY <1>3, <1>4, HandlerInv DEF ScheduleTask, Handling, Handled, Forward

LEMMA ChangeInv == ASSUME Inv, AuthorizedTaskAction PROVE Inv' /\ Forward
<1>1. FileOK(place, F) /\ F.kind \in ForTask /\ F.arg \in DOMAIN tasks
  BY AtHand DEF AuthorizedTaskAction, Handling, FileOK, ForTask
<1>2. tasks[F.arg].status \in Statuses
  BY <1>1, TasksTyped DEF Inv, TablesOK
<1>3. Changed(tasks[F.arg].status) \in Statuses
  BY <1>1, <1>2 DEF Changed, Statuses, ForTask
<1>4. /\ tasks' \in Seq(Rows(agents))
      /\ DOMAIN tasks \subseteq DOMAIN tasks'
  <2>1. tasks' = tasks \/ tasks' = [tasks EXCEPT ![F.arg].status = Changed(tasks[F.arg].status)]
    BY Zenon DEF AuthorizedTaskAction
  <2>2. tasks \in Seq(Rows(agents))
    BY DEF Inv, TablesOK
  <2> DEFINE st == Changed(tasks[F.arg].status)
             changed == [tasks EXCEPT ![F.arg].status = st]
  <2>3. changed \in Seq(Rows(agents)) /\ DOMAIN changed = DOMAIN tasks
    BY <1>1, <1>3, <2>2, TasksTyped
  <2>4. tasks' = tasks \/ tasks' = changed
    BY <2>1
  <2> HIDE DEF changed
  <2> QED BY <2>2, <2>3, <2>4
<1>5. TablesOK' /\ MapOK'
  BY <1>4 DEF AuthorizedTaskAction, Handled, Inv, TablesOK, MapOK, Handling
<1> QED BY <1>4, <1>5, HandlerInv DEF AuthorizedTaskAction, Handling, Handled, Forward

\* A chat wired to a group that is new or not.
LEMMA Wired ==
  ASSUME Inv, NEW c \in Chats, NEW g \in Groups \cup {Nobody}, agents' = agents \/ agents' = agents \cup {g},
         agents' \subseteq Groups, g \in agents' \cup {Nobody}, wired' = wired \/ wired' = [wired EXCEPT ![c] = g],
         (moved' = moved /\ wired' = wired) \/ moved' = moved \cup {c},
         UNCHANGED <<tasks, paused, map>>, phase' \notin {"off", "idle"} => phase \notin {"off", "idle"}
  PROVE  TablesOK' /\ MapOK'
<1>1. tasks' \in Seq(Rows(agents'))
  BY TasksTyped DEF Inv, TablesOK
<1>2. wired' \in [Chats -> agents' \cup {Nobody}] /\ map' \in [Chats -> agents' \cup {Nobody}]
  BY DEF Inv, TablesOK
<1>3. \A x \in Chats : wired'[x] = wired[x] \/ (wired' # wired /\ x = c)
  BY DEF Inv, TablesOK
<1> QED BY <1>1, <1>2, <1>3 DEF Inv, TablesOK, MapOK

LEMMA RegisterInv == ASSUME Inv, RegisterGroup PROVE Inv' /\ Forward
<1>1. CASE Failed
  BY <1>1, GoneInv, Still DEF RegisterGroup, Handling, Failed, QuarantineFile, historyVars, passVars
<1>2. CASE ~ Failed
  <2>1. FileOK(place, F) /\ F.kind = "register" /\ F.arg \in Chats
    BY AtHand DEF RegisterGroup, Handling, FileOK, ForChat
  <2>2. PICK g \in Groups :
          /\ agents' = agents \cup {g}
          /\ wired' = IF wired[F.arg] = Nobody THEN [wired EXCEPT ![F.arg] = g] ELSE wired
    BY <1>2 DEF RegisterGroup
  <2>3. /\ moved' = IF wired' = wired THEN moved ELSE moved \cup {F.arg}
        /\ phase' = "handled" /\ last' = [last EXCEPT ![place] = F.tick]
        /\ phase = "file" /\ listing # << >>
        /\ UNCHANGED <<tasks, paused, agentVars, map, todo, place, listing, moves, kills>>
    BY <1>2, Zenon DEF RegisterGroup, Handling
  <2>4. TablesOK' /\ MapOK'
    BY <2>1, <2>2, <2>3, Wired DEF Inv, TablesOK
  <2> QED BY <2>3, <2>4, HandlerInv DEF Forward
<1> QED BY <1>1, <1>2

\* The handlers that change no task and no wiring.
LEMMA OtherHandlers ==
  ASSUME Inv, Deny \/ Send \/ Lifecycle \/ CreateAgent \/ AskQuestion \/ RefreshGroups \/ RequestApproval
  PROVE  Inv' /\ Forward
<1>1. /\ phase = "file" /\ listing # << >> /\ phase' \in {"waiting", "handled"}
      /\ last' = [last EXCEPT ![place] = F.tick]
      /\ UNCHANGED <<agentVars, map, todo, place, listing, moved, wired, tasks>>
  BY Zenon DEF Deny, Send, Lifecycle, CreateAgent, AskQuestion, RefreshGroups, RequestApproval,
       Handling, Handled, Waits, tableVars
<1>2. paused' \in BOOLEAN
  <2>1. CASE Lifecycle
    BY <2>1, Zenon DEF Lifecycle, Inv, TablesOK
  <2>2. CASE ~ Lifecycle
    BY <2>2, Zenon DEF Deny, Send, CreateAgent, AskQuestion, RefreshGroups, RequestApproval,
         Handled, Waits, tableVars, Inv, TablesOK
  <2> QED BY <2>1, <2>2
<1>3. agents \subseteq agents' /\ agents' \subseteq Groups
  <2>1. CASE CreateAgent
    BY <2>1 DEF CreateAgent, Inv, TablesOK
  <2>2. CASE ~ CreateAgent
    BY <2>2, Zenon DEF Deny, Send, Lifecycle, AskQuestion, RefreshGroups, RequestApproval,
         Handled, Waits, tableVars, Inv, TablesOK
  <2> QED BY <2>1, <2>2
<1>4. TablesOK'
  <2>1. tasks' \in Seq(Rows(agents'))
    BY <1>1, <1>3, TasksTyped DEF Inv, TablesOK
  <2>2. wired' \in [Chats -> agents' \cup {Nobody}] /\ map' \in [Chats -> agents' \cup {Nobody}]
    BY <1>1, <1>3 DEF Inv, TablesOK
  <2> QED BY <1>2, <1>3, <2>1, <2>2, Zenon DEF Inv, TablesOK
<1>5. MapOK'
  BY <1>1 DEF Inv, MapOK
<1> QED BY <1>1, <1>4, <1>5, HandlerInv DEF Forward

\* The steps between two files.
LEMMA StartInv == ASSUME Inv, StartPass PROVE Inv'
<1>1. InboxOK' /\ ListingOK' /\ ClockOK'
  BY InboxKept, ListingKept DEF StartPass, Inv, ClockOK, agentVars, tableVars
<1>2. TablesOK' /\ PhaseOK' /\ MapOK'
  BY DEF StartPass, Inv, TablesOK, PhaseOK, MapOK, tableVars
<1> QED BY <1>1, <1>2 DEF Inv

LEMMA ListInv == ASSUME Inv, ListIpcJsonFiles PROVE Inv'
<1>1. PICK p \in NextPlaces :
        place' = p /\ todo' = todo \ {p} /\ listing' = InNameOrder(inbox[p])
  BY DEF ListIpcJsonFiles
<1>2. p \in Places
  BY DEF NextPlaces, Inv, PhaseOK
<1>3. inbox[p] \in SUBSET Files /\ IsFiniteSet(inbox[p]) /\ Distinct(inbox[p])
  BY <1>2 DEF Inv, InboxOK, FileOK
<1> DEFINE s == InNameOrder(inbox[p])
<1>4. /\ s \in Seq(inbox[p]) /\ \A f \in inbox[p] : \E i \in DOMAIN s : s[i] = f
      /\ \A i, j \in DOMAIN s : i < j => ByName(s[i], s[j])
  BY <1>3, Listed
<1> HIDE DEF s
<1>5. /\ DOMAIN s \subseteq Nat /\ \A i \in DOMAIN s : s[i] \in inbox[p] /\ s[i] \in Files
      /\ s \in Seq(Files)
  BY <1>3, <1>4
<1>6. \A f, o \in Files : ByName(f, o) => f # o /\ o.tick >= f.tick
  BY DEF ByName, Files
<1>7. \A i, j \in DOMAIN s : i # j => s[i] # s[j]
  <2> SUFFICES ASSUME NEW i \in DOMAIN s, NEW j \in DOMAIN s, i # j PROVE s[i] # s[j]
    OBVIOUS
  <2>1. i < j \/ j < i
    BY <1>5
  <2> QED BY <1>4, <1>5, <1>6, <2>1
<1>8. ASSUME NEW i \in DOMAIN s, NEW o \in inbox[p]
      PROVE  o.tick >= s[i].tick \/ \E j \in DOMAIN s : j < i /\ s[j] = o
  <2>1. PICK j \in DOMAIN s : s[j] = o
    BY <1>4
  <2>2. CASE j < i
    BY <2>1, <2>2
  <2>3. CASE i < j
    BY <1>4, <1>5, <1>6, <2>1, <2>3
  <2>4. CASE i = j
    BY <1>5, <2>1, <2>4 DEF Files
  <2> QED BY <1>5, <2>2, <2>3, <2>4
<1>9. ListingOK'
  BY <1>1, <1>2, <1>5, <1>7, <1>8 DEF ListingOK, ListIpcJsonFiles, agentVars, s
<1>10. InboxOK' /\ ClockOK'
  BY InboxKept DEF ListIpcJsonFiles, Inv, ClockOK, agentVars, tableVars, historyVars
<1>11. TablesOK' /\ PhaseOK' /\ MapOK'
  BY <1>1 DEF ListIpcJsonFiles, Inv, TablesOK, PhaseOK, MapOK, tableVars, historyVars
<1> QED BY <1>9, <1>10, <1>11 DEF Inv

LEMMA BetweenInv ==
  ASSUME Inv, NextDirectory \/ EndPass \/ StartIpcWatcher \/ Returns \/ Crash
  PROVE  Inv'
<1>1. UNCHANGED <<inbox, now, written, last, tasks>>
  BY Zenon DEF NextDirectory, EndPass, StartIpcWatcher, Returns, Crash, agentVars, tableVars, historyVars
<1>2. InboxOK' /\ ClockOK'
  BY <1>1, InboxKept DEF Inv, ClockOK
<1>3. ListingOK'
  <2>1. CASE UNCHANGED <<place, listing>>
    BY <1>1, <2>1, ListingKept DEF Inv
  <2>2. CASE ~ UNCHANGED <<place, listing>>
    <3>1. listing' = << >> /\ place' = <<Main, "messages">>
      BY <2>2 DEF NextDirectory, EndPass, StartIpcWatcher, Returns, Crash
    <3>2. <<Main, "messages">> \in Places
      BY IpcAssumption DEF Places, Dirs
    <3> QED BY <3>1, <3>2 DEF ListingOK
  <2> QED BY <2>1, <2>2
<1>4. TablesOK'
  <2>1. UNCHANGED <<agents, wired, tasks>> /\ paused' \in BOOLEAN
    BY Zenon DEF NextDirectory, EndPass, StartIpcWatcher, Returns, Crash, tableVars, Inv, TablesOK
  <2>2. map' = map \/ map' = NoMap
    BY Zenon DEF NextDirectory, EndPass, StartIpcWatcher, Returns, Crash
  <2>3. NoMap \in [Chats -> agents \cup {Nobody}]
    BY DEF NoMap
  <2> QED BY <2>1, <2>2, <2>3, Zenon DEF Inv, TablesOK
<1>5. PhaseOK' /\ MapOK'
  BY DEF NextDirectory, EndPass, StartIpcWatcher, Returns, Crash, tableVars, historyVars,
         Inv, PhaseOK, MapOK
<1> QED BY <1>2, <1>3, <1>4, <1>5 DEF Inv

LEMMA FileGoneInv == ASSUME Inv, Unlink \/ Unreadable \/ Throws PROVE Inv'
<1>1. listing # << >> /\ phase \notin {"off", "idle"}
  BY DEF Unlink, Unreadable, Throws, Handling, Inv, PhaseOK
<1>2. Gone /\ UNCHANGED <<tableVars, now, written, map, todo, place, historyVars>>
  BY DEF Unlink, Unreadable, Throws, Failed, QuarantineFile
<1> QED BY <1>1, <1>2, GoneInv

\* Only a file handled changes what is the newest of a directory.
LEMMA BetweenStill ==
  ASSUME StartIpcWatcher \/ StartPass \/ ListIpcJsonFiles \/ NextDirectory \/ EndPass
           \/ Unlink \/ Unreadable \/ Returns \/ Throws
  PROVE  last' = last
  BY Zenon DEF StartIpcWatcher, StartPass, ListIpcJsonFiles, NextDirectory, EndPass, Unlink,
       Unreadable, Returns, Throws, Failed, historyVars

LEMMA WatcherInv == ASSUME Inv, Watcher PROVE Inv' /\ Forward
<1>1. CASE StartIpcWatcher \/ StartPass \/ ListIpcJsonFiles \/ NextDirectory \/ EndPass
             \/ Unlink \/ Unreadable \/ Returns \/ Throws
  BY <1>1, StartInv, ListInv, BetweenInv, FileGoneInv, BetweenStill, Still, Zenon
<1> QED BY <1>1, ScheduleInv, ChangeInv, RegisterInv, OtherHandlers, Zenon DEF Watcher

(***************************************************************************)
(* The agents and the operator                                             *)
(***************************************************************************)
LEMMA ToolInv ==
  ASSUME Inv, NEW g \in Groups,
         MessageTool(g) \/ ScheduleTool(g) \/ ChangeTool(g) \/ RegisterTool(g) \/ OtherTool(g)
  PROVE  Inv' /\ last' = last
<1>1. PICK dir \in Dirs, kind \in MessageKinds \cup TaskKinds, arg \in Chats \cup Nat :
        /\ kind \in ForChat => arg \in Chats
        /\ kind \in ForTask => arg \in DOMAIN tasks
        /\ WriteIpcFile(g, dir, kind, arg)
  <2>1. CASE MessageTool(g)
    BY <2>1 DEF MessageTool, RunsFor, Dirs, MessageKinds, TaskKinds, ForChat, ForTask
  <2>2. CASE ScheduleTool(g)
    BY <2>2 DEF ScheduleTool, RunsFor, Dirs, MessageKinds, TaskKinds, ForChat, ForTask
  <2>3. CASE ChangeTool(g)
    <3>1. DOMAIN tasks \subseteq Nat
      BY DEF Inv, TablesOK
    <3> QED BY <2>3, <3>1 DEF ChangeTool, Dirs, MessageKinds, TaskKinds, ForChat, ForTask
  <2>4. CASE RegisterTool(g)
    BY <2>4 DEF RegisterTool, Dirs, MessageKinds, TaskKinds, ForChat, ForTask
  <2>5. CASE OtherTool(g)
    BY <2>5 DEF OtherTool, Dirs, MessageKinds, TaskKinds, ForChat, ForTask
  <2> QED BY <2>1, <2>2, <2>3, <2>4, <2>5
<1>2. last' = last
  BY <1>1 DEF WriteIpcFile, historyVars
<1> QED BY <1>1, <1>2, WriteInv

LEMMA MoveInv ==
  ASSUME Inv, NEW c \in Chats, NEW g \in Groups \cup {Nobody}, Move(c, g)
  PROVE  Inv'
<1>1. TablesOK' /\ MapOK'
  BY Wired DEF Move, passVars, Inv, TablesOK
<1>2. InboxOK' /\ ListingOK' /\ ClockOK' /\ PhaseOK'
  BY InboxKept, ListingKept DEF Move, passVars, agentVars, Inv, ClockOK, PhaseOK
<1> QED BY <1>1, <1>2 DEF Inv

LEMMA TickInv == ASSUME Inv, Tick PROVE Inv'
<1>1. InboxOK' /\ ListingOK'
  BY InboxKept, ListingKept DEF Tick, passVars, historyVars, tableVars, Inv, ClockOK
<1>2. ClockOK' /\ TablesOK' /\ PhaseOK' /\ MapOK'
  BY IpcAssumption DEF Tick, passVars, historyVars, tableVars, Inv, ClockOK, TablesOK, PhaseOK, MapOK
<1> QED BY <1>1, <1>2 DEF Inv

LEMMA StutterInv == ASSUME Inv, UNCHANGED vars PROVE Inv'
<1>1. InboxOK' /\ ListingOK'
  BY InboxKept, ListingKept DEF vars, agentVars, passVars, historyVars, tableVars, Inv, ClockOK
<1>2. ClockOK' /\ TablesOK' /\ PhaseOK' /\ MapOK'
  BY DEF vars, agentVars, passVars, historyVars, tableVars, Inv, ClockOK, TablesOK, PhaseOK, MapOK
<1> QED BY <1>1, <1>2 DEF Inv

LEMMA NextInv == ASSUME Inv, [Next]_vars PROVE Inv' /\ Forward
<1>1. CASE UNCHANGED vars
  BY <1>1, StutterInv, Still DEF vars, historyVars
<1>2. CASE Tick
  BY <1>2, TickInv, Still DEF Tick, historyVars
<1>3. CASE Crash
  BY <1>3, BetweenInv, Still DEF Crash
<1>4. ASSUME NEW g \in Groups,
             MessageTool(g) \/ ScheduleTool(g) \/ ChangeTool(g) \/ RegisterTool(g) \/ OtherTool(g)
      PROVE  Inv' /\ Forward
  BY <1>4, ToolInv, Still
<1>5. ASSUME NEW c \in Chats, NEW g \in Groups \cup {Nobody}, Move(c, g) PROVE Inv' /\ Forward
  BY <1>5, MoveInv, Still DEF Move
<1> QED BY <1>1, <1>2, <1>3, <1>4, <1>5, WatcherInv, Zenon DEF Next

LEMMA InitInv == ASSUME Init PROVE Inv
<1>1. 1 \in 1 .. MaxTicks /\ 0 \in 0 .. MaxFiles /\ 0 \in 0 .. MaxTicks
  BY IpcAssumption
<1>2. InboxOK
  BY FS_EmptySet DEF Init, InboxOK, Distinct
<1>3. ClockOK
  BY <1>1 DEF Init, ClockOK
<1>4. ListingOK
  BY IpcAssumption DEF Init, ListingOK, Places, Dirs
<1>5. TablesOK
  <2>1. agents = {Main} /\ paused = FALSE
    BY Zenon DEF Init
  <2>2. agents \subseteq Groups /\ Main \in agents
    BY <2>1, IpcAssumption
  <2>3. wired \in [Chats -> agents \cup {Nobody}] /\ map \in [Chats -> agents \cup {Nobody}]
    BY <2>1 DEF Init, NoMap
  <2>4. tasks \in Seq(Rows(agents))
    BY DEF Init
  <2>5. paused \in BOOLEAN
    BY <2>1, Zenon
  <2> QED BY <2>2, <2>3, <2>4, <2>5, Zenon DEF TablesOK
<1>6. PhaseOK /\ MapOK
  BY DEF Init, PhaseOK, MapOK
<1> QED BY <1>2, <1>3, <1>4, <1>5, <1>6 DEF Inv

LEMMA Invariance == Spec => []Inv
<1>1. Init => Inv
  BY InitInv
<1>2. Inv /\ [Next]_vars => Inv'
  BY NextInv
<1> QED BY <1>1, <1>2, PTL DEF Spec

(***************************************************************************)
(* Theorems                                                                *)
(***************************************************************************)
\* Tables, directories and the pass keep their types: every request there is
\* names a chat or a task there is, and what is waited for has a file at hand.
THEOREM TypeCorrect == Spec => []TypeOK
<1>1. Inv => TypeOK
  <2>1. Inv => /\ agents \subseteq Groups /\ Main \in agents
               /\ wired \in [Chats -> agents \cup {Nobody}] /\ map \in [Chats -> agents \cup {Nobody}]
               /\ tasks \in Seq([group : agents, status : Statuses])
               /\ paused \in BOOLEAN
    BY Zenon DEF Inv, TablesOK, Rows
  <2>2. Inv => DOMAIN inbox = Places /\ \A p \in Places : inbox[p] \subseteq Files
    BY DEF Inv, InboxOK, FileOK
  <2> QED BY <2>1, <2>2, Zenon DEF Inv, TypeOK, ClockOK, PhaseOK, MapOK, ListingOK
<1> QED BY <1>1, Invariance, PTL

\* The requests of a directory are acted upon in the order of their writing,
\* however many there are and wherever the host is killed.
THEOREM RequestsInOrder == Spec => InOrder
<1>1. Inv /\ [Next]_vars => [\A p \in Places : last'[p] >= last[p]]_vars
  BY NextInv DEF Forward
<1> QED BY <1>1, Invariance, PTL DEF Spec, InOrder

\* A message is judged by the wiring there is, except for a chat whose wiring
\* changed since the pass began.
THEOREM MessagesOfTheGroup == Spec => OwnMessagesSent
<1> DEFINE A == (Deny \/ Send) /\ ~ IsMain /\ F.arg \notin moved
                  => (phase' = "waiting" <=> wired[F.arg] = G)
<1>1. Inv => A
  <2> SUFFICES ASSUME Inv, Deny \/ Send, ~ IsMain, F.arg \notin moved
               PROVE  phase' = "waiting" <=> wired[F.arg] = G
    BY DEF A
  <2>1. Handling({"send"})
    BY Zenon DEF Deny, Send
  <2>2. F.arg \in Chats /\ phase = "file"
    BY <2>1, AtHand DEF Handling, FileOK, ForChat
  <2>3. map[F.arg] = wired[F.arg]
    BY <2>2 DEF Inv, MapOK
  <2>4. phase' = "waiting" <=> IsAuthorizedForJid(F.arg)
    BY DEF Deny, Send, Handled, Waits
  <2> QED BY <2>3, <2>4 DEF IsAuthorizedForJid
<1>2. Inv /\ [Next]_vars => [A]_vars
  BY <1>1
<1> QED BY <1>2, Invariance, PTL DEF Spec, OwnMessagesSent
=============================================================================
