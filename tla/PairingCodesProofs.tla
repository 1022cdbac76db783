------------------------- MODULE PairingCodesProofs -------------------------
(* Types, codes that are good for one chat and tasks that report to their  *)
(* group, for any groups, chats, channels and codes.                       *)
EXTENDS PairingCodes, TLAPS

(***************************************************************************)
(* The inductive invariant                                                 *)
(***************************************************************************)
Statuses == {"pending", "consumed", "invalidated", "expired"}

\* A record; a code that migrates a group names the channel it is to be claimed
\* on, which is not the one the group leaves.
Records ==
  {r \in [code : Codes, channel : Channels \cup {"any"}, intent : Intents,
          issue : Issues, status : Statuses] :
     r.intent.kind = "migrate" => r.channel \notin {"any", r.intent.from}}

\* What a process that issues a code wants, and an operation it has begun.
Wants == {w \in Wanted : w.intent.kind = "migrate" => w.channel \notin {"any", w.intent.from}}
Operations == [pairings : Seq(Records), for : SUBSET Wants]

StoreOK ==
  /\ store \in Seq(Records) /\ snapshot \in [Processes -> SUBSET Operations]
  /\ issued \in 0 .. MaxIssued /\ old \subseteq Issues /\ claims \in [Issues -> Nat]
  /\ overlapped \subseteq Issues

TablesOK ==
  /\ groups \subseteq Groups /\ wired \subseteq Chats \X groups
  /\ DOMAIN tasks \subseteq Tasks /\ revived \subseteq DOMAIN tasks
  /\ \A t \in DOMAIN tasks : tasks[t] \in [group : groups, chat : Chats, active : BOOLEAN]
  /\ owned \in BOOLEAN /\ dms \subseteq Direct
  /\ approvals \subseteq groups \X Channels
  /\ asks \subseteq [chat : Chats, group : groups, via : Channels]

\* An issue that may still be pending somewhere.
Unclaimed(n) == claims[n] = 0 \/ n \in overlapped

\* Every issue has one record, and a pending one was not claimed.
Sound(s) ==
  /\ \A i, j \in DOMAIN s : s[i].issue = s[j].issue => i = j
  /\ \A i \in DOMAIN s :
       s[i].issue <= issued /\ (s[i].status = "pending" => Unclaimed(s[i].issue))

\* The store, what the host has read of it, and what the command line has read of
\* it, which may be older.
CodesInv ==
  /\ ClaimedOnce
  /\ Sound(store) /\ \A p \in Processes : \A o \in snapshot[p] : Sound(o.pairings)
  /\ \A n \in Issues : issued < n => claims[n] = 0

StoreInv == StoreOK /\ CodesInv
TableInv == TablesOK /\ TasksReportToTheirGroup

Inv == StoreInv /\ TableInv

LEMMA SeqOfMore == ASSUME NEW S, NEW T, S \subseteq T, NEW q \in Seq(S) PROVE q \in Seq(T)
<1>1. \A i \in 1 .. Len(q) : q[i] \in T
  OBVIOUS
<1> QED BY <1>1

LEMMA InvType == Inv => TypeOK
<1> DEFINE Rec == [code : Codes, channel : Channels \cup {"any"}, intent : Intents,
                   issue : Issues, status : Statuses]
<1>1. Records \subseteq Rec
  BY DEF Records
<1> HIDE DEF Rec
<1>2. StoreOK => store \in Seq(Rec) /\ DOMAIN snapshot = Processes
  BY <1>1, SeqOfMore DEF StoreOK
<1> QED BY <1>2, Zenon DEF Inv, StoreInv, TableInv, TypeOK, StoreOK, TablesOK, Statuses, Rec

(***************************************************************************)
(* Records that change their status, that are swept and that are added     *)
(***************************************************************************)
\* A record with another status.
LEMMA RecordStatus ==
  ASSUME NEW r \in Records, NEW x \in Statuses
  PROVE  /\ [r EXCEPT !.status = x] \in Records
         /\ [r EXCEPT !.status = x].issue = r.issue
         /\ [r EXCEPT !.status = x].status = x
  BY DEF Records

\* Records that are no longer pending.
WithStatus(s, D, x) ==
  [n \in DOMAIN s |-> IF n \in D THEN [s[n] EXCEPT !.status = x] ELSE s[n]]

LEMMA Closed ==
  ASSUME NEW s \in Seq(Records), NEW D \in SUBSET DOMAIN s, NEW x \in Statuses,
         NEW t, t = WithStatus(s, D, x)
  PROVE  /\ t \in Seq(Records) /\ DOMAIN t = DOMAIN s
         /\ \A n \in DOMAIN s : /\ t[n].issue = s[n].issue
                                /\ t[n].status = IF n \in D THEN x ELSE s[n].status
<1> USE DEF WithStatus
<1>1. \A n \in DOMAIN s : t[n] \in Records
  BY RecordStatus
<1>2. DOMAIN s = 1 .. Len(s) /\ Len(s) \in Nat
  OBVIOUS
<1>3. t \in Seq(Records)
  BY <1>1, <1>2
<1>4. \A n \in DOMAIN s : t[n].issue = s[n].issue /\ t[n].status = IF n \in D THEN x ELSE s[n].status
  BY RecordStatus
<1> QED BY <1>3, <1>4

LEMMA ClosedSound ==
  ASSUME NEW s \in Seq(Records), NEW t,
         DOMAIN t = DOMAIN s,
         \A n \in DOMAIN s : t[n].issue = s[n].issue /\ t[n].status \in {s[n].status} \cup (Statuses \ {"pending"})
  PROVE  Sound(s) => Sound(t)
  BY DEF Sound

\* What a process reads: aged records are expired, the oldest are gone.
LEMMA ReadRecords ==
  ASSUME StoreOK
  PROVE  /\ Sweep(ExpireAged(store)) \in Seq(Records)
         /\ Sound(store) => Sound(Sweep(ExpireAged(store)))
<1> DEFINE t == ExpireAged(store)
           D == {n \in DOMAIN store : store[n].status = "pending" /\ store[n].issue \in old}
<1>1. store \in Seq(Records) /\ "expired" \in Statuses \ {"pending"}
  BY DEF StoreOK, Statuses
<1>2. t = WithStatus(store, D, "expired")
  BY DEF ExpireAged, WithStatus
<1>3. /\ t \in Seq(Records) /\ DOMAIN t = DOMAIN store
      /\ \A n \in DOMAIN store : /\ t[n].issue = store[n].issue
                                 /\ t[n].status = IF n \in D THEN "expired" ELSE store[n].status
  <2> HIDE DEF t, D
  <2>1. D \in SUBSET DOMAIN store
    BY DEF D
  <2> QED BY <1>1, <1>2, <2>1, Closed
<1>4. Sound(store) => Sound(t)
  <2> HIDE DEF t, D
  <2> QED BY <1>1, <1>3, ClosedSound
<1> HIDE DEF t
<1>5. CASE Len(t) <= MaxRetained
  BY <1>3, <1>4, <1>5 DEF Sweep, t
<1>6. CASE ~ (Len(t) <= MaxRetained)
  <2> DEFINE d == Len(t) - MaxRetained
             u == SubSeq(t, d + 1, Len(t))
  <2>1. d \in Nat /\ Len(t) \in Nat /\ MaxRetained \in Nat /\ d <= Len(t)
    BY <1>3, <1>6, PairingAssumption
  <2>2. /\ u \in Seq(Records) /\ DOMAIN u = 1 .. MaxRetained
        /\ \A i \in DOMAIN u : u[i] = t[i + d] /\ i + d \in DOMAIN t
    BY <1>3, <2>1
  <2>3. Sweep(t) = u
    BY <1>6, <2>1 DEF Sweep
  <2>4. Sound(t) => Sound(u)
    <3> SUFFICES ASSUME Sound(t) PROVE Sound(u)
      OBVIOUS
    <3> HIDE DEF u
    <3>1. ASSUME NEW i \in DOMAIN u, NEW j \in DOMAIN u, u[i].issue = u[j].issue PROVE i = j
      <4>1. i + d = j + d
        BY <2>2, <3>1 DEF Sound
      <4> QED BY <2>1, <2>2, <4>1
    <3>2. \A i \in DOMAIN u : u[i].issue <= issued
                              /\ (u[i].status = "pending" => Unclaimed(u[i].issue))
      BY <2>2 DEF Sound
    <3> QED BY <3>1, <3>2 DEF Sound
  <2> QED BY <1>4, <2>2, <2>3, <2>4 DEF t
<1> QED BY <1>5, <1>6

\* A record that is added has an issue of its own.
LEMMA AddedRecord ==
  ASSUME StoreInv, NEW s \in Seq(Records), Sound(s),
         NEW r \in Records, r.issue = issued + 1, issued' = issued + 1,
         UNCHANGED <<claims, overlapped>>
  PROVE  Sound(Append(s, r))'
<1> DEFINE t == Append(s, r)
<1>1. /\ Len(s) \in Nat /\ Len(t) = Len(s) + 1 /\ DOMAIN t = 1 .. Len(t) /\ DOMAIN s = 1 .. Len(s)
      /\ t[Len(t)] = r /\ \A i \in DOMAIN s : t[i] = s[i]
      /\ \A i \in DOMAIN t : i = Len(t) \/ i \in DOMAIN s
  OBVIOUS
<1>2. issued \in Nat /\ issued + 1 \in Issues
  BY DEF StoreInv, StoreOK, Records
<1>3. claims[issued + 1] = 0
  BY <1>2 DEF StoreInv, CodesInv
<1>4. \A i \in DOMAIN s : s[i] \in Records /\ s[i].issue \in Nat /\ s[i].issue <= issued
  <2>1. \A i \in DOMAIN s : s[i] \in Records
    OBVIOUS
  <2> QED BY <2>1 DEF Sound, Records, Issues
<1> HIDE DEF t
<1>5. ASSUME NEW i \in DOMAIN t, NEW j \in DOMAIN t, t[i].issue = t[j].issue PROVE i = j
  <2>1. CASE i \in DOMAIN s /\ j \in DOMAIN s
    BY <1>1, <1>5, <2>1 DEF Sound
  <2>2. CASE i \notin DOMAIN s \/ j \notin DOMAIN s
    BY <1>1, <1>2, <1>4, <1>5, <2>2
  <2> QED BY <2>1, <2>2
<1>6. ASSUME NEW i \in DOMAIN t
      PROVE  t[i].issue <= issued' /\ (t[i].status = "pending" => Unclaimed(t[i].issue)')
  <2>1. CASE i \in DOMAIN s
    BY <1>1, <1>2, <1>4, <2>1 DEF Sound, Unclaimed
  <2>2. CASE i \notin DOMAIN s
    BY <1>1, <1>2, <1>3, <2>2 DEF Unclaimed
  <2> QED BY <2>1, <2>2
<1>7. Sound(t)'
  BY <1>5, <1>6 DEF Sound, t
<1> QED BY <1>7 DEF t

(***************************************************************************)
(* Reading and writing the store                                           *)
(***************************************************************************)
\* A later issue, and nothing claimed: what is sound stays so.
LEMMA SoundKept ==
  ASSUME StoreOK, NEW s \in Seq(Records), Sound(s), issued' \in Nat, issued <= issued',
         UNCHANGED <<claims, overlapped>>
  PROVE  Sound(s)'
<1>1. \A i \in DOMAIN s : s[i].issue \in Nat
  <2>1. \A i \in DOMAIN s : s[i] \in Records
    OBVIOUS
  <2> QED BY <2>1 DEF Records, Issues
<1>2. issued \in Nat
  BY DEF StoreOK
<1> QED BY <1>1, <1>2 DEF Sound, Unclaimed

LEMMA ReadInv ==
  ASSUME StoreInv, NEW p \in Processes, NEW w \in SUBSET Wants, ReadStore(p, w)
  PROVE  StoreInv'
<1> DEFINE t == Sweep(ExpireAged(store))
           o == [pairings |-> t, for |-> w]
<1>1. t \in Seq(Records) /\ (Sound(store) => Sound(t))
  BY ReadRecords DEF StoreInv
<1> HIDE DEF t
<1>2. snapshot' = [snapshot EXCEPT ![p] = {o}] /\ UNCHANGED <<store, issued, old, claims, overlapped>>
  BY DEF ReadStore, t
<1>3. o \in Operations /\ o.pairings = t
  BY <1>1 DEF Operations
<1> HIDE DEF o
<1>4. \A q \in Processes : snapshot'[q] = IF q = p THEN {o} ELSE snapshot[q]
  BY <1>2 DEF StoreInv, StoreOK
<1>5. StoreOK'
  BY <1>2, <1>3 DEF StoreInv, StoreOK
<1>6. \A s : Sound(s)' <=> Sound(s)
  BY <1>2 DEF Sound, Unclaimed
<1>7. \A q \in Processes : \A u \in snapshot'[q] : Sound(u.pairings)'
  BY <1>1, <1>3, <1>4, <1>6 DEF StoreInv, CodesInv
<1>8. CodesInv'
  BY <1>2, <1>6, <1>7 DEF StoreInv, CodesInv, ClaimedOnce, Sound, Unclaimed
<1> QED BY <1>5, <1>8 DEF StoreInv

\* A process that writes ends its turn; what it writes must be sound, and what the
\* other process has read must stay so.
LEMMA WriteInv ==
  ASSUME StoreInv, NEW p \in Processes, NEW t \in Seq(Records),
         WriteStore(p, t), issued' \in 0 .. MaxIssued, claims' \in [Issues -> Nat],
         overlapped' \subseteq Issues, UNCHANGED old, Sound(t)', ClaimedOnce',
         \A n \in Issues : issued' < n => claims'[n] = 0,
         \A q \in Processes \ {p} : \A o \in snapshot[q] : Sound(o.pairings)'
  PROVE  StoreInv'
<1>1. store' = t /\ snapshot' = [snapshot EXCEPT ![p] = {}]
  BY DEF WriteStore
<1>2. StoreOK'
  BY <1>1 DEF StoreInv, StoreOK
<1>3. \A q \in Processes : snapshot'[q] = IF q = p THEN {} ELSE snapshot[q]
  BY <1>1 DEF StoreInv, StoreOK
<1>4. Sound(store)'
  BY <1>1 DEF Sound, Unclaimed
<1>5. CodesInv'
  BY <1>3, <1>4, Zenon DEF CodesInv
<1> QED BY <1>2, <1>5 DEF StoreInv

LEMMA CreateInv ==
  ASSUME StoreInv, NEW p \in Processes, NEW code \in Codes, CreatePendingCode(p, code)
  PROVE  StoreInv'
<1>1. issued < MaxIssued /\ issued' = issued + 1 /\ UNCHANGED <<old, claims, overlapped>>
  BY DEF CreatePendingCode
<1>2. issued' \in Issues /\ issued' \in 0 .. MaxIssued /\ issued \in Nat
  BY <1>1, PairingAssumption DEF StoreInv, StoreOK, Issues
<1>3. PICK o \in snapshot[p] : \E w \in o.for :
        WriteStore(p, Append(o.pairings,
          [code |-> code, channel |-> w.channel, intent |-> w.intent,
           issue |-> issued', status |-> "pending"]))
  BY DEF CreatePendingCode
<1>4. PICK w \in o.for :
        WriteStore(p, Append(o.pairings,
          [code |-> code, channel |-> w.channel, intent |-> w.intent,
           issue |-> issued', status |-> "pending"]))
  BY <1>3
<1>5. o.pairings \in Seq(Records) /\ w \in Wants /\ Sound(o.pairings)
  BY DEF StoreInv, StoreOK, CodesInv, Operations
<1>6. [code |-> code, channel |-> w.channel, intent |-> w.intent, issue |-> issued',
       status |-> "pending"] \in Records
  BY <1>2, <1>5 DEF Records, Statuses, Wants, Wanted
<1>7. PICK r \in Records : r.issue = issued + 1 /\ WriteStore(p, Append(o.pairings, r))
  BY <1>1, <1>4, <1>6
<1>8. Append(o.pairings, r) \in Seq(Records) /\ claims' \in [Issues -> Nat]
  BY <1>1, <1>5 DEF StoreInv, StoreOK
<1>9. PICK s \in Seq(Records) : s = o.pairings
  BY <1>5
<1>10. Sound(Append(s, r))'
  BY <1>1, <1>5, <1>7, <1>9, AddedRecord
<1>11. \A q \in Processes : \A u \in snapshot[q] : Sound(u.pairings)'
  <2> SUFFICES ASSUME NEW q \in Processes, NEW u \in snapshot[q] PROVE Sound(u.pairings)'
    OBVIOUS
  <2>1. PICK v \in Seq(Records) : v = u.pairings /\ Sound(v)
    BY DEF StoreInv, StoreOK, CodesInv, Operations
  <2>2. Sound(v)'
    BY <1>1, <1>2, <2>1, SoundKept DEF StoreInv
  <2> QED BY <2>1, <2>2
<1>12. ClaimedOnce' /\ \A n \in Issues : issued' < n => claims'[n] = 0
  <2>1. \A n \in Issues : issued' < n => issued < n
    BY <1>1, <1>2 DEF Issues
  <2> QED BY <1>1, <2>1 DEF StoreInv, CodesInv, ClaimedOnce
<1>13. PICK t \in Seq(Records) : t = Append(s, r)
  BY <1>8, <1>9
<1>14. Sound(t)' /\ WriteStore(p, t)
  BY <1>7, <1>9, <1>10, <1>13
<1>15. overlapped' \subseteq Issues
  BY <1>1 DEF StoreInv, StoreOK
<1> QED BY <1>1, <1>2, <1>8, <1>11, <1>12, <1>14, <1>15, WriteInv

(***************************************************************************)
(* A claim and a miss                                                      *)
(***************************************************************************)
\* The code that is claimed is closed and its issue counted; no other record of
\* what the host has read has that issue. What the command line has read may have
\* it as pending: then the issue is one of those overlapped.
LEMMA ConsumeInv ==
  ASSUME StoreInv, NEW o \in snapshot["host"], NEW s, s = o.pairings,
         NEW n \in DOMAIN s, s[n].status = "pending",
         WriteStore("host", [s EXCEPT ![n].status = "consumed"]),
         claims' = [claims EXCEPT ![s[n].issue] = @ + 1],
         overlapped' = IF snapshot["cli"] = {} THEN overlapped
                       ELSE overlapped \cup {s[n].issue},
         UNCHANGED <<issued, old>>
  PROVE  StoreInv'
<1>1. PICK t : t = [s EXCEPT ![n].status = "consumed"]
  OBVIOUS
<1>2. /\ s \in Seq(Records) /\ Sound(s) /\ "host" \in Processes
      /\ "consumed" \in Statuses \ {"pending"}
  BY DEF StoreInv, StoreOK, CodesInv, Operations, Processes, Statuses
<1>3. t = [k \in DOMAIN s |-> IF k \in {n} THEN [s[k] EXCEPT !.status = "consumed"] ELSE s[k]]
  BY <1>1, <1>2
<1>4. /\ t \in Seq(Records) /\ DOMAIN t = DOMAIN s
      /\ \A k \in DOMAIN s : /\ t[k].issue = s[k].issue
                             /\ t[k].status = IF k \in {n} THEN "consumed" ELSE s[k].status
  <2>1. t = WithStatus(s, {n}, "consumed")
    BY <1>3 DEF WithStatus
  <2>2. {n} \in SUBSET DOMAIN s /\ "consumed" \in Statuses /\ s \in Seq(Records)
    BY <1>2
  <2>3. PICK D \in SUBSET DOMAIN s : D = {n}
    BY <2>2
  <2>4. t = WithStatus(s, D, "consumed")
    BY <2>1, <2>3
  <2> QED BY <2>2, <2>3, <2>4, Closed
<1>5. s[n].issue \in Issues /\ issued \in Nat /\ claims \in [Issues -> Nat]
  <2>1. s[n] \in Records
    BY <1>2
  <2> QED BY <2>1 DEF Records, StoreInv, StoreOK
<1>6. /\ claims' \in [Issues -> Nat] /\ claims'[s[n].issue] = claims[s[n].issue] + 1
      /\ \A m \in Issues \ {s[n].issue} : claims'[m] = claims[m]
      /\ overlapped \subseteq overlapped' /\ overlapped' \subseteq Issues
  BY <1>5 DEF StoreInv, StoreOK
<1>7. /\ Unclaimed(s[n].issue) /\ s[n].issue <= issued
  BY <1>2 DEF Sound
<1>8. ClaimedOnce'
  <2> SUFFICES ASSUME NEW m \in Issues PROVE claims'[m] <= 1 \/ m \in overlapped'
    BY DEF ClaimedOnce
  <2>1. claims[m] <= 1 \/ m \in overlapped
    BY DEF StoreInv, CodesInv, ClaimedOnce
  <2> QED BY <1>5, <1>6, <1>7, <2>1 DEF Unclaimed
<1>9. \A m \in Issues : issued' < m => claims'[m] = 0
  <2>1. ASSUME NEW m \in Issues, issued < m PROVE m # s[n].issue
    <3>1. m \in Nat /\ s[n].issue \in Nat
      BY <1>5, PairingAssumption DEF Issues
    <3> QED BY <1>5, <1>7, <2>1, <3>1
  <2> QED BY <1>6, <2>1 DEF StoreInv, CodesInv
<1>10. \A m \in Issues : Unclaimed(m) /\ (m # s[n].issue \/ m \in overlapped') => Unclaimed(m)'
  BY <1>6 DEF Unclaimed
<1>11. Sound(t)'
  <2>1. ASSUME NEW k \in DOMAIN t, t[k].status = "pending" PROVE Unclaimed(t[k].issue)'
    <3>1. k # n /\ s[k].status = "pending" /\ t[k].issue = s[k].issue
      BY <1>4, <2>1
    <3>2. s[k].issue \in Issues \ {s[n].issue}
      <4>1. s[k] \in Records
        BY <1>2, <1>4
      <4> QED BY <1>2, <1>4, <3>1, <4>1 DEF Sound, Records
    <3>3. Unclaimed(s[k].issue)
      BY <1>2, <1>4, <3>1 DEF Sound
    <3>4. Unclaimed(s[k].issue)'
      BY <1>10, <3>2, <3>3
    <3> QED BY <3>1, <3>4
  <2>2. \A k \in DOMAIN t : t[k].issue <= issued'
    BY <1>2, <1>4 DEF Sound
  <2>3. \A i, j \in DOMAIN t : t[i].issue = t[j].issue => i = j
    BY <1>2, <1>4 DEF Sound
  <2> QED BY <2>1, <2>2, <2>3 DEF Sound
<1>12. ASSUME NEW q \in Processes \ {"host"}, NEW u \in snapshot[q] PROVE Sound(u.pairings)'
  <2>1. q = "cli" /\ s[n].issue \in overlapped'
    BY DEF Processes
  <2>2. PICK v \in Seq(Records) : v = u.pairings /\ Sound(v)
    BY DEF StoreInv, StoreOK, CodesInv, Operations
  <2>3. \A i \in DOMAIN v : v[i].issue \in Issues
    <3>1. \A i \in DOMAIN v : v[i] \in Records
      OBVIOUS
    <3> QED BY <3>1 DEF Records
  <2>4. \A m \in Issues : Unclaimed(m) => Unclaimed(m)'
    BY <1>10, <2>1
  <2>5. Sound(v)'
    <3>1. \A i \in DOMAIN v : v[i].status = "pending" => Unclaimed(v[i].issue)'
      BY <2>2, <2>3, <2>4 DEF Sound
    <3> QED BY <2>2, <3>1 DEF Sound
  <2> QED BY <2>2, <2>5
<1>13. issued' \in 0 .. MaxIssued
  BY DEF StoreInv, StoreOK
<1>14. WriteStore("host", t)
  BY <1>1
<1> QED BY <1>2, <1>4, <1>6, <1>8, <1>9, <1>11, <1>12, <1>13, <1>14, WriteInv

LEMMA MissInv ==
  ASSUME StoreInv, NEW code, NEW chat, Miss(code, chat)
  PROVE  StoreInv'
<1> DEFINE Hit(s) == {n \in Pending(s) : ChannelMatches(s[n], chat)}
<1>1. PICK o \in snapshot["host"] :
        WriteStore("host",
          IF Hit(o.pairings) = {} THEN store
          ELSE [n \in DOMAIN o.pairings |->
                  IF n \in Hit(o.pairings) THEN [o.pairings[n] EXCEPT !.status = "invalidated"]
                  ELSE o.pairings[n]])
  BY DEF Miss
<1>2. UNCHANGED <<issued, old, claims, overlapped>>
  BY DEF Miss
<1>3. /\ "host" \in Processes /\ "invalidated" \in Statuses \ {"pending"}
      /\ store \in Seq(Records) /\ issued' \in 0 .. MaxIssued /\ claims' \in [Issues -> Nat]
      /\ overlapped' \subseteq Issues
  BY <1>2 DEF StoreInv, StoreOK, Processes, Statuses
<1>4. PICK s \in Seq(Records) : s = o.pairings /\ Sound(s)
  BY <1>3 DEF StoreInv, StoreOK, CodesInv, Operations
<1>5. PICK D \in SUBSET DOMAIN s : D = Hit(s)
  BY DEF Pending
<1>6. PICK t : t = IF D = {} THEN store
                   ELSE [n \in DOMAIN s |-> IF n \in D THEN [s[n] EXCEPT !.status = "invalidated"]
                                            ELSE s[n]]
  OBVIOUS
<1>7. WriteStore("host", t)
  BY <1>1, <1>4, <1>5, <1>6
<1> HIDE DEF Hit
<1>8. t \in Seq(Records) /\ Sound(t)
  <2>1. CASE D = {}
    BY <1>3, <1>6, <2>1 DEF StoreInv, CodesInv
  <2>2. CASE D # {}
    <3>1. /\ t \in Seq(Records) /\ DOMAIN t = DOMAIN s
          /\ \A n \in DOMAIN s : /\ t[n].issue = s[n].issue
                                 /\ t[n].status = IF n \in D THEN "invalidated" ELSE s[n].status
      <4>1. t = WithStatus(s, D, "invalidated")
        BY <1>6, <2>2 DEF WithStatus
      <4>2. "invalidated" \in Statuses
        BY <1>3
      <4> QED BY <4>1, <4>2, Closed
    <3>2. \A n \in DOMAIN s :
            t[n].issue = s[n].issue /\ t[n].status \in {s[n].status} \cup (Statuses \ {"pending"})
      BY <1>3, <3>1
    <3> QED BY <1>4, <3>1, <3>2, ClosedSound
  <2> QED BY <2>1, <2>2
<1>9. \A u : Sound(u)' <=> Sound(u)
  BY <1>2 DEF Sound, Unclaimed
<1>10. /\ Sound(t)' /\ ClaimedOnce' /\ \A m \in Issues : issued' < m => claims'[m] = 0
       /\ \A q \in Processes : \A u \in snapshot[q] : Sound(u.pairings)'
  BY <1>2, <1>8, <1>9 DEF StoreInv, CodesInv, ClaimedOnce
<1> QED BY <1>2, <1>3, <1>7, <1>8, <1>10, WriteInv

\* Steps that leave the store alone, or only let a code age.
LEMMA StoreKept ==
  ASSUME StoreInv, UNCHANGED <<store, snapshot, issued, claims, overlapped>>,
         old' \subseteq Issues
  PROVE  StoreInv'
<1>1. \A s : Sound(s)' <=> Sound(s)
  BY DEF Sound, Unclaimed
<1>2. CodesInv'
  BY <1>1 DEF StoreInv, CodesInv, ClaimedOnce
<1> QED BY <1>2 DEF StoreInv, StoreOK

(***************************************************************************)
(* The tables                                                              *)
(***************************************************************************)
LEMMA GroupCreated ==
  ASSUME TableInv, NEW g \in Groups, CreateGroup(g)
  PROVE  TableInv'
  BY DEF TableInv, TablesOK, TasksReportToTheirGroup, Reports, CreateGroup, taskVars, askVars

\* What is moved to a chat on another channel is wired there.
LEMMA MigrationInv ==
  ASSUME TableInv, NEW g \in groups, NEW from, NEW chat \in Chats, ChannelOf[chat] # from,
         ApplyChannelMigration(g, from, chat), UNCHANGED <<groups, owned>>
  PROVE  TableInv'
<1> DEFINE sources == WiredOn(g, from)
<1>1. chat \notin sources /\ sources \subseteq Chats
  BY DEF WiredOn
<1>2. CASE wired' = wired \cup {<<chat, g>>} /\ UNCHANGED <<taskVars, dms, askVars>>
  BY <1>2 DEF TableInv, TablesOK, TasksReportToTheirGroup, Reports, taskVars, askVars
<1>3. CASE /\ wired' = (wired \cup {<<chat, g>>}) \ (sources \X {g})
           /\ tasks' = MovedTasks(g, sources, chat) /\ UNCHANGED revived
           /\ dms' = dms \ sources
           /\ asks' \subseteq asks
           /\ approvals' = approvals \ {<<g, from>>}
  <2> HIDE DEF sources
  <2>1. /\ DOMAIN tasks' = DOMAIN tasks
        /\ \A t \in DOMAIN tasks :
             tasks'[t] = IF tasks[t].group = g /\ tasks[t].chat \in sources
                         THEN [tasks[t] EXCEPT !.chat = chat] ELSE tasks[t]
    BY <1>3 DEF MovedTasks
  <2>2. ASSUME NEW t \in DOMAIN tasks
        PROVE  /\ tasks'[t] \in [group : groups, chat : Chats, active : BOOLEAN]
               /\ tasks'[t].active = tasks[t].active
               /\ Reports(t) => Reports(t)'
    <3>1. tasks[t] \in [group : groups, chat : Chats, active : BOOLEAN]
      BY DEF TableInv, TablesOK
    <3>2. CASE tasks[t].group = g /\ tasks[t].chat \in sources
      <4>1. tasks'[t].group = g /\ tasks'[t].chat = chat /\ tasks'[t].active = tasks[t].active
        BY <2>1, <3>1, <3>2
      <4>2. tasks'[t] \in [group : groups, chat : Chats, active : BOOLEAN]
        BY <2>1, <3>1, <3>2
      <4> QED BY <1>1, <1>3, <4>1, <4>2 DEF Reports
    <3>3. CASE ~ (tasks[t].group = g /\ tasks[t].chat \in sources)
      <4>1. tasks'[t] = tasks[t]
        BY <2>1, <3>3
      <4>2. <<tasks[t].chat, tasks[t].group>> \notin sources \X {g}
        BY <3>3
      <4> QED BY <1>3, <3>1, <4>1, <4>2 DEF Reports
    <3> QED BY <3>2, <3>3
  <2>3. wired' \subseteq Chats \X groups
    BY <1>3 DEF TableInv, TablesOK
  <2>4. TasksReportToTheirGroup'
    BY <1>3, <2>1, <2>2 DEF TableInv, TasksReportToTheirGroup
  <2>5. TablesOK'
    BY <1>3, <2>1, <2>2, <2>3 DEF TableInv, TablesOK
  <2> QED BY <2>4, <2>5 DEF TableInv
<1> QED BY <1>2, <1>3 DEF ApplyChannelMigration

LEMMA BootstrapInv ==
  ASSUME TablesOK, NEW chat, BootstrapOwner(chat)
  PROVE  owned' \in BOOLEAN /\ dms' \subseteq Direct
  BY DEF BootstrapOwner, TablesOK

LEMMA RegisterInv ==
  ASSUME TableInv, NEW i \in Intents, NEW chat \in Chats,
         i.kind = "migrate" => ChannelOf[chat] # i.from,
         RegisterForIntent(i, chat), UNCHANGED groups
  PROVE  TableInv'
<1> USE DEF TableInv, TablesOK, TasksReportToTheirGroup, Reports, taskVars, askVars
<1>1. CASE UNCHANGED <<wired, taskVars, owned, dms, askVars>>
  BY <1>1
<1>2. CASE i.target \in groups /\ i.kind = "migrate"
           /\ ApplyChannelMigration(i.target, i.from, chat) /\ UNCHANGED owned
  BY <1>2, MigrationInv
<1>3. CASE i.target \in groups /\ wired' = wired \cup {<<chat, i.target>>}
           /\ (BootstrapOwner(chat) \/ UNCHANGED <<owned, dms>>) /\ UNCHANGED <<taskVars, askVars>>
  <2>1. owned' \in BOOLEAN /\ dms' \subseteq Direct
    BY <1>3, BootstrapInv
  <2> QED BY <1>3, <2>1
<1> QED BY <1>1, <1>2, <1>3, Zenon DEF RegisterForIntent

LEMMA RegisterGroupInv ==
  ASSUME TableInv, NEW g \in Groups, NEW c \in Chats, RegisterGroup(g, c)
  PROVE  TableInv'
  BY DEF RegisterGroup, TableInv, TablesOK, TasksReportToTheirGroup, Reports, taskVars, askVars

(***************************************************************************)
(* The tasks                                                               *)
(***************************************************************************)
\* Steps on the rows of the tasks, of which those that are active without need
\* are known.
LEMMA TasksChange ==
  ASSUME TableInv, UNCHANGED <<groups, wired, owned, dms, askVars>>,
         DOMAIN tasks' \subseteq Tasks, revived' \subseteq DOMAIN tasks',
         \A t \in DOMAIN tasks' :
           /\ tasks'[t] \in [group : groups, chat : Chats, active : BOOLEAN]
           /\ tasks'[t].active /\ t \notin revived' =>
                <<tasks'[t].chat, tasks'[t].group>> \in wired
  PROVE  TableInv'
  BY DEF TableInv, TablesOK, TasksReportToTheirGroup, Reports, askVars

LEMMA ScheduleInv ==
  ASSUME TableInv, NEW t \in Tasks, NEW g, NEW c, ScheduleTask(t, g, c)
  PROVE  TableInv'
<1> DEFINE row == [group |-> g, chat |-> c, active |-> TRUE]
<1>1. /\ <<c, g>> \in wired /\ t \notin DOMAIN tasks /\ UNCHANGED <<groups, wired, owned, dms, askVars>>
      /\ tasks' = [u \in DOMAIN tasks \cup {t} |-> IF u = t THEN row ELSE tasks[u]] /\ UNCHANGED revived
  BY DEF ScheduleTask
<1>2. c \in Chats /\ g \in groups
  BY <1>1 DEF TableInv, TablesOK
<1>3. /\ row \in [group : groups, chat : Chats, active : BOOLEAN]
      /\ row.chat = c /\ row.group = g
  BY <1>2
<1> HIDE DEF row
<1>4. /\ DOMAIN tasks' = DOMAIN tasks \cup {t} /\ tasks'[t] = row
      /\ \A u \in DOMAIN tasks : tasks'[u] = tasks[u]
  BY <1>1
<1>5. /\ DOMAIN tasks' \subseteq Tasks /\ revived' \subseteq DOMAIN tasks'
  BY <1>1, <1>4 DEF TableInv, TablesOK
<1>6. ASSUME NEW u \in DOMAIN tasks'
      PROVE  /\ tasks'[u] \in [group : groups, chat : Chats, active : BOOLEAN]
             /\ tasks'[u].active /\ u \notin revived' =>
                  <<tasks'[u].chat, tasks'[u].group>> \in wired
  <2>1. CASE u = t
    BY <1>1, <1>3, <1>4, <2>1
  <2>2. CASE u \in DOMAIN tasks
    BY <1>1, <1>4, <2>2 DEF TableInv, TablesOK, TasksReportToTheirGroup, Reports
  <2> QED BY <1>4, <2>1, <2>2
<1> QED BY <1>1, <1>5, <1>6, TasksChange

LEMMA StatusInv ==
  ASSUME TableInv, NEW t \in Tasks, NEW active \in BOOLEAN, SetTaskStatus(t, active)
  PROVE  TableInv'
<1>1. /\ t \in DOMAIN tasks /\ UNCHANGED <<groups, wired, owned, dms, askVars>>
      /\ tasks' = [tasks EXCEPT ![t].active = active]
      /\ revived' = IF active /\ ~ Reports(t) THEN revived \cup {t} ELSE revived \ {t}
  BY DEF SetTaskStatus
<1>2. \A u \in DOMAIN tasks : tasks[u] \in [group : groups, chat : Chats, active : BOOLEAN]
  BY DEF TableInv, TablesOK
<1>3. /\ DOMAIN tasks' = DOMAIN tasks /\ \A u \in DOMAIN tasks \ {t} : tasks'[u] = tasks[u]
      /\ tasks'[t] = [tasks[t] EXCEPT !.active = active]
  BY <1>1
<1>4. /\ tasks'[t] \in [group : groups, chat : Chats, active : BOOLEAN]
      /\ tasks'[t].active = active
      /\ tasks'[t].chat = tasks[t].chat /\ tasks'[t].group = tasks[t].group
  BY <1>1, <1>2, <1>3
<1>5. DOMAIN tasks' \subseteq Tasks /\ revived' \subseteq DOMAIN tasks'
  BY <1>1, <1>3 DEF TableInv, TablesOK
<1>6. ASSUME NEW u \in DOMAIN tasks'
      PROVE  /\ tasks'[u] \in [group : groups, chat : Chats, active : BOOLEAN]
             /\ tasks'[u].active /\ u \notin revived' =>
                  <<tasks'[u].chat, tasks'[u].group>> \in wired
  <2>1. CASE u = t
    BY <1>1, <1>4, <2>1 DEF Reports
  <2>2. CASE u # t
    BY <1>1, <1>2, <1>3, <2>2 DEF TableInv, TasksReportToTheirGroup, Reports
  <2> QED BY <2>1, <2>2
<1> QED BY <1>1, <1>5, <1>6, TasksChange

\* Rows that are deleted.
LEMMA KeptTasks ==
  ASSUME TableInv, NEW K \in SUBSET DOMAIN tasks, KeepTasks(K)
  PROVE  /\ DOMAIN tasks' = K /\ revived' \subseteq K /\ revived' = revived \cap K
         /\ \A t \in K : tasks'[t] = tasks[t]
  BY DEF KeepTasks

LEMMA DeleteTaskInv ==
  ASSUME TableInv, NEW t, DeleteTask(t)
  PROVE  TableInv'
<1>1. /\ DOMAIN tasks' = DOMAIN tasks \ {t} /\ revived' = revived \cap (DOMAIN tasks \ {t})
      /\ \A u \in DOMAIN tasks' : tasks'[u] = tasks[u]
  BY KeptTasks DEF DeleteTask
<1>2. UNCHANGED <<groups, wired, owned, dms, askVars>>
  BY DEF DeleteTask
<1>3. DOMAIN tasks' \subseteq Tasks /\ revived' \subseteq DOMAIN tasks'
  BY <1>1 DEF TableInv, TablesOK
<1>4. \A u \in DOMAIN tasks' :
        /\ tasks'[u] \in [group : groups, chat : Chats, active : BOOLEAN]
        /\ tasks'[u].active /\ u \notin revived' =>
             <<tasks'[u].chat, tasks'[u].group>> \in wired
  BY <1>1 DEF TableInv, TablesOK, TasksReportToTheirGroup, Reports
<1> QED BY <1>2, <1>3, <1>4, TasksChange

(***************************************************************************)
(* Asks, deletions and removals                                            *)
(***************************************************************************)
LEMMA AskInv ==
  ASSUME TableInv, NEW g \in Groups, NEW c \in Chats, Ask(g, c)
  PROVE  TableInv'
<1>1. PICK d \in dms : /\ approvals' = approvals \cup {<<g, ChannelOf[d]>>}
                       /\ asks' = asks \cup {[chat |-> c, group |-> g, via |-> ChannelOf[d]]}
  BY DEF Ask
<1>2. ChannelOf[d] \in Channels /\ g \in groups
  BY PairingAssumption DEF Ask, TableInv, TablesOK, Channels
<1>3. UNCHANGED <<groups, wired, taskVars, owned, dms>>
  BY DEF Ask
<1> QED BY <1>1, <1>2, <1>3 DEF TableInv, TablesOK, TasksReportToTheirGroup, Reports, taskVars

\* A group that is deleted leaves nothing behind: an ask would have held it.
LEMMA DeleteInv == ASSUME TableInv, NEW g \in Groups, DeleteGroup(g) PROVE TableInv'
<1> DEFINE K == {t \in DOMAIN tasks : tasks[t].group # g}
<1>1. /\ groups' = groups \ {g} /\ wired' = {w \in wired : w[2] # g}
      /\ KeepTasks(K) /\ approvals' = {a \in approvals : a[1] # g}
      /\ UNCHANGED <<owned, dms, asks>> /\ ~ Restricted(asks, {<<g, ch>> : ch \in Channels})
  BY DEF DeleteGroup, DeleteBlocked
<1>2. \A a \in asks : a.group # g
  <2> SUFFICES ASSUME NEW a \in asks, a.group = g PROVE FALSE
    OBVIOUS
  <2>1. a.via \in Channels
    BY DEF TableInv, TablesOK
  <2> QED BY <1>1, <2>1 DEF Restricted
<1>3. /\ DOMAIN tasks' = K /\ revived' = revived \cap K /\ K \subseteq DOMAIN tasks
      /\ \A t \in K : tasks'[t] = tasks[t] /\ tasks[t].group # g
  BY <1>1, KeptTasks
<1> HIDE DEF K
<1>4. \A t \in DOMAIN tasks' : tasks'[t] \in [group : groups', chat : Chats, active : BOOLEAN]
  <2> SUFFICES ASSUME NEW t \in K
               PROVE  tasks[t] \in [group : groups', chat : Chats, active : BOOLEAN]
    BY <1>3
  <2>1. tasks[t] \in [group : groups, chat : Chats, active : BOOLEAN] /\ tasks[t].group # g
    BY <1>3 DEF TableInv, TablesOK
  <2> QED BY <1>1, <2>1
<1>5. TablesOK'
  BY <1>1, <1>2, <1>3, <1>4 DEF TableInv, TablesOK
<1>6. TasksReportToTheirGroup'
  <2> SUFFICES ASSUME NEW t \in K, t \notin revived, tasks[t].active
               PROVE  <<tasks[t].chat, tasks[t].group>> \in wired'
    BY <1>3 DEF TasksReportToTheirGroup, Reports
  <2>1. <<tasks[t].chat, tasks[t].group>> \in wired
    BY <1>3 DEF TableInv, TasksReportToTheirGroup, Reports
  <2> QED BY <1>1, <1>3, <2>1
<1> QED BY <1>5, <1>6 DEF TableInv

LEMMA RemovalInv == ASSUME TableInv, NEW ch, ApplyChannelRemoval(ch) PROVE TableInv'
<1>1. /\ wired' = {w \in wired : ChannelOf[w[1]] # ch}
      /\ tasks' = CompletedTasks(ch)
      /\ dms' \subseteq dms /\ asks' \subseteq asks /\ approvals' \subseteq approvals
      /\ UNCHANGED <<groups, owned, revived>>
  BY DEF ApplyChannelRemoval
<1>2. DOMAIN tasks' = DOMAIN tasks
  BY <1>1 DEF CompletedTasks
<1>3. ASSUME NEW t \in DOMAIN tasks
      PROVE  /\ tasks'[t] \in [group : groups, chat : Chats, active : BOOLEAN]
             /\ tasks'[t].chat = tasks[t].chat /\ tasks'[t].group = tasks[t].group
             /\ tasks'[t].active => tasks[t].active /\ ChannelOf[tasks[t].chat] # ch
  <2>1. tasks[t] \in [group : groups, chat : Chats, active : BOOLEAN]
    BY DEF TableInv, TablesOK
  <2>2. tasks'[t] = [tasks[t] EXCEPT !.active = @ /\ ChannelOf[tasks[t].chat] # ch]
    BY <1>1 DEF CompletedTasks
  <2>3. (tasks[t].active /\ ChannelOf[tasks[t].chat] # ch) \in BOOLEAN
    OBVIOUS
  <2>4. PICK b \in BOOLEAN : /\ b <=> (tasks[t].active /\ ChannelOf[tasks[t].chat] # ch)
                             /\ tasks'[t] = [tasks[t] EXCEPT !.active = b]
    BY <2>2, <2>3
  <2> QED BY <2>1, <2>4
<1>4. TablesOK'
  BY <1>1, <1>2, <1>3 DEF TableInv, TablesOK
<1>5. TasksReportToTheirGroup'
  BY <1>1, <1>2, <1>3 DEF TableInv, TasksReportToTheirGroup, Reports
<1> QED BY <1>4, <1>5 DEF TableInv

LEMMA TablesKept ==
  ASSUME TableInv, UNCHANGED <<groups, wired, taskVars, owned, dms, approvals>>,
         asks' \subseteq asks
  PROVE  TableInv'
  BY DEF TableInv, TablesOK, TasksReportToTheirGroup, Reports, taskVars

(***************************************************************************)
(* Every step keeps the invariant                                          *)
(***************************************************************************)
LEMMA InitInv == Init => Inv
<1> SUFFICES ASSUME Init PROVE Inv
  OBVIOUS
<1>1. StoreOK
  BY PairingAssumption DEF Init, StoreOK
<1>2. CodesInv
  BY DEF Init, CodesInv, ClaimedOnce, Sound
<1>3. TablesOK
  <2>1. DOMAIN tasks = {}
    BY DEF Init
  <2> QED BY <2>1 DEF Init, TablesOK
<1>4. TasksReportToTheirGroup
  BY DEF Init, TasksReportToTheirGroup
<1> QED BY <1>1, <1>2, <1>3, <1>4 DEF Inv, StoreInv, TableInv

\* A process reads the store to issue a code.
LEMMA IssueInv ==
  ASSUME Inv,
         \/ \E ch \in Channels : PairMain(ch)
         \/ \E p \in Processes, g \in Groups : RegisterCode(p, g)
         \/ \E g \in Groups, from, to \in Channels : MigrateCode(g, from, to)
  PROVE  Inv'
<1>0. ASSUME NEW p \in Processes, NEW ch \in Channels \cup {"any"}, NEW kind, NEW g, NEW from,
             [kind |-> kind, target |-> g, from |-> from] \in Intents,
             kind = "migrate" => ch \notin {"any", from},
             Issue(p, ch, kind, g, from)
      PROVE  StoreInv'
  <2> DEFINE w == [channel |-> ch, intent |-> [kind |-> kind, target |-> g, from |-> from]]
  <2>1. {w} \in SUBSET Wants
    BY <1>0 DEF Wants, Wanted
  <2>2. ReadStore(p, {w})
    BY <1>0 DEF Issue
  <2> QED BY <2>1, <2>2, ReadInv DEF Inv
<1>1. ASSUME NEW ch \in Channels, PairMain(ch) PROVE Inv'
  <2>1. [kind |-> "main", target |-> Main, from |-> "none"] \in Intents /\ "cli" \in Processes
    BY DEF Intents, Processes
  <2>2. StoreInv'
    BY <1>0, <1>1, <2>1 DEF PairMain
  <2>3. TableInv'
    BY <1>1, GroupCreated, PairingAssumption DEF PairMain, Inv
  <2> QED BY <2>2, <2>3 DEF Inv
<1>2. ASSUME NEW p \in Processes, NEW g \in Groups, RegisterCode(p, g) PROVE Inv'
  <2>1. [kind |-> "group", target |-> g, from |-> "none"] \in Intents
    BY DEF Intents
  <2>2. StoreInv'
    BY <1>0, <1>2, <2>1 DEF RegisterCode
  <2>3. TableInv'
    BY <1>2, GroupCreated DEF RegisterCode, Inv
  <2> QED BY <2>2, <2>3 DEF Inv
<1>3. ASSUME NEW g \in Groups, NEW from \in Channels, NEW to \in Channels,
             MigrateCode(g, from, to)
      PROVE  Inv'
  <2>1. /\ [kind |-> "migrate", target |-> g, from |-> from] \in Intents /\ "cli" \in Processes
        /\ to \notin {"any", from}
    BY <1>3, PairingAssumption DEF Intents, Processes, MigrateCode, Channels
  <2>2. StoreInv'
    BY <1>0, <1>3, <2>1 DEF MigrateCode
  <2>3. TableInv'
    BY <1>3, TablesKept DEF MigrateCode, Inv, tableVars, askVars
  <2> QED BY <2>2, <2>3 DEF Inv
<1> QED BY <1>1, <1>2, <1>3

LEMMA ClaimInv ==
  ASSUME Inv, NEW code \in Codes, NEW chat \in Chats, ConsumePendingCode(code, chat)
  PROVE  Inv'
<1> DEFINE Claimed(s, n) ==
             /\ WriteStore("host", [s EXCEPT ![n].status = "consumed"])
             /\ claims' = [claims EXCEPT ![s[n].issue] = @ + 1]
             /\ overlapped' = IF snapshot["cli"] = {} THEN overlapped
                              ELSE overlapped \cup {s[n].issue}
             /\ RegisterForIntent(s[n].intent, chat)
<1>a. PICK o \in snapshot["host"] :
        \E n \in Found(o.pairings, code, chat) : Claimed(o.pairings, n)
  BY DEF ConsumePendingCode
<1>b. PICK s : s = o.pairings
  OBVIOUS
<1>1. PICK n \in Found(s, code, chat) : Claimed(s, n)
  BY <1>a, <1>b
<1>2. n \in DOMAIN s /\ s[n].status = "pending" /\ ChannelMatches(s[n], chat)
  BY DEF Found, Pending
<1>3. s[n] \in Records
  <2>1. s \in Seq(Records)
    BY <1>b DEF Inv, StoreInv, StoreOK, Operations, Processes
  <2> QED BY <1>2, <2>1
<1>c. UNCHANGED <<issued, old, groups>>
  BY DEF ConsumePendingCode
<1>4. StoreInv'
  BY <1>b, <1>c, <1>1, <1>2, ConsumeInv DEF Inv
<1>5. s[n].intent \in Intents /\ (s[n].intent.kind = "migrate" => ChannelOf[chat] # s[n].intent.from)
  BY <1>2, <1>3 DEF Records, ChannelMatches
<1>6. TableInv'
  BY <1>c, <1>1, <1>5, RegisterInv DEF Inv
<1> QED BY <1>4, <1>6 DEF Inv

\* Steps on the store alone, and steps on the tables alone.
LEMMA StoreStep == ASSUME Inv, StoreInv', UNCHANGED tableVars PROVE Inv'
  BY TablesKept DEF Inv, tableVars, askVars

LEMMA TableStep == ASSUME Inv, TableInv', UNCHANGED storeVars PROVE Inv'
  BY StoreKept DEF Inv, storeVars, StoreInv, StoreOK

LEMMA NextInv == ASSUME Inv, [Next]_vars PROVE Inv'
<1>1. CASE UNCHANGED vars
  BY <1>1, TableStep, TablesKept DEF vars, tableVars, askVars, Inv
<1>2. ASSUME ReadForClaim PROVE Inv'
  <2>1. {} \in SUBSET Wants /\ "host" \in Processes
    BY DEF Processes
  <2>2. ReadStore("host", {}) /\ UNCHANGED tableVars
    BY <1>2 DEF ReadForClaim, Claim
  <2>3. StoreInv'
    BY <2>1, <2>2, ReadInv DEF Inv
  <2> QED BY <2>2, <2>3, StoreStep
<1>3. ASSUME NEW code \in Codes, NEW c \in Chats, Miss(code, c) PROVE Inv'
  <2>1. StoreInv'
    BY <1>3, MissInv DEF Inv
  <2>2. UNCHANGED tableVars
    BY <1>3 DEF Miss
  <2> QED BY <2>1, <2>2, StoreStep
<1>4. ASSUME NEW n \in Issues, Age(n) PROVE Inv'
  BY <1>4, StoreKept, StoreStep DEF Inv, Age, StoreInv, StoreOK
<1>5. ASSUME NEW code \in Codes, NEW p \in Processes, CreatePendingCode(p, code) PROVE Inv'
  BY <1>5, CreateInv, StoreStep DEF Inv, CreatePendingCode
<1>6. ASSUME NEW t \in Tasks, NEW g \in Groups, NEW c \in Chats, ScheduleTask(t, g, c) PROVE Inv'
  BY <1>6, ScheduleInv, TableStep DEF Inv, ScheduleTask
<1>7. ASSUME NEW t \in Tasks, NEW active \in BOOLEAN, SetTaskStatus(t, active) PROVE Inv'
  BY <1>7, StatusInv, TableStep DEF Inv, SetTaskStatus
<1>8. ASSUME NEW t \in Tasks, DeleteTask(t) PROVE Inv'
  BY <1>8, DeleteTaskInv, TableStep DEF Inv, DeleteTask
<1>9. ASSUME NEW g \in Groups, NEW c \in Chats, RegisterGroup(g, c) \/ Ask(g, c) PROVE Inv'
  BY <1>9, RegisterGroupInv, AskInv, TableStep DEF Inv, RegisterGroup, Ask
<1>10. ASSUME NEW g \in Groups, DeleteGroup(g) PROVE Inv'
  BY <1>10, DeleteInv, TableStep DEF Inv, DeleteGroup
<1>11. ASSUME NEW a \in asks, Answered(a) PROVE Inv'
  BY <1>11, TablesKept, TableStep DEF Inv, Answered
<1>12. ASSUME NEW ch \in Channels, ApplyChannelRemoval(ch) PROVE Inv'
  BY <1>12, RemovalInv, TableStep DEF Inv, ApplyChannelRemoval
<1> QED BY <1>1, <1>2, <1>3, <1>4, <1>5, <1>6, <1>7, <1>8, <1>9, <1>10, <1>11, <1>12,
           IssueInv, ClaimInv DEF Next

LEMMA Invariance == Spec => []Inv
<1>1. Init => Inv
  BY InitInv
<1>2. Inv /\ [Next]_vars => Inv'
  BY NextInv
<1> QED BY <1>1, <1>2, PTL DEF Spec

(***************************************************************************)
(* Theorems                                                                *)
(***************************************************************************)
\* Store and tables keep their types, also when the command line and the host
\* work at the same time: no row is left of a group that was deleted.
THEOREM TypeCorrect == Spec => []TypeOK
<1>1. Inv => TypeOK
  BY InvType
<1> QED BY <1>1, Invariance, PTL

\* A code is good for one chat, whatever the host and the command line write over
\* each other's work, unless the command line had read the store when it was claimed.
THEOREM CodeClaimedOnce == Spec => []ClaimedOnce
<1>1. Inv => ClaimedOnce
  BY DEF Inv, StoreInv, CodesInv
<1> QED BY <1>1, Invariance, PTL

\* Active tasks follow their group through migrations, removals and deletions,
\* but for those made active again in a chat the group has lost.
THEOREM TasksFollowTheirGroup == Spec => []TasksReportToTheirGroup
<1>1. Inv => TasksReportToTheirGroup
  BY DEF Inv, TableInv
<1> QED BY <1>1, Invariance, PTL
=============================================================================
